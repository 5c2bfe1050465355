------------------------------ MODULE OdsFinish ------------------------------
(***************************************************************************)
(* Task ods-finish (cmd/finish), run whether or not a task failed: reports *)
(* the outcome to Bitbucket and uploads the artifacts of all checkouts to  *)
(* Nexus, file by file.                                                    *)
(***************************************************************************)
EXTENDS Workspace

NoJob     == JobOf(0, FALSE, "none")
EndRun(r) == Goto(r, "idle") /\ job' = [job EXCEPT ![r] = NoJob]

\* Mutant: a run without aggregate status is reported as successful.
TasksSuccessfulAlways(r) == TRUE

TasksSuccessful(r) == job[r].ok

\* Without a context in the workspace nothing is reported or uploaded.
NoContext(r) ==
  /\ At(r, "finish") /\ OwnCommit(r) = NoCommit
  /\ EndRun(r)
  /\ UNCHANGED <<checkout, files, builds, git, assets, registry, cluster, counts, succeeded>>

BitbucketBuildStatus(r) == IF TasksSuccessful(r) THEN "SUCCESSFUL" ELSE "FAILED"

SetBuildStatus(r) ==
  /\ At(r, "finish") /\ OwnCommit(r) # NoCommit
  /\ BuildStatusCreate(OwnCommit(r), BitbucketBuildStatus(r))
  /\ succeeded' = IF job[r].ok THEN succeeded \cup {OwnCommit(r)} ELSE succeeded
  /\ Goto(r, "archive")
  /\ UNCHANGED <<job, checkout, files, builds, tip, assets, registry, cluster, counts>>

CreatePipelineRunArtifact(r) ==
  /\ At(r, "archive")
  /\ Write(r, {File("run", job[r].id, IF job[r].ok THEN Success ELSE Failure)})
  /\ Proceed(r, "collect")
  /\ UNCHANGED <<checkout, builds, git, assets, registry, cluster, counts, succeeded>>

\* Stage dev, and runs without an environment: the temporary repository.
TargetRepository(r) == IF job[r].stage \in {"none", "dev"} THEN "temporary" ELSE "permanent"

\* Mutant: artifacts of the manifest are skipped whatever repository they are from.
ContainsAnywhere(m, store, f) == Id(f) \in m.ids

Contains(m, store, f) == m.store = store /\ Id(f) \in m.ids

\* The files of one checkout are listed; there must be a manifest.
CollectArtifacts(r) ==
  /\ At(r, "collect")
  /\ LET m == manifest[r][Here(r)]
     IN  IF m = NoManifest THEN EndRun(r)
         ELSE /\ job' = [job EXCEPT ![r].todo =
                   {f \in files[r][Here(r)] : ~ Contains(m, TargetRepository(r), f)}]
              /\ Goto(r, "upload")
  /\ UNCHANGED <<checkout, files, builds, git, assets, registry, cluster, counts, succeeded>>

\* Mutant: artifacts of a failed run go where those of others go.
ArtifactFolderOne(r) == 0

ArtifactFolder(r) == IF TasksSuccessful(r) THEN 0 ELSE job[r].id

\* An upload replaces the asset of the same path.
Path(a)     == <<a.store, a.commit, a.folder, Id(a.file)>>
Upload(new) == assets' = {a \in assets : Path(a) # Path(new)} \cup {new}

UploadArtifact(r) ==
  /\ At(r, "upload")
  /\ \E f \in job[r].todo :
       /\ Upload([store |-> TargetRepository(r), commit |-> head[r][Here(r)],
                  folder |-> ArtifactFolder(r), file |-> f])
       /\ job' = [job EXCEPT ![r].todo = @ \ {f}]
  /\ UNCHANGED <<pc, checkout, files, builds, git, registry, cluster, counts, succeeded>>

UploadsDone(r) ==
  /\ At(r, "upload") /\ job[r].todo = {}
  /\ IF LastHere(r) THEN EndRun(r)
     ELSE job' = [job EXCEPT ![r].at = @ + 1] /\ Goto(r, "collect")
  /\ UNCHANGED <<checkout, files, builds, git, assets, registry, cluster, counts, succeeded>>

FinishStep(r) ==
  \/ NoContext(r) \/ SetBuildStatus(r) \/ CreatePipelineRunArtifact(r)
  \/ CollectArtifacts(r) \/ UploadArtifact(r) \/ UploadsDone(r)
=============================================================================
