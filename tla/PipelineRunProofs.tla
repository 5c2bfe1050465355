--------------------------- MODULE PipelineRunProofs ---------------------------
(***************************************************************************)
(* The safety properties of PipelineRun, for every value of its constants. *)
(* Each rests on what a run relies on from one of its steps to a later     *)
(* one, while other runs, branches and servers move on.                    *)
(***************************************************************************)
EXTENDS PipelineRunTypeProofs

USE DEF run, checkout, builds, git, registry, cluster, counts, vars

-----------------------------------------------------------------------------
(* Certification: what pipeline run artifacts say, in Nexus and in the     *)
(* workspaces, and what a run may conclude from them.                      *)

(* A run's artifacts are of what is checked out; only its own run artifact *)
(* says Failure, and then it is over or failed.                            *)
Certified(r, q, f) ==
  \/ f.value \in {Success, Garbled} /\ head[r][q] \in succeeded
  \/ q = r /\ f.value = Failure /\ (pc[r] \in {"idle", "clean"} \/ ~ job[r].ok)

FilesCertified(r) ==
  \A q \in Repos : \A f \in files[r][q] : f.kind = "run" => Certified(r, q, f)

NoFilesYet(r) == pc[r] = "checkout" => \A q \in Repos : files[r][q] = {}

TodoFromFiles(r) == pc[r] = "upload" => job[r].todo \subseteq files[r][Here(r)]

CertifiedAtArchive(r) == pc[r] = "archive" /\ job[r].ok => OwnCommit(r) \in succeeded

DownloadsChecked(r) == pc[r] = "download" =>
  \A i \in 2..(job[r].at - 1) : head[r][Checkouts[r][i]] \in succeeded

ChildrenCertified(r) == PastStart(r) => \A q \in Children(r) : head[r][q] \in succeeded

OkInTasks(r) == pc[r] \in TaskPlaces => job[r].ok

StageAtDeploy(r) == pc[r] \in {"diff", "upgrade"} => Stage(r) \in Environments

RunNumbered(r) == pc[r] # "idle" => job[r].id > 0

CertOf(r) ==
  /\ FilesCertified(r) /\ NoFilesYet(r) /\ TodoFromFiles(r) /\ CertifiedAtArchive(r)
  /\ DownloadsChecked(r) /\ ChildrenCertified(r) /\ OkInTasks(r) /\ StageAtDeploy(r)
  /\ RunNumbered(r)

CertInv == NexusHonest /\ \A r \in Repos : CertOf(r)

-----------------------------------------------------------------------------
(* Builds: what is stamped in the cache is whole, and after ods-start has  *)
(* cleaned it there is nothing else in it.                                 *)
BuildOf(r) ==
  /\ \A b \in built[r] : b.tree = Tree(r) /\ b.whole
  /\ \A e \in cache[r] : e.stamped => e.whole
  /\ pc[r] \in {"checkout", "download", "build"} => \A e \in cache[r] : e.stamped
  /\ pc[r] = "checkout" => built[r] = {}

BuildInv == \A r \in Repos : BuildOf(r)

-----------------------------------------------------------------------------
(* Images: a tag is pushed when it is not there, or is taken not to be.    *)
Current(images, unsure, c, f) == f.kind = "image" =>
  c \in Commits /\ f.value # 0 /\ (c \notin unsure => f.value \in {images[c], Garbled})

ImageCurrent(c, f) == Current(image, misread, c, f)

AssetsCurrent == \A a \in assets : ImageCurrent(a.commit, a.file)

FilesCurrent(r) == \A q \in Repos : \A f \in files[r][q] : ImageCurrent(head[r][q], f)

PushPending(r) == pc[r] = "push" => image[OwnCommit(r)] = 0 \/ OwnCommit(r) \in misread

JustPushed(r) == pc[r] = "aqua" => image[OwnCommit(r)] = job[r].id

PackagedPlaces == {"aqua", "deploy", "diff", "upgrade"} \cup FinishPlaces
Packaged(r) ==
  job[r].ok /\ pc[r] \in PackagedPlaces /\ "package" \in Tasks[r] =>
    OwnCommit(r) \in Commits /\ image[OwnCommit(r)] # 0

ImageOf(r) ==
  FilesCurrent(r) /\ PushPending(r) /\ JustPushed(r) /\ Packaged(r)

ImageInv == AssetsCurrent /\ GreenCommitBuilt /\ \A r \in Repos : ImageOf(r)

-----------------------------------------------------------------------------
(* Deployments: what has been copied stays what the artifacts record.      *)
Copied(r, q) == Stage(r) \notin RegistryHosts /\ head[r][q] \notin misread =>
  \A f \in Images(r, q) : spaces[Stage(r)][head[r][q]] = f.value

CopiedSoFar(r) ==
  pc[r] = "deploy" /\ Stage(r) # "none" => \A i \in 1..(job[r].at - 1) : Copied(r, Checkouts[r][i])

CopiedPlaces == {"diff", "upgrade"} \cup FinishPlaces
Deployed(r) ==
  job[r].ok /\ "deploy" \in Tasks[r] /\ Stage(r) # "none" =>
    /\ pc[r] \in CopiedPlaces => \A q \in Repos : Copied(r, q)
    /\ pc[r] \in FinishPlaces => release[r][Stage(r)].chart = Chart(r)

FilesOfCheckouts(r) ==
  \A q \in Repos : files[r][q] # {} => \E i \in DOMAIN Checkouts[r] : Checkouts[r][i] = q

DeployOf(r) == CopiedSoFar(r) /\ Deployed(r) /\ FilesOfCheckouts(r)

DeployInv == \A r \in Repos : DeployOf(r)

-----------------------------------------------------------------------------
(* Quality gates: the last analysis in the queue is that of the run.       *)
GateOf(r) ==
  /\ pc[r] \in {"analysis", "gate"} =>
       IF sonar[r].queue = << >>
         THEN sonar[r].gate.run = job[r].id \/ job[r].id \in sonar[r].failed
         ELSE sonar[r].queue[Len(sonar[r].queue)] = job[r].id
  /\ pc[r] = "gate" => sonar[r].queue = << >> /\ sonar[r].gate.run = job[r].id

GateInv == \A r \in Repos : GateOf(r)

-----------------------------------------------------------------------------
(* Archiving: manifests tell the truth, and uploads are never undone.      *)
InAssets(A, store, c, id) ==
  \E a \in A : a.store = store /\ a.commit = c /\ a.folder = 0 /\ Id(a.file) = id

ManifestTrue(r) ==
  \A q \in Repos : manifest[r][q].store \in Stores =>
    \A id \in manifest[r][q].ids : InAssets(assets, manifest[r][q].store, head[r][q], id)

NoManifestYet(r) == pc[r] = "checkout" => \A q \in Repos : manifest[r][q] = NoManifest

ArchivedSoFar(r) ==
  job[r].ok /\ pc[r] \in {"collect", "upload"} =>
    /\ \A i \in 1..(job[r].at - 1) :
         \A f \in files[r][Checkouts[r][i]] : Archived(r, Checkouts[r][i], f)
    /\ pc[r] = "upload" =>
         \A f \in files[r][Here(r)] : f \in job[r].todo \/ Archived(r, Here(r), f)

ArchiveOf(r) == ManifestTrue(r) /\ NoManifestYet(r) /\ ArchivedSoFar(r)

ArchiveInv == \A r \in Repos : ArchiveOf(r)

-----------------------------------------------------------------------------
(* What a step does to the run it is of, and that it does nothing to others*)

TypedParts == RunsTyped /\ WorkspacesTyped /\ ServersTyped

Others(r) ==
  \A q \in Repos \ {r} :
    /\ pc'[q] = pc[q] /\ job'[q] = job[q]
    /\ head'[q] = head[q] /\ files'[q] = files[q] /\ manifest'[q] = manifest[q]

\* No artifact of a kind appears in r's workspace.
Keeps(r, kind) ==
  \A q \in Repos : \A f \in files'[r][q] : f.kind = kind => f \in files[r][q]

LEMMA MovesJob ==
  ASSUME RunsTyped, NEW r \in Repos, NEW place \in Places, Moves(r, place)
  PROVE  \/ /\ job'[r].id = job[r].id /\ job'[r].stage = job[r].stage
            /\ \/ job'[r].ok = job[r].ok
               \/ ~ job'[r].ok /\ place = "finish"
         \/ ~ job'[r].ok /\ place = "idle"
  <1>1. job[r] \in Job
    BY DEF RunsTyped
  <1>2. CASE Goto(r, place) /\ UNCHANGED job
    BY <1>2
  <1>3. CASE Proceed(r, place)
    BY <1>1, <1>3 DEF Proceed, RunsTyped, Job
  <1>4. CASE Fatal(r) /\ place = "finish"
    BY <1>1, <1>4 DEF Fatal, RunsTyped, JobOf
  <1>5. CASE EndRun(r) /\ place = "idle"
    BY <1>1, <1>5 DEF EndRun, RunsTyped, JobOf, NoJob
  <1>6. QED
    BY <1>2, <1>3, <1>4, <1>5 DEF Moves

LEMMA WriteKeeps ==
  ASSUME WorkspacesTyped, NEW r \in Repos, NEW new, Write(r, new),
         NEW kind, \A f \in new : f.kind # kind
  PROVE  /\ Keeps(r, kind)
         /\ \A q \in Repos \ {r} : files'[q] = files[q] /\ files'[r][q] = files[r][q]
         /\ files'[r][r] = Written(files[r][r], new)
  <1>1. files' = [files EXCEPT ![r][r] = Written(files[r][r], new)]
    BY DEF Write
  <1>2. /\ \A q \in Repos \ {r} : files'[q] = files[q] /\ files'[r][q] = files[r][q]
        /\ files'[r][r] = Written(files[r][r], new)
    BY <1>1 DEF WorkspacesTyped
  <1>3. QED
    BY <1>2 DEF Keeps, Written

TaskStep(r) == BuildStep(r) \/ PackageStep(r) \/ DeployStep(r)
LaterPlaces == TaskPlaces \ StartPlaces

\* The run goes on, or it has failed.
GoesOn(r, places) ==
  /\ job'[r].id = job[r].id /\ job'[r].stage = job[r].stage
  /\ \/ pc'[r] \in places /\ job'[r].ok = job[r].ok
     \/ pc'[r] = "finish" /\ ~ job'[r].ok

LEMMA MovesOn ==
  ASSUME RunsTyped, NEW r \in Repos, NEW place \in Places \ {"idle"}, Moves(r, place) \/ Fatal(r)
  PROVE  /\ GoesOn(r, {place})
         /\ \A q \in Repos \ {r} : pc'[q] = pc[q] /\ job'[q] = job[q]
  <1>1. CASE Fatal(r)
    <2>1. Moves(r, "finish") /\ "finish" \in Places
      BY <1>1 DEF Moves, Places, FinishPlaces
    <2>2. /\ pc'[r] = "finish"
          /\ \A q \in Repos \ {r} : pc'[q] = pc[q] /\ job'[q] = job[q]
      BY <2>1, MovesType
    <2>3. ~ job'[r].ok /\ job'[r].id = job[r].id /\ job'[r].stage = job[r].stage
      BY <1>1 DEF Fatal, RunsTyped, JobOf
    <2>4. QED
      BY <2>2, <2>3 DEF GoesOn
  <1>2. CASE Moves(r, place)
    <2>1. /\ pc'[r] = place
          /\ \A q \in Repos \ {r} : pc'[q] = pc[q] /\ job'[q] = job[q]
      BY <1>2, MovesType
    <2>2. QED
      BY <1>2, <2>1, MovesJob DEF GoesOn
  <1>3. QED
    BY <1>1, <1>2

LEMMA BuildEffect ==
  ASSUME TypeInv, NEW r \in Repos, BuildStep(r)
  PROVE  /\ pc[r] \in LaterPlaces
         /\ Others(r)
         /\ GoesOn(r, {"save", "stamp", "scan", "analysis", "gate", AfterBuild(r)})
         /\ Keeps(r, "run") /\ Keeps(r, "image")
         /\ \A q \in Repos \ {r} : files'[r][q] = files[r][q]
         /\ UNCHANGED <<checkout, git, assets, registry, cluster, runs, succeeded>>
  <1>1. RunsTyped /\ WorkspacesTyped
    BY DEF TypeInv, TypeOK
  <1>2. /\ pc[r] \in LaterPlaces
        /\ UNCHANGED <<checkout, git, assets, registry, cluster, runs, succeeded>>
    BY DEF BuildStep, CopyBuildIfCached, Build, BuildFails, BeginCacheBuild, EndCacheBuild, Scan,
           AwaitComputeEngineTask, CheckQualityGate, At, LaterPlaces, TaskPlaces, StartPlaces
  <1>3. Write(r, {Report}) \/ UNCHANGED files
    BY DEF BuildStep, CopyBuildIfCached, Build, BuildFails, BeginCacheBuild, EndCacheBuild, Scan,
           AwaitComputeEngineTask, CheckQualityGate, CopyArtifacts, GenerateReports
  <1>4. /\ Keeps(r, "run") /\ Keeps(r, "image")
        /\ \A q \in Repos \ {r} : files'[q] = files[q] /\ files'[r][q] = files[r][q]
    <2>1. \A f \in {Report} : f.kind # "run" /\ f.kind # "image"
      BY DEF Report, File
    <2>2. CASE Write(r, {Report})
      BY <1>1, <2>1, <2>2, WriteKeeps
    <2>3. CASE UNCHANGED files
      BY <2>3 DEF Keeps
    <2>4. QED
      BY <1>3, <2>2, <2>3
  <1>5. \/ Fatal(r)
        \/ Moves(r, "save") \/ Moves(r, "stamp") \/ Moves(r, "scan")
        \/ Moves(r, "analysis") \/ Moves(r, "gate") \/ Moves(r, AfterBuild(r))
    <2>1. CopyBuildIfCached(r) => Moves(r, "scan")
      BY DEF CopyBuildIfCached, Moves
    <2>2. Build(r) => Moves(r, "save")
      BY DEF Build, Moves
    <2>3. BuildFails(r) => Fatal(r)
      BY DEF BuildFails, Moves
    <2>4. BeginCacheBuild(r) => Moves(r, "stamp")
      BY DEF BeginCacheBuild, Moves
    <2>5. EndCacheBuild(r) => Moves(r, "scan")
      BY DEF EndCacheBuild, Moves
    <2>6. Scan(r) => Moves(r, "analysis")
      BY DEF Scan, Moves
    <2>7. AwaitComputeEngineTask(r) => Moves(r, "gate") \/ Fatal(r)
      BY DEF AwaitComputeEngineTask, Moves
    <2>8. CheckQualityGate(r) => Moves(r, AfterBuild(r)) \/ Fatal(r)
      BY DEF CheckQualityGate, Moves
    <2>9. QED
      BY <2>1, <2>2, <2>3, <2>4, <2>5, <2>6, <2>7, <2>8 DEF BuildStep
  <1>6. PICK place \in {"save", "stamp", "scan", "analysis", "gate", AfterBuild(r)} :
          Moves(r, place) \/ Fatal(r)
    BY <1>5
  <1>7. place \in Places \ {"idle"}
    BY <1>6, OnwardPlaces DEF Onward, AfterBuild, AfterPackage
  <1>8. /\ GoesOn(r, {"save", "stamp", "scan", "analysis", "gate", AfterBuild(r)})
        /\ \A q \in Repos \ {r} : pc'[q] = pc[q] /\ job'[q] = job[q]
    BY <1>1, <1>6, <1>7, MovesOn DEF GoesOn
  <1>9. QED
    BY <1>2, <1>4, <1>8 DEF Others

LEMMA PackageEffect ==
  ASSUME TypeInv, NEW r \in Repos, PackageStep(r)
  PROVE  /\ pc[r] \in LaterPlaces
         /\ Others(r)
         /\ GoesOn(r, {"push", "aqua", AfterPackage(r)})
         /\ Keeps(r, "run")
         /\ \A q \in Repos \ {r} : files'[r][q] = files[r][q]
         /\ UNCHANGED <<checkout, builds, git, assets, cluster, runs, succeeded>>
  <1>1. RunsTyped /\ WorkspacesTyped
    BY DEF TypeInv, TypeOK
  <1>2. /\ pc[r] \in LaterPlaces
        /\ UNCHANGED <<checkout, builds, git, assets, cluster, runs, succeeded>>
    BY DEF PackageStep, ReuseImage, NoImage, InspectionFails, BuildAndPush, AquaScan,
           AquaScanFails, At, LaterPlaces, TaskPlaces, StartPlaces
  <1>3. \/ UNCHANGED files
        \/ \E d : Write(r, {ImageArtifact(d)})
        \/ \E d : Write(r, {ImageArtifact(d), File("report", 0, 0)})
    BY DEF PackageStep, ReuseImage, NoImage, InspectionFails, BuildAndPush, AquaScan,
           AquaScanFails
  <1>4. /\ Keeps(r, "run")
        /\ \A q \in Repos \ {r} : files'[q] = files[q] /\ files'[r][q] = files[r][q]
    <2>1. \A d : ImageArtifact(d).kind # "run" /\ File("report", 0, 0).kind # "run"
      BY DEF ImageArtifact, File
    <2>2. ASSUME NEW new, Write(r, new), \A f \in new : f.kind # "run"
          PROVE  /\ Keeps(r, "run")
                 /\ \A q \in Repos \ {r} : files'[q] = files[q] /\ files'[r][q] = files[r][q]
      BY <1>1, <2>2, WriteKeeps
    <2>3. CASE UNCHANGED files
      BY <2>3 DEF Keeps
    <2>4. ASSUME NEW d, Write(r, {ImageArtifact(d)})
          PROVE  \E new : Write(r, new) /\ \A f \in new : f.kind # "run"
      BY <2>1, <2>4
    <2>5. ASSUME NEW d, Write(r, {ImageArtifact(d), File("report", 0, 0)})
          PROVE  \E new : Write(r, new) /\ \A f \in new : f.kind # "run"
      BY <2>1, <2>5
    <2>6. QED
      BY <1>3, <2>2, <2>3, <2>4, <2>5
  <1>5. Fatal(r) \/ Moves(r, "push") \/ Moves(r, "aqua") \/ Moves(r, AfterPackage(r))
    <2>1. ReuseImage(r) => Moves(r, AfterPackage(r))
      BY DEF ReuseImage, Moves
    <2>2. NoImage(r) \/ InspectionFails(r) => Moves(r, "push")
      BY DEF NoImage, InspectionFails, Moves
    <2>3. BuildAndPush(r) => Moves(r, "aqua")
      BY DEF BuildAndPush, Moves
    <2>4. AquaScan(r) => Moves(r, AfterPackage(r))
      BY DEF AquaScan, Moves
    <2>5. AquaScanFails(r) => Fatal(r)
      BY DEF AquaScanFails
    <2>6. QED
      BY <2>1, <2>2, <2>3, <2>4, <2>5 DEF PackageStep
  <1>6. PICK place \in {"push", "aqua", AfterPackage(r)} : Moves(r, place) \/ Fatal(r)
    BY <1>5
  <1>7. place \in Places \ {"idle"}
    BY <1>6, OnwardPlaces DEF Onward, AfterPackage
  <1>8. /\ GoesOn(r, {"push", "aqua", AfterPackage(r)})
        /\ \A q \in Repos \ {r} : pc'[q] = pc[q] /\ job'[q] = job[q]
    BY <1>1, <1>6, <1>7, MovesOn DEF GoesOn
  <1>9. QED
    BY <1>2, <1>4, <1>8 DEF Others

LEMMA DeployEffect ==
  ASSUME TypeInv, NEW r \in Repos, DeployStep(r)
  PROVE  /\ pc[r] \in LaterPlaces
         /\ Others(r)
         /\ GoesOn(r, {"deploy", "diff", "upgrade", "finish"})
         /\ Keeps(r, "run") /\ Keeps(r, "image")
         /\ \A q \in Repos \ {r} : files'[r][q] = files[r][q]
         /\ UNCHANGED <<checkout, builds, git, assets, registry, runs, succeeded>>
  <1>1. RunsTyped /\ WorkspacesTyped
    BY DEF TypeInv, TypeOK
  <1>2. /\ pc[r] \in LaterPlaces
        /\ UNCHANGED <<checkout, builds, git, assets, registry, runs, succeeded>>
    BY DEF DeployStep, SkipDeployment, CopyImages, HelmDiff, HelmDiffFails, HelmUpgrade,
           HelmUpgradeFails, At, LaterPlaces, TaskPlaces, StartPlaces
  <1>3. UNCHANGED files \/ Write(r, {File("deployment", 0, 0)})
    BY DEF DeployStep, SkipDeployment, CopyImages, HelmDiff, HelmDiffFails, HelmUpgrade,
           HelmUpgradeFails, WriteDeploymentArtifact
  <1>4. /\ Keeps(r, "run") /\ Keeps(r, "image")
        /\ \A q \in Repos \ {r} : files'[q] = files[q] /\ files'[r][q] = files[r][q]
    <2>1. \A f \in {File("deployment", 0, 0)} : f.kind # "run" /\ f.kind # "image"
      BY DEF File
    <2>2. CASE Write(r, {File("deployment", 0, 0)})
      BY <1>1, <2>1, <2>2, WriteKeeps
    <2>3. CASE UNCHANGED files
      BY <2>3 DEF Keeps
    <2>4. QED
      BY <1>3, <2>2, <2>3
  <1>5. CASE CopyImages(r) /\ ~ LastHere(r) /\ ~ Fatal(r)
    <2>1. job' = [job EXCEPT ![r].at = @ + 1] /\ pc' = pc /\ pc[r] = "deploy"
      BY <1>5 DEF CopyImages, At
    <2>2. /\ \A q \in Repos \ {r} : job'[q] = job[q]
          /\ job'[r].id = job[r].id /\ job'[r].stage = job[r].stage /\ job'[r].ok = job[r].ok
      BY <1>1, <2>1 DEF RunsTyped, Job
    <2>3. QED
      BY <1>2, <1>4, <2>1, <2>2 DEF Others, GoesOn
  <1>6. CASE ~ (CopyImages(r) /\ ~ LastHere(r) /\ ~ Fatal(r))
    <2>1. Fatal(r) \/ Moves(r, "diff") \/ Moves(r, "upgrade") \/ Moves(r, "finish")
      <3>1. SkipDeployment(r) => Moves(r, "finish")
        BY DEF SkipDeployment, Moves
      <3>2. CopyImages(r) => Moves(r, "diff") \/ Fatal(r)
        BY <1>6 DEF CopyImages, Moves
      <3>3. HelmDiff(r) => Moves(r, "upgrade") \/ Moves(r, "finish")
        BY DEF HelmDiff, Moves
      <3>4. HelmDiffFails(r) => Moves(r, "upgrade")
        BY DEF HelmDiffFails, Moves
      <3>5. HelmUpgrade(r) => Moves(r, "finish")
        BY DEF HelmUpgrade, Moves
      <3>6. HelmUpgradeFails(r) => Fatal(r)
        BY DEF HelmUpgradeFails
      <3>7. QED
        BY <3>1, <3>2, <3>3, <3>4, <3>5, <3>6 DEF DeployStep
    <2>2. PICK place \in {"diff", "upgrade", "finish"} : Moves(r, place) \/ Fatal(r)
      BY <2>1
    <2>3. place \in Places \ {"idle"}
      BY <2>2 DEF Places, TaskPlaces, FinishPlaces
    <2>4. /\ GoesOn(r, {"deploy", "diff", "upgrade", "finish"})
          /\ \A q \in Repos \ {r} : pc'[q] = pc[q] /\ job'[q] = job[q]
      BY <1>1, <2>2, <2>3, MovesOn DEF GoesOn
    <2>5. QED
      BY <1>2, <1>4, <2>4 DEF Others
  <1>7. QED
    BY <1>5, <1>6

LEMMA TaskEffect ==
  ASSUME TypeInv, NEW r \in Repos, TaskStep(r)
  PROVE  /\ pc[r] \in LaterPlaces
         /\ Others(r)
         /\ GoesOn(r, LaterPlaces \cup {"finish"})
         /\ Keeps(r, "run")
         /\ \A q \in Repos \ {r} : files'[r][q] = files[r][q]
         /\ UNCHANGED <<checkout, git, assets, runs, succeeded>>
  <1>1. /\ {AfterPackage(r), AfterBuild(r)} \subseteq LaterPlaces \cup {"finish"}
        /\ {"save", "stamp", "scan", "analysis", "gate", "push", "aqua", "deploy", "diff",
            "upgrade"} \subseteq LaterPlaces
    BY DEF AfterPackage, AfterBuild, LaterPlaces, TaskPlaces, StartPlaces
  <1>2. CASE BuildStep(r)
    BY <1>1, <1>2, BuildEffect DEF GoesOn
  <1>3. CASE PackageStep(r)
    BY <1>1, <1>3, PackageEffect DEF GoesOn
  <1>4. CASE DeployStep(r)
    BY <1>1, <1>4, DeployEffect DEF GoesOn
  <1>5. QED
    BY <1>2, <1>3, <1>4 DEF TaskStep

(* Steps after which a run is over, and those that only move it.           *)
LEMMA StopEffect ==
  ASSUME TypeInv, NEW r \in Repos, TaskFails(r) \/ RunStops(r) \/ NoContext(r)
  PROVE  /\ Others(r)
         /\ ~ job'[r].ok /\ pc'[r] \in {"idle", "finish"}
         /\ pc'[r] = "idle" \/ (pc[r] # "idle" /\ job'[r].id = job[r].id)
         /\ UNCHANGED <<checkout, files, builds, git, assets, registry, cluster, runs, succeeded>>
  <1>1. RunsTyped
    BY DEF TypeInv, TypeOK
  <1>2. /\ Fatal(r) \/ EndRun(r)
        /\ UNCHANGED <<checkout, files, builds, git, assets, registry, cluster, runs, succeeded>>
    BY DEF TaskFails, RunStops, NoContext
  <1>3. {"idle", "finish"} \subseteq Places
    BY DEF Places, FinishPlaces
  <1>4. CASE Fatal(r)
    <2>1. Moves(r, "finish") /\ ~ job'[r].ok /\ job'[r].id = job[r].id
      BY <1>1, <1>4 DEF Moves, Fatal, RunsTyped, JobOf
    <2>2. CASE pc[r] # "idle"
      BY <1>1, <1>2, <1>3, <2>1, <2>2, MovesType DEF Others
    <2>3. CASE pc[r] = "idle"
      BY <2>3 DEF TaskFails, RunStops, NoContext, At, TaskPlaces
    <2>4. QED
      BY <2>2, <2>3
  <1>5. CASE EndRun(r)
    <2>1. Moves(r, "idle") /\ ~ job'[r].ok
      BY <1>1, <1>5 DEF Moves, EndRun, NoJob, RunsTyped, JobOf
    <2>2. pc'[r] = "idle" /\ \A q \in Repos \ {r} : pc'[q] = pc[q] /\ job'[q] = job[q]
      BY <1>1, <1>3, <2>1, MovesType
    <2>3. Others(r)
      BY <1>2, <2>2 DEF Others
    <2>4. QED
      BY <1>2, <2>1, <2>2, <2>3
  <1>6. QED
    BY <1>2, <1>4, <1>5

LEMMA TriggerEffect ==
  ASSUME TypeInv, NEW r \in Repos, NEW s \in Stages[r], Trigger(r, s)
  PROVE  /\ Others(r)
         /\ pc[r] = "idle" /\ pc'[r] = "clean" /\ job'[r] = JobOf(runs + 1, TRUE, s)
         /\ UNCHANGED <<checkout, files, builds, git, assets, registry, cluster, succeeded>>
  BY DEF Trigger, Goto, At, Others, TypeInv, TypeOK, RunsTyped

LEMMA CleanEffect ==
  ASSUME TypeInv, NEW r \in Repos, Clean(r)
  PROVE  /\ Others(r)
         /\ pc[r] = "clean" /\ pc'[r] = "checkout"
         /\ job'[r] = [job[r] EXCEPT !.at = 1]
         /\ \A q \in Repos : /\ head'[r][q] = NoCommit /\ files'[r][q] = {}
                             /\ manifest'[r][q] = NoManifest
         /\ built'[r] = {} /\ \A e \in cache'[r] : e \in cache[r] /\ e.stamped
         /\ UNCHANGED <<sonar, git, assets, registry, cluster, counts, succeeded>>
  <1>1. RunsTyped /\ WorkspacesTyped
    BY DEF TypeInv, TypeOK
  <1>2. /\ pc[r] = "clean" /\ pc'[r] = "checkout" /\ job'[r] = [job[r] EXCEPT !.at = 1]
        /\ \A q \in Repos \ {r} : pc'[q] = pc[q] /\ job'[q] = job[q]
    BY <1>1 DEF Clean, Proceed, Goto, At, RunsTyped
  <1>3. /\ head' = [head EXCEPT ![r] = [q \in Repos |-> NoCommit]]
        /\ files' = [files EXCEPT ![r] = [q \in Repos |-> {}]]
        /\ manifest' = [manifest EXCEPT ![r] = [q \in Repos |-> NoManifest]]
        /\ built' = [built EXCEPT ![r] = {}]
    BY DEF Clean, DeleteDirectoryContentsSpareCache
  <1>4. \A e \in cache'[r] : e \in cache[r] /\ e.stamped
    BY <1>1 DEF Clean, CleanCache, RecentlyUsed, WorkspacesTyped
  <1>5. /\ \A q \in Repos : /\ head'[r][q] = NoCommit /\ files'[r][q] = {}
                            /\ manifest'[r][q] = NoManifest
        /\ built'[r] = {}
        /\ \A q \in Repos \ {r} : /\ head'[q] = head[q] /\ files'[q] = files[q]
                                  /\ manifest'[q] = manifest[q]
    BY <1>1, <1>3 DEF WorkspacesTyped
  <1>6. UNCHANGED <<sonar, git, assets, registry, cluster, counts, succeeded>>
    BY DEF Clean
  <1>7. QED
    BY <1>2, <1>4, <1>5, <1>6 DEF Others

LEMMA CheckoutEffect ==
  ASSUME TypeInv, NEW r \in Repos, CheckoutAndAssembleContext(r)
  PROVE  /\ Others(r)
         /\ pc[r] = "checkout"
         /\ \/ pc'[r] = "download" /\ job'[r] = [job[r] EXCEPT !.at = 1]
            \/ pc'[r] = "checkout" /\ job'[r] = [job[r] EXCEPT !.at = @ + 1]
         /\ Here(r) \in Repos
         /\ \A q \in Repos \ {Here(r)} : head'[r][q] = head[r][q]
         /\ UNCHANGED <<files, manifest, builds, tip, assets, registry, cluster, counts, succeeded>>
  <1>1. RunsTyped /\ WorkspacesTyped
    BY DEF TypeInv, TypeOK
  <1>2. Here(r) \in Repos
    BY <1>1, HereType
  <1>3. /\ pc[r] = "checkout"
        /\ UNCHANGED <<files, manifest, builds, tip, assets, registry, cluster, counts, succeeded>>
    BY DEF CheckoutAndAssembleContext, At
  <1>4. head' = [head EXCEPT ![r][Here(r)] = Revision(r)]
    BY DEF CheckoutAndAssembleContext
  <1>5. /\ \A q \in Repos \ {r} : head'[q] = head[q]
        /\ \A q \in Repos \ {Here(r)} : head'[r][q] = head[r][q]
    BY <1>1, <1>2, <1>4 DEF WorkspacesTyped
  <1>6. /\ \/ pc'[r] = "download" /\ job'[r] = [job[r] EXCEPT !.at = 1]
           \/ pc'[r] = "checkout" /\ job'[r] = [job[r] EXCEPT !.at = @ + 1]
        /\ \A q \in Repos \ {r} : pc'[q] = pc[q] /\ job'[q] = job[q]
    <2>1. CASE LastHere(r)
      BY <1>1, <2>1 DEF CheckoutAndAssembleContext, Proceed, Goto, RunsTyped
    <2>2. CASE ~ LastHere(r)
      BY <1>1, <1>3, <2>2 DEF CheckoutAndAssembleContext, RunsTyped
    <2>3. QED
      BY <2>1, <2>2
  <1>7. QED
    BY <1>2, <1>3, <1>5, <1>6 DEF Others

\* What is downloaded lies in the source repository, or is an error page instead.
FromNexus(c, F) ==
  \A f \in F : \E a \in assets :
    /\ a.store = SourceRepository(c) /\ a.commit = c /\ a.folder = 0
    /\ Id(a.file) = Id(f) /\ (f = a.file \/ f.value = Garbled)

LEMMA DownloadGroupFromNexus ==
  ASSUME NEW c, ServersTyped
  PROVE  /\ FromNexus(c, DownloadGroup(c))
         /\ \A f \in DownloadGroup(c) : FromNexus(c, Written(DownloadGroup(c), {ErrorPage(f)}))
  <1>1. \A g \in DownloadGroup(c) : \E a \in assets :
          a.store = SourceRepository(c) /\ a.commit = c /\ a.folder = 0 /\ a.file = g
    BY DEF DownloadGroup, Found
  <1>2. FromNexus(c, DownloadGroup(c))
    BY <1>1 DEF FromNexus
  <1>3. ASSUME NEW f \in DownloadGroup(c)
        PROVE  FromNexus(c, Written(DownloadGroup(c), {ErrorPage(f)}))
    <2>1. f \in Artifact
      BY DownloadGroupType
    <2>2. ErrorPage(f).value = Garbled /\ Id(ErrorPage(f)) = Id(f)
      BY <2>1 DEF ErrorPage, Artifact, Id
    <2>3. \A g \in Written(DownloadGroup(c), {ErrorPage(f)}) :
            g \in DownloadGroup(c) \/ g = ErrorPage(f)
      BY DEF Written
    <2>4. PICK a \in assets :
            a.store = SourceRepository(c) /\ a.commit = c /\ a.folder = 0 /\ a.file = f
      BY <1>1
    <2>5. QED
      BY <1>2, <2>2, <2>3, <2>4 DEF FromNexus
  <1>4. QED
    BY <1>2, <1>3

LEMMA DownloadEffect ==
  ASSUME TypeInv, NEW r \in Repos, DownloadArtifacts(r) \/ DownloadGarbled(r)
  PROVE  /\ Others(r)
         /\ pc[r] = "download" /\ Here(r) \in Repos
         /\ \E F \in SUBSET Artifact :
              /\ FromNexus(head[r][Here(r)], F)
              /\ files'[r][Here(r)] = F
              /\ manifest'[r][Here(r)] =
                   [store |-> SourceRepository(head[r][Here(r)]), ids |-> Ids(F)]
              /\ \/ pc'[r] = "finish" /\ ~ job'[r].ok /\ job'[r].id = job[r].id
                 \/ /\ PipelineRunExists(r, Here(r), F)
                    /\ \/ /\ LastHere(r) /\ pc'[r] = AfterStart(r)
                          /\ job'[r] = [job[r] EXCEPT !.at = 1]
                       \/ /\ ~ LastHere(r) /\ pc'[r] = "download"
                          /\ job'[r] = [job[r] EXCEPT !.at = @ + 1]
         /\ \A q \in Repos \ {Here(r)} :
              files'[r][q] = files[r][q] /\ manifest'[r][q] = manifest[r][q]
         /\ UNCHANGED <<head, builds, git, assets, registry, cluster, runs, succeeded>>
  <1> DEFINE c == head[r][Here(r)]
  <1>1. RunsTyped /\ WorkspacesTyped /\ ServersTyped
    BY DEF TypeInv, TypeOK
  <1>2. Here(r) \in Repos /\ pc[r] = "download"
    BY <1>1, HereType DEF DownloadArtifacts, DownloadGarbled, At
  <1>3. PICK F \in SUBSET Artifact : FromNexus(c, F) /\ Downloaded(r, Here(r), F)
    <2>1. DownloadGroup(c) \in SUBSET Artifact
      BY <1>1, DownloadGroupType
    <2>2. CASE DownloadArtifacts(r)
      <3>1. FromNexus(c, DownloadGroup(c))
        BY <1>1, DownloadGroupFromNexus
      <3>2. QED
        BY <2>1, <2>2, <3>1 DEF DownloadArtifacts
    <2>3. CASE DownloadGarbled(r)
      <3>1. PICK f \in DownloadGroup(c) :
              Downloaded(r, Here(r), Written(DownloadGroup(c), {ErrorPage(f)}))
        BY <2>3 DEF DownloadGarbled
      <3>2. ErrorPage(f) \in Artifact
        BY <2>1 DEF ErrorPage, Artifact
      <3>3. Written(DownloadGroup(c), {ErrorPage(f)}) \in SUBSET Artifact
        BY <2>1, <3>2, WrittenType
      <3>4. QED
        BY <1>1, <3>1, <3>3, DownloadGroupFromNexus
    <2>4. QED
      BY <2>2, <2>3
  <1>4. /\ files' = [files EXCEPT ![r][Here(r)] = F]
        /\ manifest' = [manifest EXCEPT
             ![r][Here(r)] = [store |-> SourceRepository(c), ids |-> Ids(F)]]
        /\ UNCHANGED <<head, builds, git, assets, registry, cluster, runs, succeeded>>
    BY <1>3 DEF Downloaded
  <1>5. /\ files'[r][Here(r)] = F
        /\ manifest'[r][Here(r)] = [store |-> SourceRepository(c), ids |-> Ids(F)]
        /\ \A q \in Repos \ {Here(r)} :
             files'[r][q] = files[r][q] /\ manifest'[r][q] = manifest[r][q]
        /\ \A q \in Repos \ {r} : files'[q] = files[q] /\ manifest'[q] = manifest[q]
    BY <1>1, <1>2, <1>4 DEF WorkspacesTyped
  <1>6. /\ \/ pc'[r] = "finish" /\ ~ job'[r].ok /\ job'[r].id = job[r].id
           \/ /\ PipelineRunExists(r, Here(r), F)
              /\ \/ LastHere(r) /\ pc'[r] = AfterStart(r) /\ job'[r] = [job[r] EXCEPT !.at = 1]
                 \/ ~ LastHere(r) /\ pc'[r] = "download" /\ job'[r] = [job[r] EXCEPT !.at = @ + 1]
        /\ \A q \in Repos \ {r} : pc'[q] = pc[q] /\ job'[q] = job[q]
    <2>1. CASE ~ PipelineRunExists(r, Here(r), F)
      BY <1>1, <1>3, <2>1 DEF Downloaded, Fatal, RunsTyped, JobOf
    <2>2. CASE PipelineRunExists(r, Here(r), F) /\ LastHere(r)
      BY <1>1, <1>3, <2>2 DEF Downloaded, Proceed, Goto, RunsTyped
    <2>3. CASE PipelineRunExists(r, Here(r), F) /\ ~ LastHere(r)
      BY <1>1, <1>2, <1>3, <2>3 DEF Downloaded, RunsTyped
    <2>4. QED
      BY <2>1, <2>2, <2>3
  <1>7. QED
    BY <1>2, <1>3, <1>4, <1>5, <1>6 DEF Others

LEMMA StatusEffect ==
  ASSUME TypeInv, NEW r \in Repos, SetBuildStatus(r)
  PROVE  /\ Others(r)
         /\ pc[r] = "finish" /\ pc'[r] = "archive" /\ OwnCommit(r) \in Commits
         /\ status' = [status EXCEPT ![OwnCommit(r)] = BitbucketBuildStatus(r)]
         /\ succeeded' = IF job[r].ok THEN succeeded \cup {OwnCommit(r)} ELSE succeeded
         /\ UNCHANGED <<job, checkout, files, builds, tip, assets, registry, cluster, counts>>
  BY DEF SetBuildStatus, BuildStatusCreate, Goto, At, Others, OwnCommit,
         TypeInv, TypeOK, RunsTyped, WorkspacesTyped

LEMMA RunArtifactEffect ==
  ASSUME TypeInv, NEW r \in Repos, CreatePipelineRunArtifact(r)
  PROVE  /\ Others(r)
         /\ pc[r] = "archive" /\ pc'[r] = "collect" /\ job'[r] = [job[r] EXCEPT !.at = 1]
         /\ \A q \in Repos \ {r} : files'[r][q] = files[r][q]
         /\ files'[r][r] = Written(files[r][r],
              {File("run", job[r].id, IF job[r].ok THEN Success ELSE Failure)})
         /\ UNCHANGED <<checkout, builds, git, assets, registry, cluster, counts, succeeded>>
  <1>1. RunsTyped /\ WorkspacesTyped
    BY DEF TypeInv, TypeOK
  <1> DEFINE F == {File("run", job[r].id, IF job[r].ok THEN Success ELSE Failure)}
  <1>2. files' = [files EXCEPT ![r][r] = Written(files[r][r], F)]
    BY DEF CreatePipelineRunArtifact, Write
  <1>3. /\ \A q \in Repos \ {r} : files'[r][q] = files[r][q] /\ files'[q] = files[q]
        /\ files'[r][r] = Written(files[r][r], F)
    BY <1>1, <1>2 DEF WorkspacesTyped
  <1>4. /\ pc[r] = "archive" /\ pc'[r] = "collect" /\ job'[r] = [job[r] EXCEPT !.at = 1]
        /\ \A q \in Repos \ {r} : pc'[q] = pc[q] /\ job'[q] = job[q]
        /\ UNCHANGED <<checkout, builds, git, assets, registry, cluster, counts, succeeded>>
    BY <1>1 DEF CreatePipelineRunArtifact, Proceed, Goto, At, RunsTyped
  <1>5. QED
    BY <1>3, <1>4 DEF Others

LEMMA CollectEffect ==
  ASSUME TypeInv, NEW r \in Repos, CollectArtifacts(r)
  PROVE  /\ Others(r)
         /\ pc[r] = "collect"
         /\ \/ pc'[r] = "idle" /\ ~ job'[r].ok
            \/ /\ pc'[r] = "upload"
               /\ job'[r] = [job[r] EXCEPT !.todo =
                    {f \in files[r][Here(r)] :
                       ~ Contains(manifest[r][Here(r)], TargetRepository(r), f)}]
         /\ UNCHANGED <<checkout, files, builds, git, assets, registry, cluster, counts, succeeded>>
  <1>1. RunsTyped
    BY DEF TypeInv, TypeOK
  <1>2. /\ pc[r] = "collect"
        /\ UNCHANGED <<checkout, files, builds, git, assets, registry, cluster, counts, succeeded>>
    BY DEF CollectArtifacts, At
  <1>3. CASE manifest[r][Here(r)] = NoManifest
    <2>1. EndRun(r)
      BY <1>3 DEF CollectArtifacts
    <2>2. QED
      BY <1>1, <1>2, <2>1 DEF EndRun, Goto, NoJob, JobOf, RunsTyped, Others
  <1>4. CASE manifest[r][Here(r)] # NoManifest
    <2> DEFINE todo == {f \in files[r][Here(r)] :
                          ~ Contains(manifest[r][Here(r)], TargetRepository(r), f)}
    <2>1. job' = [job EXCEPT ![r].todo = todo] /\ Goto(r, "upload")
      BY <1>4 DEF CollectArtifacts
    <2> HIDE DEF todo
    <2>2. /\ job'[r] = [job[r] EXCEPT !.todo = todo] /\ pc'[r] = "upload"
          /\ \A q \in Repos \ {r} : pc'[q] = pc[q] /\ job'[q] = job[q]
      BY <1>1, <2>1 DEF Goto, RunsTyped
    <2>3. QED
      BY <1>2, <2>2 DEF Others, todo
  <1>5. QED
    BY <1>3, <1>4

LEMMA UploadEffect ==
  ASSUME TypeInv, NEW r \in Repos, UploadArtifact(r)
  PROVE  /\ Others(r)
         /\ pc[r] = "upload" /\ Here(r) \in Repos
         /\ \E f \in job[r].todo :
              /\ Upload([store |-> TargetRepository(r), commit |-> head[r][Here(r)],
                         folder |-> ArtifactFolder(r), file |-> f])
              /\ job'[r] = [job[r] EXCEPT !.todo = @ \ {f}]
         /\ UNCHANGED <<pc, checkout, files, builds, git, registry, cluster, counts, succeeded>>
  <1>1. RunsTyped
    BY DEF TypeInv, TypeOK
  <1>2. /\ pc[r] = "upload" /\ Here(r) \in Repos
        /\ UNCHANGED <<pc, checkout, files, builds, git, registry, cluster, counts, succeeded>>
    BY <1>1, HereType DEF UploadArtifact, At
  <1>3. PICK f \in job[r].todo :
          /\ Upload([store |-> TargetRepository(r), commit |-> head[r][Here(r)],
                     folder |-> ArtifactFolder(r), file |-> f])
          /\ job' = [job EXCEPT ![r].todo = @ \ {f}]
    BY DEF UploadArtifact
  <1>4. job'[r] = [job[r] EXCEPT !.todo = @ \ {f}] /\ \A q \in Repos \ {r} : job'[q] = job[q]
    BY <1>1, <1>3 DEF RunsTyped
  <1>5. QED
    BY <1>2, <1>3, <1>4 DEF Others

LEMMA UploadsDoneEffect ==
  ASSUME TypeInv, NEW r \in Repos, UploadsDone(r)
  PROVE  /\ Others(r)
         /\ pc[r] = "upload" /\ job[r].todo = {}
         /\ \/ pc'[r] = "idle" /\ ~ job'[r].ok
            \/ pc'[r] = "collect" /\ job'[r] = [job[r] EXCEPT !.at = @ + 1]
         /\ UNCHANGED <<checkout, files, builds, git, assets, registry, cluster, counts, succeeded>>
  <1>1. RunsTyped
    BY DEF TypeInv, TypeOK
  <1>2. /\ pc[r] = "upload" /\ job[r].todo = {}
        /\ UNCHANGED <<checkout, files, builds, git, assets, registry, cluster, counts, succeeded>>
    BY DEF UploadsDone, At
  <1>3. CASE LastHere(r)
    <2>1. EndRun(r)
      BY <1>3 DEF UploadsDone
    <2>2. QED
      BY <1>1, <1>2, <2>1 DEF EndRun, Goto, NoJob, JobOf, RunsTyped, Others
  <1>4. CASE ~ LastHere(r)
    <2>1. job' = [job EXCEPT ![r].at = @ + 1] /\ Goto(r, "collect")
      BY <1>4 DEF UploadsDone
    <2>2. /\ job'[r] = [job[r] EXCEPT !.at = @ + 1] /\ pc'[r] = "collect"
          /\ \A q \in Repos \ {r} : pc'[q] = pc[q] /\ job'[q] = job[q]
      BY <1>1, <2>1 DEF Goto, RunsTyped
    <2>3. QED
      BY <1>2, <2>2 DEF Others
  <1>5. QED
    BY <1>3, <1>4

-----------------------------------------------------------------------------
(* Certification is preserved. *)

LEMMA CertOthers ==
  ASSUME NEW r \in Repos, Others(r), succeeded \subseteq succeeded',
         NEW q \in Repos \ {r}, CertOf(q)
  PROVE  CertOf(q)'
  <1>1. /\ pc'[q] = pc[q] /\ job'[q] = job[q] /\ head'[q] = head[q] /\ files'[q] = files[q]
        /\ Here(q)' = Here(q) /\ Stage(q)' = Stage(q) /\ OwnCommit(q)' = OwnCommit(q)
    BY DEF Others, Here, Stage, OwnCommit
  <1>2. FilesCertified(q)'
    BY <1>1 DEF CertOf, FilesCertified, Certified
  <1>3. NoFilesYet(q)' /\ TodoFromFiles(q)' /\ CertifiedAtArchive(q)'
    BY <1>1 DEF CertOf, NoFilesYet, TodoFromFiles, CertifiedAtArchive
  <1>4. DownloadsChecked(q)'
    BY <1>1 DEF CertOf, DownloadsChecked
  <1>5. ChildrenCertified(q)' /\ OkInTasks(q)' /\ StageAtDeploy(q)' /\ RunNumbered(q)'
    BY <1>1 DEF CertOf, ChildrenCertified, PastStart, OkInTasks, StageAtDeploy, RunNumbered
  <1>6. QED
    BY <1>2, <1>3, <1>4, <1>5 DEF CertOf

LEMMA NexusSame ==
  ASSUME NexusHonest, assets' = assets, succeeded \subseteq succeeded'
  PROVE  NexusHonest'
  BY DEF NexusHonest

(* A run that keeps its checkouts and its run artifacts and does not go to *)
(* a place of which something is claimed.                                  *)
LEMMA CertPlain ==
  ASSUME TypeInv, NEW r \in Repos, CertOf(r), Keeps(r, "run"), UNCHANGED <<head, succeeded>>,
         pc'[r] \notin {"checkout", "download", "archive", "upload"},
         pc'[r] = "idle" \/ (pc[r] # "idle" /\ job'[r].id = job[r].id),
         \/ ~ job'[r].ok /\ pc'[r] \notin TaskPlaces
         \/ /\ PastStart(r) /\ job'[r].ok /\ pc[r] \notin {"idle", "clean"}
            /\ pc'[r] \in {"diff", "upgrade"} => Stage(r)' \in Environments
  PROVE  CertOf(r)'
  <1>1. FilesCertified(r)'
    BY DEF Keeps, CertOf, FilesCertified, Certified, PastStart, WorkspacesTyped, TypeInv, TypeOK
  <1>2. NoFilesYet(r)' /\ TodoFromFiles(r)' /\ CertifiedAtArchive(r)' /\ DownloadsChecked(r)'
    BY DEF NoFilesYet, TodoFromFiles, CertifiedAtArchive, DownloadsChecked
  <1>3. ChildrenCertified(r)'
    BY DEF CertOf, ChildrenCertified, PastStart
  <1>4. OkInTasks(r)' /\ StageAtDeploy(r)' /\ RunNumbered(r)'
    BY DEF OkInTasks, StageAtDeploy, TaskPlaces, CertOf, RunNumbered
  <1>5. QED
    BY <1>1, <1>2, <1>3, <1>4 DEF CertOf

LEMMA CertStart ==
  ASSUME TypeInv, CertInv, NEW r \in Repos, StartStep(r)
  PROVE  CertOf(r)'
  <1> USE DEF CertOf
  <1>0. CertOf(r)
    BY DEF CertInv
  <1>1. CASE Clean(r)
    <2>1. /\ pc[r] = "clean" /\ pc'[r] = "checkout" /\ job'[r] = [job[r] EXCEPT !.at = 1]
          /\ \A q \in Repos : files'[r][q] = {}
      BY <1>1, CleanEffect
    <2>2. job'[r].ok /\ job'[r].id = job[r].id /\ job[r].id > 0
      BY <1>0, <2>1 DEF RunNumbered, OkInTasks, TaskPlaces, TypeInv, TypeOK, RunsTyped, Job
    <2>3. QED
      BY <2>1, <2>2 DEF FilesCertified, NoFilesYet, TodoFromFiles, CertifiedAtArchive,
                        DownloadsChecked, ChildrenCertified, PastStart, OkInTasks, StageAtDeploy,
                        RunNumbered, StartPlaces
  <1>2. CASE CheckoutAndAssembleContext(r)
    <2>1. /\ pc[r] = "checkout" /\ files' = files
          /\ \/ pc'[r] = "download" /\ job'[r] = [job[r] EXCEPT !.at = 1]
             \/ pc'[r] = "checkout" /\ job'[r] = [job[r] EXCEPT !.at = @ + 1]
      BY <1>2, CheckoutEffect
    <2>2. \A q \in Repos : files'[r][q] = {}
      BY <1>0, <2>1 DEF NoFilesYet
    <2>3. /\ job'[r].ok = job[r].ok /\ job[r].ok
          /\ job'[r].id = job[r].id /\ job[r].id > 0
          /\ pc'[r] = "download" => job'[r].at = 1
      BY <1>0, <2>1 DEF RunNumbered, OkInTasks, TaskPlaces, TypeInv, TypeOK, RunsTyped, Job
    <2>4. QED
      BY <2>1, <2>2, <2>3
      DEF FilesCertified, NoFilesYet, TodoFromFiles, CertifiedAtArchive, DownloadsChecked,
          ChildrenCertified, PastStart, OkInTasks, StageAtDeploy, RunNumbered, StartPlaces
  <1>3. CASE DownloadArtifacts(r) \/ DownloadGarbled(r)
    <2> DEFINE q0 == Here(r)
    <2>1. /\ pc[r] = "download" /\ q0 \in Repos
          /\ \A q \in Repos \ {q0} : files'[r][q] = files[r][q]
          /\ UNCHANGED <<head, assets, succeeded>>
      BY <1>3, DownloadEffect
    <2>2. PICK F \in SUBSET Artifact :
            /\ FromNexus(head[r][q0], F)
            /\ files'[r][q0] = F
            /\ \/ pc'[r] = "finish" /\ ~ job'[r].ok /\ job'[r].id = job[r].id
               \/ /\ PipelineRunExists(r, q0, F)
                  /\ \/ LastHere(r) /\ pc'[r] = AfterStart(r) /\ job'[r] = [job[r] EXCEPT !.at = 1]
                     \/ /\ ~ LastHere(r) /\ pc'[r] = "download"
                        /\ job'[r] = [job[r] EXCEPT !.at = @ + 1]
      BY <1>3, DownloadEffect
    <2>3. \A f \in F : f.kind = "run" =>
            f.value \in {Success, Garbled} /\ head[r][q0] \in succeeded
      BY <2>2 DEF FromNexus, CertInv, NexusHonest, Id
    <2>4. /\ job[r].ok /\ ((pc'[r] = "finish" /\ ~ job'[r].ok) \/ job'[r].ok)
          /\ job'[r].id = job[r].id
      BY <1>0, <2>1, <2>2 DEF OkInTasks, TaskPlaces, TypeInv, TypeOK, RunsTyped, Job
    <2>5. FilesCertified(r)'
      BY <1>0, <2>1, <2>2, <2>3, <2>4 DEF FilesCertified, Certified
    <2>6. Len(Checkouts[r]) \in Nat /\ job[r].at \in 1..Len(Checkouts[r]) /\ q0 = Checkouts[r][job[r].at]
      BY HereType DEF TypeInv, TypeOK, Here
    <2>7. PipelineRunExists(r, q0, F) =>
            \A i \in 2..job[r].at : head[r][Checkouts[r][i]] \in succeeded
      <3>1. ASSUME PipelineRunExists(r, q0, F), NEW i \in 2..job[r].at
            PROVE  head[r][Checkouts[r][i]] \in succeeded
        <4>1. CASE i < job[r].at
          BY <1>0, <2>1, <2>6, <3>1, <4>1 DEF DownloadsChecked
        <4>2. CASE i = job[r].at
          <5>1. Checkouts[r][i] = q0
            BY <2>6, <4>2
          <5>2. i \in 2..Len(Checkouts[r])
            BY <2>6, <3>1
          <5>3. q0 # r
            BY <5>1, <5>2, WorkspaceAssumption
          <5>4. QED
            BY <2>3, <3>1, <5>1, <5>3 DEF PipelineRunExists
        <4>3. QED
          BY <2>6, <3>1, <4>1, <4>2
      <3>2. QED
        BY <3>1
    <2>8. DownloadsChecked(r)'
      <3>1. pc'[r] = "download" => job'[r].at = job[r].at + 1 /\ PipelineRunExists(r, q0, F)
        BY <2>2, <2>6 DEF AfterStart, AfterBuild, AfterPackage, TypeInv, TypeOK, RunsTyped, Job
      <3>2. QED
        BY <2>1, <2>6, <2>7, <3>1 DEF DownloadsChecked
    <2>9. ChildrenCertified(r)'
      <3>1. PastStart(r)' => PipelineRunExists(r, q0, F) /\ job[r].at = Len(Checkouts[r])
        BY <2>2 DEF PastStart, StartPlaces, LastHere
      <3>2. QED
        BY <2>1, <2>7, <3>1 DEF ChildrenCertified, Children
    <2>10. NoFilesYet(r)' /\ TodoFromFiles(r)' /\ CertifiedAtArchive(r)' /\ OkInTasks(r)'
           /\ StageAtDeploy(r)' /\ RunNumbered(r)'
      BY <1>0, <2>1, <2>2, <2>4
      DEF NoFilesYet, TodoFromFiles, CertifiedAtArchive, OkInTasks, StageAtDeploy, RunNumbered,
          TaskPlaces, AfterStart, AfterBuild, AfterPackage
    <2>11. QED
      BY <2>5, <2>8, <2>9, <2>10
  <1>4. QED
    BY <1>1, <1>2, <1>3 DEF StartStep

LEMMA CertTask ==
  ASSUME TypeInv, CertInv, NEW r \in Repos, TaskStep(r)
  PROVE  CertOf(r)'
  <1>0. CertOf(r)
    BY DEF CertInv
  <1>1. /\ pc[r] \in LaterPlaces /\ Keeps(r, "run") /\ UNCHANGED <<head, succeeded>>
        /\ GoesOn(r, LaterPlaces \cup {"finish"})
    BY TaskEffect
  <1>2. PastStart(r) /\ pc[r] \notin {"idle", "clean"}
    BY <1>0, <1>1 DEF CertOf, OkInTasks, PastStart, LaterPlaces, TaskPlaces, StartPlaces
  <1>3. pc'[r] \notin {"checkout", "download", "archive", "upload"}
    BY <1>1 DEF GoesOn, LaterPlaces, TaskPlaces, StartPlaces
  <1>4. pc'[r] \in {"diff", "upgrade"} => Stage(r)' \in Environments
    <2>1. CASE BuildStep(r)
      BY <2>1, BuildEffect DEF GoesOn, AfterBuild, AfterPackage
    <2>2. CASE PackageStep(r)
      BY <2>2, PackageEffect DEF GoesOn, AfterPackage
    <2>3. CASE DeployStep(r)
      <3>1. Stage(r)' = Stage(r) /\ Stage(r) \in Environments \cup {"none"}
        BY <1>1 DEF GoesOn, Stage, TypeInv, TypeOK, RunsTyped, Job
      <3>2. CASE CopyImages(r)
        BY <3>1, <3>2 DEF CopyImages
      <3>3. CASE HelmDiff(r) \/ HelmDiffFails(r) \/ HelmUpgrade(r) \/ HelmUpgradeFails(r)
        <4>1. pc[r] \in {"diff", "upgrade"}
          BY <3>3 DEF HelmDiff, HelmDiffFails, HelmUpgrade, HelmUpgradeFails, At
        <4>2. QED
          BY <1>0, <3>1, <4>1 DEF CertOf, StageAtDeploy
      <3>4. CASE SkipDeployment(r)
        BY <3>4 DEF SkipDeployment, Proceed, Goto, TypeInv, TypeOK, RunsTyped
      <3>5. QED
        BY <2>3, <3>2, <3>3, <3>4 DEF DeployStep
    <2>4. QED
      BY <2>1, <2>2, <2>3 DEF TaskStep
  <1>5. /\ \/ ~ job'[r].ok /\ pc'[r] = "finish"
           \/ job'[r].ok
        /\ job'[r].id = job[r].id
    BY <1>1, <1>2 DEF GoesOn, PastStart
  <1>6. QED
    BY <1>0, <1>1, <1>2, <1>3, <1>4, <1>5, CertPlain DEF TaskPlaces

LEMMA CertFinish ==
  ASSUME TypeInv, CertInv, NEW r \in Repos, FinishStep(r)
  PROVE  CertOf(r)'
  <1> USE DEF CertOf
  <1>0. CertOf(r) /\ RunsTyped /\ WorkspacesTyped
    BY DEF CertInv, TypeInv, TypeOK
  <1> DEFINE OfFinish == /\ pc[r] \in FinishPlaces
                         /\ pc'[r] \in FinishPlaces
                         /\ head' = head /\ succeeded \subseteq succeeded'
                         /\ job'[r].ok = job[r].ok /\ job'[r].id = job[r].id
  <1>1. OfFinish => /\ NoFilesYet(r)' /\ DownloadsChecked(r)' /\ ChildrenCertified(r)'
                    /\ OkInTasks(r)' /\ StageAtDeploy(r)' /\ RunNumbered(r)'
    BY <1>0 DEF RunNumbered, NoFilesYet, DownloadsChecked, ChildrenCertified, OkInTasks, StageAtDeploy,
                PastStart, FinishPlaces, TaskPlaces, StartPlaces
  <1>2. OfFinish /\ files' = files => FilesCertified(r)'
    BY <1>0 DEF FilesCertified, Certified, FinishPlaces
  <1>3. CASE NoContext(r)
    <2>1. /\ ~ job'[r].ok /\ pc'[r] \in {"idle", "finish"}
          /\ pc'[r] = "idle" \/ (pc[r] # "idle" /\ job'[r].id = job[r].id)
          /\ UNCHANGED <<head, files, succeeded>>
      BY <1>3, StopEffect
    <2>2. QED
      BY <1>0, <2>1, CertPlain DEF Keeps, TaskPlaces
  <1>4. CASE SetBuildStatus(r)
    <2>1. /\ pc[r] = "finish" /\ pc'[r] = "archive"
          /\ succeeded' = IF job[r].ok THEN succeeded \cup {OwnCommit(r)} ELSE succeeded
          /\ UNCHANGED <<job, head, files>>
      BY <1>4, StatusEffect
    <2>2. OfFinish
      BY <2>1 DEF FinishPlaces
    <2>3. TodoFromFiles(r)' /\ CertifiedAtArchive(r)'
      BY <2>1 DEF TodoFromFiles, CertifiedAtArchive, OwnCommit
    <2>4. QED
      BY <1>1, <1>2, <2>1, <2>2, <2>3
  <1>5. CASE CreatePipelineRunArtifact(r)
    <2>0. PICK f0 : f0 = File("run", job[r].id, IF job[r].ok THEN Success ELSE Failure)
      OBVIOUS
    <2>1. /\ pc[r] = "archive" /\ pc'[r] = "collect" /\ job'[r] = [job[r] EXCEPT !.at = 1]
          /\ \A q \in Repos \ {r} : files'[r][q] = files[r][q]
          /\ files'[r][r] = Written(files[r][r], {f0})
          /\ UNCHANGED <<head, succeeded>>
      BY <1>5, <2>0, RunArtifactEffect
    <2>2. job'[r].ok = job[r].ok /\ job'[r].id = job[r].id
      BY <1>0, <2>1 DEF RunsTyped, Job
    <2>3. OfFinish
      BY <2>1, <2>2 DEF FinishPlaces
    <2>4. f0.value = (IF job[r].ok THEN Success ELSE Failure)
      BY <2>0 DEF File
    <2>5. job[r].ok => OwnCommit(r) \in succeeded
      BY <1>0, <2>1 DEF CertifiedAtArchive
    <2>6. Certified(r, r, f0)'
      BY <2>1, <2>2, <2>4, <2>5 DEF Certified, OwnCommit
    <2>7. FilesCertified(r)'
      <3>1. ASSUME NEW q \in Repos, NEW f \in files'[r][q], f.kind = "run"
            PROVE  Certified(r, q, f)'
        <4>1. CASE f \in files[r][q]
          BY <1>0, <2>1, <2>2, <3>1, <4>1 DEF FilesCertified, Certified
        <4>2. CASE f \notin files[r][q]
          <5>1. q = r /\ f = f0
            BY <2>1, <3>1, <4>2 DEF Written
          <5>2. QED
            BY <2>6, <5>1
        <4>3. QED
          BY <4>1, <4>2
      <3>2. QED
        BY <3>1 DEF FilesCertified
    <2>8. TodoFromFiles(r)' /\ CertifiedAtArchive(r)'
      BY <2>1 DEF TodoFromFiles, CertifiedAtArchive
    <2>9. QED
      BY <1>1, <2>3, <2>7, <2>8
  <1>6. CASE CollectArtifacts(r)
    <2>1. /\ pc[r] = "collect" /\ UNCHANGED <<head, files, succeeded>>
          /\ \/ pc'[r] = "idle" /\ ~ job'[r].ok
             \/ /\ pc'[r] = "upload"
                /\ job'[r] = [job[r] EXCEPT !.todo =
                     {f \in files[r][Here(r)] :
                        ~ Contains(manifest[r][Here(r)], TargetRepository(r), f)}]
      BY <1>6, CollectEffect
    <2>2. CASE pc'[r] = "idle"
      BY <1>0, <2>1, <2>2, CertPlain DEF Keeps, TaskPlaces
    <2>3. CASE pc'[r] = "upload"
      <3>1. PICK todo \in SUBSET files[r][Here(r)] : job'[r] = [job[r] EXCEPT !.todo = todo]
        BY <2>1, <2>3
      <3>2. /\ job'[r].ok = job[r].ok /\ job'[r].todo = todo /\ job'[r].at = job[r].at
            /\ job'[r].id = job[r].id
        BY <1>0, <3>1 DEF RunsTyped, Job
      <3>3. OfFinish
        BY <2>1, <2>3, <3>2 DEF FinishPlaces
      <3>4. TodoFromFiles(r)' /\ CertifiedAtArchive(r)'
        BY <2>1, <2>3, <3>2 DEF TodoFromFiles, CertifiedAtArchive, Here
      <3>5. QED
        BY <1>1, <1>2, <2>1, <3>3, <3>4
    <2>4. QED
      BY <2>1, <2>2, <2>3
  <1>7. CASE UploadArtifact(r)
    <2>1. /\ pc[r] = "upload" /\ UNCHANGED <<pc, head, files, succeeded>>
          /\ \E f \in job[r].todo : job'[r] = [job[r] EXCEPT !.todo = @ \ {f}]
      BY <1>7, UploadEffect
    <2>2. /\ job'[r].ok = job[r].ok /\ job'[r].todo \subseteq job[r].todo
          /\ job'[r].at = job[r].at /\ job'[r].id = job[r].id
      BY <1>0, <2>1 DEF RunsTyped, Job
    <2>3. OfFinish
      BY <2>1, <2>2 DEF FinishPlaces
    <2>4. TodoFromFiles(r)' /\ CertifiedAtArchive(r)'
      BY <1>0, <2>1, <2>2 DEF TodoFromFiles, CertifiedAtArchive, Here
    <2>5. QED
      BY <1>1, <1>2, <2>1, <2>3, <2>4
  <1>8. CASE UploadsDone(r)
    <2>1. /\ pc[r] = "upload" /\ UNCHANGED <<head, files, succeeded>>
          /\ \/ pc'[r] = "idle" /\ ~ job'[r].ok
             \/ pc'[r] = "collect" /\ job'[r] = [job[r] EXCEPT !.at = @ + 1]
      BY <1>8, UploadsDoneEffect
    <2>2. CASE pc'[r] = "idle"
      BY <1>0, <2>1, <2>2, CertPlain DEF Keeps, TaskPlaces
    <2>3. CASE pc'[r] = "collect"
      <3>1. job'[r].ok = job[r].ok /\ job'[r].id = job[r].id
        BY <1>0, <2>1, <2>3 DEF RunsTyped, Job
      <3>2. OfFinish
        BY <2>1, <2>3, <3>1 DEF FinishPlaces
      <3>3. TodoFromFiles(r)' /\ CertifiedAtArchive(r)'
        BY <2>3 DEF TodoFromFiles, CertifiedAtArchive
      <3>4. QED
        BY <1>1, <1>2, <2>1, <3>2, <3>3
    <2>4. QED
      BY <2>1, <2>2, <2>3
  <1>9. QED
    BY <1>3, <1>4, <1>5, <1>6, <1>7, <1>8 DEF FinishStep

(* An upload of a run artifact next to the others is of a run that         *)
(* succeeded, or of one that was downloaded.                               *)
LEMMA NexusUpload ==
  ASSUME TypeInv, CertInv, NEW r \in Repos, UploadArtifact(r)
  PROVE  NexusHonest'
  <1> DEFINE new(f) == [store |-> TargetRepository(r), commit |-> head[r][Here(r)],
                        folder |-> ArtifactFolder(r), file |-> f]
  <1>1. PICK f \in job[r].todo : Upload(new(f))
    BY UploadEffect
  <1>2. pc[r] = "upload" /\ Here(r) \in Repos /\ succeeded' = succeeded
    BY UploadEffect
  <1>3. f \in files[r][Here(r)]
    BY <1>2 DEF CertInv, CertOf, TodoFromFiles
  <1>4. ArtifactFolder(r) = 0 => job[r].ok
    BY <1>2 DEF CertInv, CertOf, RunNumbered, ArtifactFolder, TasksSuccessful
  <1>5. job[r].ok /\ f.kind = "run" =>
          f.value \in {Success, Garbled} /\ head[r][Here(r)] \in succeeded
    BY <1>2, <1>3 DEF CertInv, CertOf, FilesCertified, Certified
  <1>6. \A a \in assets' : a \in assets \/ a = new(f)
    BY <1>1 DEF Upload
  <1>7. QED
    BY <1>2, <1>4, <1>5, <1>6 DEF CertInv, NexusHonest

LEMMA CertNext ==
  ASSUME TypeInv, CertInv, [Next]_vars
  PROVE  CertInv'
  <1>1. ASSUME NEW r \in Repos, Others(r), succeeded \subseteq succeeded', NexusHonest', CertOf(r)'
        PROVE  CertInv'
    BY <1>1, CertOthers DEF CertInv
  <1>2. ASSUME assets' = assets, succeeded \subseteq succeeded'
        PROVE  NexusHonest'
    BY <1>2, NexusSame DEF CertInv
  <1>3. ASSUME NEW r \in Repos, StartStep(r) PROVE CertInv'
    <2>1. Others(r) /\ UNCHANGED <<assets, succeeded>>
      BY <1>3, CleanEffect, CheckoutEffect, DownloadEffect DEF StartStep
    <2>2. QED
      BY <1>1, <1>2, <1>3, <2>1, CertStart
  <1>4. ASSUME NEW r \in Repos, TaskStep(r) PROVE CertInv'
    <2>1. Others(r) /\ UNCHANGED <<assets, succeeded>>
      BY <1>4, TaskEffect
    <2>2. QED
      BY <1>1, <1>2, <1>4, <2>1, CertTask
  <1>5. ASSUME NEW r \in Repos, FinishStep(r) PROVE CertInv'
    <2>1. Others(r) /\ succeeded \subseteq succeeded'
      BY <1>5, StopEffect, StatusEffect, RunArtifactEffect, CollectEffect, UploadEffect,
         UploadsDoneEffect DEF FinishStep
    <2>2. NexusHonest'
      <3>1. CASE UploadArtifact(r)
        BY <3>1, NexusUpload
      <3>2. CASE ~ UploadArtifact(r)
        <4>1. assets' = assets
          BY <1>5, <3>2, StopEffect, StatusEffect, RunArtifactEffect, CollectEffect,
             UploadsDoneEffect DEF FinishStep
        <4>2. QED
          BY <1>2, <2>1, <4>1
      <3>3. QED
        BY <3>1, <3>2
    <2>3. QED
      BY <1>1, <1>5, <2>1, <2>2, CertFinish
  <1>6. ASSUME NEW r \in Repos, TaskFails(r) \/ RunStops(r) PROVE CertInv'
    <2>1. /\ Others(r) /\ UNCHANGED <<head, files, assets, succeeded>>
          /\ ~ job'[r].ok /\ pc'[r] \in {"idle", "finish"}
          /\ pc'[r] = "idle" \/ (pc[r] # "idle" /\ job'[r].id = job[r].id)
      BY <1>6, StopEffect
    <2>2. CertOf(r)'
      BY <2>1, CertPlain DEF CertInv, Keeps, TaskPlaces
    <2>3. QED
      BY <1>1, <1>2, <2>1, <2>2
  <1>7. ASSUME NEW r \in Repos, NEW s \in Stages[r], Trigger(r, s) PROVE CertInv'
    <2>1. /\ Others(r) /\ UNCHANGED <<head, files, assets, succeeded>>
          /\ pc[r] = "idle" /\ pc'[r] = "clean" /\ job'[r] = JobOf(runs + 1, TRUE, s)
      BY <1>7, TriggerEffect
    <2>2. job'[r].ok /\ job'[r].id > 0
      BY <2>1 DEF JobOf, TypeInv, TypeOK, ServersTyped
    <2>3. CertOf(r)
      BY DEF CertInv
    <2>4. FilesCertified(r)'
      BY <2>1, <2>3 DEF CertOf, FilesCertified, Certified
    <2>5. CertOf(r)'
      BY <2>1, <2>2, <2>4
      DEF CertOf, NoFilesYet, TodoFromFiles, CertifiedAtArchive, DownloadsChecked,
          ChildrenCertified, PastStart, StartPlaces, OkInTasks, StageAtDeploy, RunNumbered
    <2>6. QED
      BY <1>1, <1>2, <2>1, <2>5
  <1>8. ASSUME UNCHANGED <<pc, job, head, files, assets, succeeded>> PROVE CertInv'
    <2>1. NexusHonest'
      BY <1>2, <1>8
    <2>2. ASSUME NEW r \in Repos PROVE CertOf(r)'
      BY <1>8
      DEF CertInv, CertOf, FilesCertified, Certified, NoFilesYet, TodoFromFiles, CertifiedAtArchive,
          DownloadsChecked, ChildrenCertified, PastStart, OkInTasks, StageAtDeploy, RunNumbered,
          Here, OwnCommit, Stage
    <2>3. QED
      BY <2>1, <2>2 DEF CertInv
  <1>9. ASSUME NEW r \in Repos, AnalysisPasses(r) \/ AnalysisFails(r) PROVE CertInv'
    BY <1>8, <1>9 DEF AnalysisPasses, AnalysisFails, Analysed
  <1>10. ASSUME NEW c \in Commits, MoveBranch(c) PROVE CertInv'
    BY <1>8, <1>10 DEF MoveBranch
  <1>11. CASE UNCHANGED vars
    BY <1>8, <1>11
  <1>12. QED
    BY <1>3, <1>4, <1>5, <1>6, <1>7, <1>9, <1>10, <1>11 DEF Next, Step, TaskStep

LEMMA CertInit == Init => CertInv
  <1> SUFFICES ASSUME Init PROVE CertInv
    OBVIOUS
  <1>1. NexusHonest
    BY DEF Init, NexusHonest
  <1>2. ASSUME NEW r \in Repos PROVE CertOf(r)
    <2>1. pc[r] = "idle" /\ job[r] = NoJob /\ ~ NoJob.ok /\ \A q \in Repos : files[r][q] = {}
      BY DEF Init, NoJob, JobOf
    <2>2. QED
      BY <2>1 DEF CertOf, FilesCertified, NoFilesYet, TodoFromFiles, CertifiedAtArchive,
         DownloadsChecked, ChildrenCertified, PastStart, OkInTasks, StageAtDeploy, RunNumbered,
         TaskPlaces
  <1>3. QED
    BY <1>1, <1>2 DEF CertInv

LEMMA Invariant == Spec => [](TypeInv /\ CertInv)
  <1>1. Init => TypeInv /\ CertInv
    BY TypeInit, CertInit
  <1>2. (TypeInv /\ CertInv) /\ [Next]_vars => (TypeInv /\ CertInv)'
    BY TypeNext, CertNext
  <1>3. QED
    BY <1>1, <1>2, PTL DEF Spec

(* However runs fail, stop or overlap, a pipeline run artifact within the  *)
(* reach of a download is of a commit of which a run did succeed: what     *)
(* ods-start concludes from its mere existence holds (start/main.go:245).  *)
THEOREM NexusHonestCorrect == Spec => []NexusHonest
  <1>1. TypeInv /\ CertInv => NexusHonest
    BY DEF CertInv
  <1>2. QED
    BY <1>1, Invariant, PTL

(* No task of an umbrella runs on commits of its subrepositories of which  *)
(* no run has succeeded, for any number of repositories, in any order of   *)
(* checkouts, whatever branches move meanwhile.                            *)
THEOREM ChildrenSucceededCorrect == Spec => []ChildrenSucceeded
  <1>1. TypeInv /\ CertInv => ChildrenSucceeded
    BY DEF CertInv, CertOf, ChildrenCertified, ChildrenSucceeded
  <1>2. QED
    BY <1>1, Invariant, PTL

-----------------------------------------------------------------------------
(* Promotion: a step is a certification, a shipment or nothing. *)

LEMMA UpdateOfUpdate ==
  ASSUME NEW A, NEW B, NEW a \in A, NEW b \in B, NEW v, NEW F, NEW G,
         F = [q \in A |-> [s \in B |-> F[q][s]]],
         G = [q \in A |-> [s \in B |-> G[q][s]]],
         \A q \in A : \A s \in B : G[q][s] = IF q = a /\ s = b THEN v ELSE F[q][s]
  PROVE  G = [F EXCEPT ![a][b] = v]
  <1>1. \A q \in A : G[q] = [s \in B |-> G[q][s]] /\ F[q] = [s \in B |-> F[q][s]]
    OBVIOUS
  <1>2. ASSUME NEW q \in A, q # a PROVE G[q] = F[q]
    <2>1. \A s \in B : G[q][s] = F[q][s]
      BY <1>2
    <2>2. [s \in B |-> G[q][s]] = [s \in B |-> F[q][s]]
      BY <2>1
    <2>3. QED
      BY <1>1, <2>2
  <1>3. G[a] = [F[a] EXCEPT ![b] = v]
    <2>1. F[a] = [s \in B |-> F[a][s]] /\ G[a] = [s \in B |-> G[a][s]]
      BY <1>1
    <2>2. [F[a] EXCEPT ![b] = v] = [s \in B |-> IF s = b THEN v ELSE F[a][s]]
      BY <2>1
    <2>3. \A s \in B : G[a][s] = IF s = b THEN v ELSE F[a][s]
      OBVIOUS
    <2>4. [s \in B |-> G[a][s]] = [s \in B |-> IF s = b THEN v ELSE F[a][s]]
      BY <2>3
    <2>5. QED
      BY <2>1, <2>2, <2>4
  <1>4. DOMAIN F = A /\ DOMAIN G = A
    OBVIOUS
  <1> DEFINE H == [F EXCEPT ![a] = [F[a] EXCEPT ![b] = v]]
  <1>5. H = [q \in A |-> IF q = a THEN [F[a] EXCEPT ![b] = v] ELSE F[q]]
    BY <1>4
  <1>6. \A q \in A : G[q] = IF q = a THEN [F[a] EXCEPT ![b] = v] ELSE F[q]
    BY <1>2, <1>3
  <1>7. G = [q \in A |-> G[q]]
    BY <1>1
  <1>8. QED
    BY <1>5, <1>6, <1>7

LEMMA ShipStep ==
  ASSUME TypeInv, CertInv, NEW r \in Repos, NEW deployed \in BOOLEAN,
         pc[r] = "upgrade", Release(r, deployed), UNCHANGED succeeded
  PROVE  PromotionOfRuns!Next
  <1>1. Stage(r) \in Environments /\ PastStart(r)
    BY DEF CertInv, CertOf, StageAtDeploy, OkInTasks, PastStart, StartPlaces, TaskPlaces
  <1> DEFINE C == {Chart(r)[q] : q \in Children(r)} \ {NoCommit}
  <1>2. Children(r) \subseteq Repos
    BY WorkspaceAssumption DEF Children
  <1>3. C \subseteq succeeded
    BY <1>1, <1>2 DEF CertInv, CertOf, ChildrenCertified, Chart, PackagedChart
  <1>4. /\ release'[r][Stage(r)].chart = Chart(r)
        /\ \A s \in Environments : s # Stage(r) => release'[r][s] = release[r][s]
        /\ \A q \in Repos \ {r} : release'[q] = release[q]
    BY <1>1 DEF Release, TypeInv, TypeOK, ServersTyped
  <1>5. ASSUME NEW q \in Repos, NEW s \in Environments
        PROVE  Live'[q][s] = IF q = r /\ s = Stage(r) THEN C ELSE Live[q][s]
    BY <1>4, <1>5 DEF Live
  <1> HIDE DEF C
  <1>6. Live' = [Live EXCEPT ![r][Stage(r)] = C]
    <2>1. /\ Live = [q \in Repos |-> [s \in Environments |-> Live[q][s]]]
          /\ Live' = [q \in Repos |-> [s \in Environments |-> Live'[q][s]]]
      BY DEF Live
    <2>2. \A q \in Repos : \A s \in Environments :
            Live'[q][s] = IF q = r /\ s = Stage(r) THEN C ELSE Live[q][s]
      BY <1>5
    <2>3. QED
      BY <1>1, <2>1, <2>2, UpdateOfUpdate
  <1>7. PromotionOfRuns!Ship(r, Stage(r))
    BY <1>3, <1>6 DEF PromotionOfRuns!Ship
  <1>8. QED
    BY <1>1, <1>7 DEF PromotionOfRuns!Next

LEMMA PromotionStep ==
  ASSUME TypeInv, CertInv, [Next]_vars
  PROVE  [PromotionOfRuns!Next]_<<succeeded, Live>>
  <1>1. ASSUME UNCHANGED <<succeeded, release>>
        PROVE  UNCHANGED <<succeeded, Live>>
    BY <1>1 DEF Live
  <1>2. ASSUME NEW r \in Repos, SetBuildStatus(r)
        PROVE  [PromotionOfRuns!Next]_<<succeeded, Live>>
    <2>1. /\ OwnCommit(r) \in Commits /\ release' = release
          /\ succeeded' = IF job[r].ok THEN succeeded \cup {OwnCommit(r)} ELSE succeeded
      BY <1>2, StatusEffect
    <2>2. Live' = Live
      BY <2>1 DEF Live
    <2>3. CASE job[r].ok
      <3>1. PromotionOfRuns!Certify(OwnCommit(r))
        BY <2>1, <2>2, <2>3 DEF PromotionOfRuns!Certify
      <3>2. QED
        BY <2>1, <3>1 DEF PromotionOfRuns!Next
    <2>4. CASE ~ job[r].ok
      BY <2>1, <2>2, <2>4
    <2>5. QED
      BY <2>3, <2>4
  <1>3. ASSUME NEW r \in Repos, HelmUpgrade(r) \/ HelmUpgradeFails(r)
        PROVE  PromotionOfRuns!Next
    BY <1>3, ShipStep DEF HelmUpgrade, HelmUpgradeFails, At
  <1>4. ASSUME NEW r \in Repos, StartStep(r) \/ BuildStep(r) \/ PackageStep(r)
        PROVE  UNCHANGED <<succeeded, release>>
    BY <1>4, CleanEffect, CheckoutEffect, DownloadEffect, BuildEffect, PackageEffect
    DEF StartStep
  <1>5. ASSUME NEW r \in Repos, DeployStep(r), ~ HelmUpgrade(r), ~ HelmUpgradeFails(r)
        PROVE  UNCHANGED <<succeeded, release>>
    BY <1>5 DEF DeployStep, SkipDeployment, CopyImages, HelmDiff, HelmDiffFails
  <1>6. ASSUME NEW r \in Repos, FinishStep(r), ~ SetBuildStatus(r)
        PROVE  UNCHANGED <<succeeded, release>>
    BY <1>6, StopEffect, RunArtifactEffect, CollectEffect, UploadEffect, UploadsDoneEffect
    DEF FinishStep
  <1>7. ASSUME NEW r \in Repos, TaskFails(r) \/ RunStops(r) \/ \E s \in Stages[r] : Trigger(r, s)
        PROVE  UNCHANGED <<succeeded, release>>
    BY <1>7, StopEffect, TriggerEffect
  <1>8. ASSUME NEW r \in Repos, AnalysisPasses(r) \/ AnalysisFails(r)
        PROVE  UNCHANGED <<succeeded, release>>
    BY <1>8 DEF AnalysisPasses, AnalysisFails, Analysed
  <1>9. ASSUME NEW c \in Commits, MoveBranch(c)
        PROVE  UNCHANGED <<succeeded, release>>
    BY <1>9 DEF MoveBranch
  <1>10. ASSUME NEW r \in Repos, Step(r)
         PROVE  [PromotionOfRuns!Next]_<<succeeded, Live>>
    BY <1>1, <1>2, <1>3, <1>4, <1>5, <1>6, <1>10 DEF Step
  <1>11. QED
    BY <1>1, <1>7, <1>8, <1>9, <1>10 DEF Next

(* The pipelines implement Promotion: whatever an umbrella's release       *)
(* brings into an environment has passed a run of its own repository.      *)
THEOREM PromotionCorrect == Spec => ImplementsPromotion
  <1>1. Init => PromotionOfRuns!Init
    <2> SUFFICES ASSUME Init PROVE PromotionOfRuns!Init
      OBVIOUS
    <2>1. \A r \in Repos, s \in Environments : \A q \in Repos : release[r][s].chart[q] = NoCommit
      BY DEF Init, NoChart
    <2>2. \A r \in Repos : Children(r) \subseteq Repos
      BY WorkspaceAssumption DEF Children
    <2>3. Live = [r \in Repos |-> [s \in Environments |-> {}]]
      BY <2>1, <2>2 DEF Live
    <2>4. QED
      BY <2>3 DEF Init, PromotionOfRuns!Init
  <1>2. Spec => [][PromotionOfRuns!Next]_<<succeeded, Live>>
    BY Invariant, PromotionStep, PTL DEF Spec
  <1>3. QED
    BY <1>1, <1>2, PTL DEF Spec, ImplementsPromotion, PromotionOfRuns!Spec

-----------------------------------------------------------------------------
(* The remaining invariants look at a step as one of four sorts. *)

Closing(r) == FinishStep(r) \/ TaskFails(r) \/ RunStops(r) \/ \E s \in Stages[r] : Trigger(r, s)

Around == UNCHANGED <<pc, job, head, files, manifest, built, cache, status, assets, image, misread,
                      spaces, release, runs, succeeded>>

LEMMA Sorts ==
  ASSUME [Next]_vars
  PROVE  \/ \E r \in Repos : StartStep(r) \/ TaskStep(r) \/ Closing(r)
         \/ Around
  <1>1. ASSUME NEW r \in Repos, AnalysisPasses(r) \/ AnalysisFails(r) PROVE Around
    BY <1>1 DEF AnalysisPasses, AnalysisFails, Analysed, Around
  <1>2. ASSUME NEW c \in Commits, MoveBranch(c) PROVE Around
    BY <1>2 DEF MoveBranch, Around
  <1>3. CASE UNCHANGED vars
    BY <1>3 DEF Around
  <1>4. QED
    BY <1>1, <1>2, <1>3 DEF Next, Step, TaskStep, Closing

LEMMA ClosingEffect ==
  ASSUME TypeInv, NEW r \in Repos, Closing(r)
  PROVE  /\ Others(r)
         /\ pc'[r] \in FinishPlaces \cup {"idle", "clean"}
         /\ UNCHANGED <<checkout, builds, tip, registry, cluster>>
  <1>1. CASE NoContext(r) \/ TaskFails(r) \/ RunStops(r)
    BY <1>1, StopEffect DEF FinishPlaces
  <1>2. CASE SetBuildStatus(r)
    BY <1>2, StatusEffect DEF FinishPlaces
  <1>3. CASE CreatePipelineRunArtifact(r)
    BY <1>3, RunArtifactEffect DEF FinishPlaces
  <1>4. CASE CollectArtifacts(r)
    BY <1>4, CollectEffect DEF FinishPlaces
  <1>5. CASE UploadArtifact(r)
    BY <1>5, UploadEffect DEF FinishPlaces
  <1>6. CASE UploadsDone(r)
    BY <1>6, UploadsDoneEffect DEF FinishPlaces
  <1>7. CASE \E s \in Stages[r] : Trigger(r, s)
    BY <1>7, TriggerEffect
  <1>8. QED
    BY <1>1, <1>2, <1>3, <1>4, <1>5, <1>6, <1>7 DEF Closing, FinishStep

-----------------------------------------------------------------------------
(* Builds. *)

BuildPlaces == {"checkout", "download", "build"}

LEMMA BuildSame ==
  ASSUME NEW q \in Repos, BuildOf(q), built'[q] = built[q], cache'[q] = cache[q],
         head'[q][q] = head[q][q],
         \/ pc'[q] = pc[q]
         \/ /\ pc'[q] # "checkout"
            /\ pc'[q] \in BuildPlaces => pc[q] \in BuildPlaces
  PROVE  BuildOf(q)'
  BY DEF BuildOf, Tree, OwnCommit, BuildPlaces

LEMMA BuildOfBuild ==
  ASSUME TypeInv, NEW r \in Repos, BuildOf(r), BuildStep(r)
  PROVE  BuildOf(r)'
  <1>1. /\ head' = head
        /\ pc'[r] \notin BuildPlaces
    BY BuildEffect DEF GoesOn, AfterBuild, AfterPackage, BuildPlaces
  <1>2. Tree(r)' = Tree(r)
    BY <1>1 DEF Tree, OwnCommit
  <1>3. WorkspacesTyped
    BY DEF TypeInv, TypeOK
  <1>4. ASSUME NEW w \in BOOLEAN, NEW s \in BOOLEAN, Cached(r, Entry(r, w, s))
        PROVE  \A d \in cache'[r] : d \in cache[r] \/ d = Entry(r, w, s)
    BY <1>3, <1>4 DEF Cached, WorkspacesTyped
  <1>5. \A w, s : Entry(r, w, s).whole = w /\ Entry(r, w, s).stamped = s
    BY DEF Entry
  <1>6. CASE CopyBuildIfCached(r)
    <2>1. PICK e \in cache[r] :
            /\ e.tree = Tree(r)
            /\ built' = [built EXCEPT ![r] = {[tree |-> e.tree, whole |-> e.whole]}]
            /\ Cached(r, Entry(r, e.whole, TRUE))
      BY <1>6 DEF CopyBuildIfCached
    <2>2. e.whole /\ e.whole \in BOOLEAN
      BY <1>3, <1>6, <2>1 DEF CopyBuildIfCached, At, BuildOf, WorkspacesTyped
    <2>3. built'[r] = {[tree |-> e.tree, whole |-> e.whole]}
      BY <1>3, <2>1 DEF WorkspacesTyped
    <2>4. \A d \in cache'[r] : d \in cache[r] \/ d = Entry(r, e.whole, TRUE)
      BY <1>4, <2>1, <2>2
    <2>5. \A d \in cache'[r] : d.stamped => d.whole
      BY <1>5, <2>2, <2>4 DEF BuildOf
    <2>6. \A b \in built'[r] : b.tree = Tree(r)' /\ b.whole
      BY <1>2, <2>1, <2>2, <2>3
    <2>7. QED
      BY <1>1, <2>5, <2>6 DEF BuildOf, BuildPlaces
  <1>7. CASE Build(r)
    <2>1. built'[r] = {[tree |-> Tree(r), whole |-> TRUE]} /\ cache' = cache
      BY <1>3, <1>7 DEF Build, WorkspacesTyped
    <2>2. QED
      BY <1>1, <1>2, <2>1 DEF BuildOf, BuildPlaces
  <1>8. CASE BeginCacheBuild(r)
    <2>1. /\ \A d \in cache'[r] : d \in cache[r] \/ d = Entry(r, FALSE, FALSE)
          /\ built' = built
      BY <1>4, <1>8 DEF BeginCacheBuild
    <2>2. QED
      BY <1>1, <1>2, <1>5, <2>1 DEF BuildOf, BuildPlaces
  <1>9. CASE EndCacheBuild(r)
    <2>1. /\ \A d \in cache'[r] : d \in cache[r] \/ d = Entry(r, TRUE, TRUE)
          /\ built' = built
      BY <1>4, <1>9 DEF EndCacheBuild
    <2>2. QED
      BY <1>1, <1>2, <1>5, <2>1 DEF BuildOf, BuildPlaces
  <1>10. CASE BuildFails(r) \/ Scan(r) \/ AwaitComputeEngineTask(r) \/ CheckQualityGate(r)
    <2>1. UNCHANGED <<built, cache>>
      BY <1>10 DEF BuildFails, Scan, AwaitComputeEngineTask, CheckQualityGate
    <2>2. QED
      BY <1>1, <2>1, BuildSame DEF BuildPlaces
  <1>11. QED
    BY <1>6, <1>7, <1>8, <1>9, <1>10 DEF BuildStep

LEMMA BuildNext ==
  ASSUME TypeInv, BuildInv, [Next]_vars
  PROVE  BuildInv'
  <1>0. WorkspacesTyped /\ \A q \in Repos : BuildOf(q)
    BY DEF TypeInv, TypeOK, BuildInv
  <1>1. ASSUME NEW r \in Repos, Others(r),
               \A q \in Repos \ {r} : built'[q] = built[q] /\ cache'[q] = cache[q],
               BuildOf(r)'
        PROVE  BuildInv'
    BY <1>0, <1>1, BuildSame DEF BuildInv, Others
  <1>2. ASSUME NEW r \in Repos, Others(r), UNCHANGED <<head, built, cache>>,
               pc'[r] # "checkout", pc'[r] \in BuildPlaces => pc[r] \in BuildPlaces
        PROVE  BuildInv'
    BY <1>0, <1>1, <1>2, BuildSame
  <1>3. ASSUME NEW r \in Repos, Clean(r) PROVE BuildInv'
    <2>1. /\ Others(r) /\ built'[r] = {} /\ \A e \in cache'[r] : e \in cache[r] /\ e.stamped
      BY <1>3, CleanEffect
    <2>2. \A q \in Repos \ {r} : built'[q] = built[q] /\ cache'[q] = cache[q]
      BY <1>0, <1>3
      DEF Clean, CleanCache, DeleteDirectoryContentsSpareCache, WorkspacesTyped
    <2>3. BuildOf(r)'
      BY <1>0, <2>1 DEF BuildOf
    <2>4. QED
      BY <1>1, <2>1, <2>2, <2>3
  <1>4. ASSUME NEW r \in Repos, CheckoutAndAssembleContext(r) PROVE BuildInv'
    <2>1. /\ Others(r) /\ UNCHANGED <<built, cache>>
          /\ pc[r] = "checkout" /\ pc'[r] \in {"download", "checkout"}
      BY <1>4, CheckoutEffect
    <2>2. BuildOf(r)'
      BY <1>0, <2>1 DEF BuildOf
    <2>3. QED
      BY <1>1, <2>1, <2>2
  <1>5. ASSUME NEW r \in Repos, DownloadArtifacts(r) \/ DownloadGarbled(r) PROVE BuildInv'
    <2>1. /\ Others(r) /\ UNCHANGED <<head, built, cache>>
          /\ pc[r] = "download" /\ pc'[r] # "checkout"
      BY <1>5, DownloadEffect DEF AfterStart, AfterBuild, AfterPackage
    <2>2. QED
      BY <1>2, <2>1 DEF BuildPlaces
  <1>6. ASSUME NEW r \in Repos, BuildStep(r) PROVE BuildInv'
    <2>1. Others(r) /\ BuildOf(r)'
      BY <1>0, <1>6, BuildEffect, BuildOfBuild
    <2>2. \A q \in Repos \ {r} : built'[q] = built[q] /\ cache'[q] = cache[q]
      <3>1. CASE CopyBuildIfCached(r)
        BY <1>0, <3>1 DEF CopyBuildIfCached, Cached, WorkspacesTyped
      <3>2. CASE Build(r)
        BY <1>0, <3>2 DEF Build, WorkspacesTyped
      <3>3. CASE BeginCacheBuild(r) \/ EndCacheBuild(r)
        BY <1>0, <3>3 DEF BeginCacheBuild, EndCacheBuild, Cached, WorkspacesTyped
      <3>4. CASE BuildFails(r) \/ Scan(r) \/ AwaitComputeEngineTask(r) \/ CheckQualityGate(r)
        BY <3>4 DEF BuildFails, Scan, AwaitComputeEngineTask, CheckQualityGate
      <3>5. QED
        BY <1>6, <3>1, <3>2, <3>3, <3>4 DEF BuildStep
    <2>3. QED
      BY <1>1, <2>1, <2>2
  <1>7. ASSUME NEW r \in Repos, PackageStep(r) \/ DeployStep(r) PROVE BuildInv'
    <2>1. Others(r) /\ UNCHANGED <<head, built, cache>> /\ pc'[r] \notin BuildPlaces
      BY <1>7, PackageEffect, DeployEffect DEF GoesOn, AfterPackage, BuildPlaces
    <2>2. QED
      BY <1>2, <2>1 DEF BuildPlaces
  <1>8. ASSUME NEW r \in Repos, Closing(r) PROVE BuildInv'
    <2>1. Others(r) /\ UNCHANGED <<head, built, cache>> /\ pc'[r] \notin BuildPlaces
      BY <1>8, ClosingEffect DEF FinishPlaces, BuildPlaces
    <2>2. QED
      BY <1>2, <2>1 DEF BuildPlaces
  <1>9. CASE Around
    BY <1>0, <1>9, BuildSame DEF Around, BuildInv
  <1>10. QED
    BY <1>3, <1>4, <1>5, <1>6, <1>7, <1>8, <1>9, Sorts DEF StartStep, TaskStep

(* What is packaged into an image is a complete build of the tree of the   *)
(* commit: an entry of the build cache that a run left half-written has no *)
(* stamp, and the ods-start of the next run removes it.                    *)
THEOREM ReusedBuildCorrect == Spec => []ReusedBuildComplete
  <1>1. Init => BuildInv
    BY DEF Init, BuildInv, BuildOf
  <1>2. Spec => []BuildInv
    BY <1>1, Invariant, BuildNext, PTL DEF Spec
  <1>3. TypeInv /\ BuildInv => ReusedBuildComplete
    BY DEF TypeInv, TypeOK, WorkspacesTyped, BuildInv, BuildOf, ReusedBuildComplete
  <1>4. QED
    BY <1>2, <1>3, Invariant, PTL

-----------------------------------------------------------------------------
(* Quality gates. *)

GatePlaces == {"analysis", "gate"}

LEMMA GateSame ==
  ASSUME NEW q \in Repos, GateOf(q), sonar'[q] = sonar[q],
         pc'[q] \notin GatePlaces \/ (pc'[q] = pc[q] /\ job'[q].id = job[q].id)
  PROVE  GateOf(q)'
  BY DEF GateOf, GatePlaces

LEMMA EndOfAppend ==
  ASSUME NEW S, NEW Q \in Seq(S), NEW x \in S
  PROVE  Append(Q, x) # << >> /\ Append(Q, x)[Len(Append(Q, x))] = x
  <1>1. PICK n \in Nat : n = Len(Q)
    OBVIOUS
  <1>2. Len(Append(Q, x)) = n + 1 /\ Append(Q, x)[n + 1] = x
    BY <1>1
  <1>3. Append(Q, x) # << >>
    BY <1>2
  <1>4. QED
    BY <1>2, <1>3

(* The scan puts the run's analysis at the end of the queue.               *)
LEMMA GateScan ==
  ASSUME TypeInv, NEW r \in Repos, Scan(r)
  PROVE  GateOf(r)' /\ \A q \in Repos \ {r} : sonar'[q] = sonar[q]
  <1>1. RunsTyped /\ sonar \in [Repos -> Project]
    BY DEF TypeInv, TypeOK, ServersTyped, Project, Gate
  <1>2. sonar[r].queue \in Seq(Nat) /\ job[r].id \in Nat
    BY <1>1 DEF Project, RunsTyped, Job
  <1>3. sonar' = [sonar EXCEPT ![r].queue = Append(@, job[r].id)]
    BY DEF Scan, ComputeEngineTaskID
  <1>4. /\ sonar'[r].queue = Append(sonar[r].queue, job[r].id)
        /\ \A q \in Repos \ {r} : sonar'[q] = sonar[q]
    BY <1>1, <1>3 DEF Project
  <1>5. /\ sonar'[r].queue # << >>
        /\ sonar'[r].queue[Len(sonar'[r].queue)] = job[r].id
    BY <1>2, <1>4, EndOfAppend
  <1>6. pc'[r] = "analysis" /\ job'[r].id = job[r].id
    BY <1>1 DEF Scan, Goto, RunsTyped
  <1>7. QED
    BY <1>4, <1>5, <1>6 DEF GateOf

LEMMA EndOfTail ==
  ASSUME NEW S, NEW Q \in Seq(S), Q # << >>
  PROVE  /\ Len(Q) = 1 \/ Len(Q) > 1
         /\ Len(Q) = 1 => Head(Q) = Q[Len(Q)] /\ Tail(Q) = << >>
         /\ Len(Q) > 1 => Tail(Q) # << >> /\ Tail(Q)[Len(Tail(Q))] = Q[Len(Q)]
  <1>1. Len(Q) \in Nat /\ Len(Q) # 0 /\ Head(Q) = Q[1]
    OBVIOUS
  <1>2. Tail(Q) \in Seq(S) /\ Len(Tail(Q)) = Len(Q) - 1
    OBVIOUS
  <1>3. \A i \in 1..(Len(Q) - 1) : Tail(Q)[i] = Q[i + 1]
    OBVIOUS
  <1>4. PICK n \in Nat, T \in Seq(S) : n = Len(Q) /\ T = Tail(Q)
    BY <1>1, <1>2
  <1>5. n # 0 /\ Len(T) = n - 1
    BY <1>1, <1>2, <1>4
  <1>6. CASE n = 1
    <2>1. Len(T) = 0
      BY <1>5, <1>6
    <2>2. T = << >>
      BY <2>1
    <2>3. QED
      BY <1>1, <1>4, <1>6, <2>2
  <1>7. CASE n > 1
    <2>1. Len(T) # 0 /\ n - 1 \in 1..(n - 1) /\ (n - 1) + 1 = n
      BY <1>5, <1>7
    <2>2. T[n - 1] = Q[n]
      BY <1>3, <1>4, <2>1
    <2>3. T # << >>
      BY <2>1
    <2>4. QED
      BY <1>4, <1>5, <1>7, <2>2, <2>3
  <1>8. n = 1 \/ n > 1
    BY <1>5
  <1>9. QED
    BY <1>6, <1>7, <1>8

(* The server finishes a task: once it finishes that of the run, which is  *)
(* the last, the queue is empty and the gate is of the run.                *)
LEMMA GateAnalysed ==
  ASSUME TypeInv, NEW r \in Repos, NEW result \in {"OK", "ERROR", "FAILED"}, Analysed(r, result),
         GateOf(r)
  PROVE  GateOf(r)' /\ \A q \in Repos \ {r} : sonar'[q] = sonar[q]
  <1> DEFINE Q == sonar[r].queue
             n == Head(Q)
  <1>1. sonar \in [Repos -> Project]
    BY DEF TypeInv, TypeOK, ServersTyped, Project, Gate
  <1>2. Q # << >> /\ Q \in Seq(Nat) /\ UNCHANGED <<pc, job>>
    BY <1>1 DEF Analysed, Project
  <1>3. PICK new : /\ sonar' = [sonar EXCEPT ![r] = new]
                   /\ new = [queue  |-> Tail(Q),
                             gate   |-> IF result = "FAILED" THEN sonar[r].gate
                                        ELSE [run |-> n, status |-> result],
                             failed |-> IF result = "FAILED" THEN sonar[r].failed \cup {n}
                                        ELSE sonar[r].failed]
    BY DEF Analysed
  <1>4. sonar'[r] = new /\ \A q \in Repos \ {r} : sonar'[q] = sonar[q]
    BY <1>1, <1>3
  <1>5. /\ sonar'[r].queue = Tail(Q)
        /\ sonar'[r].gate.run = n \/ n \in sonar'[r].failed
        /\ pc'[r] = pc[r] /\ job'[r].id = job[r].id
    BY <1>2, <1>3, <1>4
  <1> SUFFICES GateOf(r)'
    BY <1>4
  <1>6. CASE pc[r] = "analysis"
    <2>1. Q[Len(Q)] = job[r].id
      BY <1>2, <1>6 DEF GateOf
    <2>2. CASE Len(Q) = 1
      <3>1. n = job[r].id /\ Tail(Q) = << >>
        BY <1>2, <2>1, <2>2, EndOfTail
      <3>2. /\ sonar'[r].queue = << >>
            /\ sonar'[r].gate.run = job'[r].id \/ job'[r].id \in sonar'[r].failed
        BY <1>5, <3>1
      <3>3. QED
        BY <1>5, <1>6, <3>2 DEF GateOf
    <2>3. CASE Len(Q) > 1
      <3>1. Tail(Q) # << >> /\ Tail(Q)[Len(Tail(Q))] = Q[Len(Q)]
        BY <1>2, <2>3, EndOfTail
      <3>2. /\ sonar'[r].queue # << >>
            /\ sonar'[r].queue[Len(sonar'[r].queue)] = job'[r].id
        BY <1>5, <2>1, <3>1
      <3>3. QED
        BY <1>5, <1>6, <3>2 DEF GateOf
    <2>4. Len(Q) = 1 \/ Len(Q) > 1
      BY <1>2, EndOfTail
    <2>5. QED
      BY <2>2, <2>3, <2>4
  <1>7. pc[r] # "gate"
    <2>1. ASSUME pc[r] = "gate" PROVE FALSE
      <3>1. Q = << >>
        BY <2>1 DEF GateOf
      <3>2. QED
        BY <1>2, <3>1
    <2>2. QED
      BY <2>1
  <1>8. CASE pc[r] \notin GatePlaces
    <2>1. pc'[r] # "analysis" /\ pc'[r] # "gate"
      BY <1>5, <1>8 DEF GatePlaces
    <2>2. QED
      BY <2>1 DEF GateOf
  <1>9. QED
    BY <1>6, <1>7, <1>8 DEF GatePlaces

(* The task asks for the gate after its analysis has succeeded.            *)
LEMMA GateAwait ==
  ASSUME TypeInv, NEW r \in Repos, AwaitComputeEngineTask(r), GateOf(r)
  PROVE  GateOf(r)' /\ sonar' = sonar
  <1>1. RunsTyped /\ sonar \in [Repos -> Project]
    BY DEF TypeInv, TypeOK, ServersTyped, Project, Gate
  <1>2. pc[r] = "analysis" /\ sonar' = sonar
    BY DEF AwaitComputeEngineTask, At
  <1>3. CASE TaskStatus(r, job[r].id) = "SUCCESS"
    <2>1. ~ InQueue(r, job[r].id) /\ job[r].id \notin sonar[r].failed
      BY <1>3 DEF TaskStatus
    <2>2. sonar[r].queue = << >>
      <3>1. ASSUME sonar[r].queue # << >> PROVE FALSE
        <4>1. sonar[r].queue \in Seq(Nat)
          BY <1>1 DEF Project
        <4>2. Len(sonar[r].queue) \in DOMAIN sonar[r].queue
          BY <3>1, <4>1
        <4>3. QED
          BY <1>2, <2>1, <3>1, <4>2 DEF GateOf, InQueue
      <3>2. QED
        BY <3>1
    <2>3. sonar[r].gate.run = job[r].id
      BY <1>2, <2>1, <2>2 DEF GateOf
    <2>4. pc'[r] = "gate" /\ job'[r].id = job[r].id
      BY <1>1, <1>3
      DEF AwaitComputeEngineTask, ComputeEngineTaskID, Proceed, Goto, RunsTyped, Job
    <2>5. QED
      BY <1>2, <2>2, <2>3, <2>4 DEF GateOf
  <1>4. CASE TaskStatus(r, job[r].id) # "SUCCESS"
    <2>1. pc'[r] = "finish"
      BY <1>1, <1>4 DEF AwaitComputeEngineTask, ComputeEngineTaskID, Fatal, RunsTyped
    <2>2. QED
      BY <1>2, <2>1 DEF GateOf
  <1>5. QED
    BY <1>3, <1>4

LEMMA GateNext ==
  ASSUME TypeInv, GateInv, [Next]_vars
  PROVE  GateInv'
  <1>0. RunsTyped /\ \A q \in Repos : GateOf(q)
    BY DEF TypeInv, TypeOK, GateInv
  <1>1. ASSUME NEW r \in Repos, Others(r), GateOf(r)',
               \A q \in Repos \ {r} : sonar'[q] = sonar[q]
        PROVE  GateInv'
    BY <1>0, <1>1, GateSame DEF GateInv, Others
  <1>2. ASSUME NEW r \in Repos, Others(r), sonar' = sonar, pc'[r] \notin GatePlaces
        PROVE  GateInv'
    BY <1>0, <1>1, <1>2, GateSame
  <1>3. ASSUME NEW r \in Repos, StartStep(r) PROVE GateInv'
    <2>1. Others(r) /\ sonar' = sonar /\ pc'[r] \notin GatePlaces
      BY <1>3, CleanEffect, CheckoutEffect, DownloadEffect
      DEF StartStep, AfterStart, AfterBuild, AfterPackage, GatePlaces
    <2>2. QED
      BY <1>2, <2>1
  <1>4. ASSUME NEW r \in Repos, BuildStep(r) PROVE GateInv'
    <2>1. Others(r)
      BY <1>4, BuildEffect
    <2>2. CASE Scan(r)
      BY <1>1, <2>1, <2>2, GateScan
    <2>3. CASE AwaitComputeEngineTask(r)
      BY <1>0, <1>1, <2>1, <2>3, GateAwait
    <2>4. CASE CheckQualityGate(r)
      <3>1. pc'[r] \in {AfterBuild(r), "finish"} /\ sonar' = sonar
        BY <1>0, <2>4 DEF CheckQualityGate, Proceed, Goto, Fatal, RunsTyped
      <3>2. QED
        BY <1>2, <2>1, <3>1 DEF AfterBuild, AfterPackage, GatePlaces
    <2>5. CASE CopyBuildIfCached(r) \/ Build(r) \/ BuildFails(r)
      <3>1. pc'[r] \in {"scan", "save", "finish"} /\ sonar' = sonar
        BY <1>0, <2>5 DEF CopyBuildIfCached, Build, BuildFails, Proceed, Goto, Fatal, RunsTyped
      <3>2. QED
        BY <1>2, <2>1, <3>1 DEF GatePlaces
    <2>6. CASE BeginCacheBuild(r) \/ EndCacheBuild(r)
      <3>1. pc'[r] \in {"stamp", "scan"} /\ sonar' = sonar
        BY <1>0, <2>6 DEF BeginCacheBuild, EndCacheBuild, Goto, RunsTyped
      <3>2. QED
        BY <1>2, <2>1, <3>1 DEF GatePlaces
    <2>7. QED
      BY <1>4, <2>2, <2>3, <2>4, <2>5, <2>6 DEF BuildStep
  <1>5. ASSUME NEW r \in Repos, PackageStep(r) \/ DeployStep(r) PROVE GateInv'
    <2>1. Others(r) /\ sonar' = sonar /\ pc'[r] \notin GatePlaces
      BY <1>5, PackageEffect, DeployEffect DEF GoesOn, AfterPackage, GatePlaces
    <2>2. QED
      BY <1>2, <2>1
  <1>6. ASSUME NEW r \in Repos, Closing(r) PROVE GateInv'
    <2>1. Others(r) /\ sonar' = sonar /\ pc'[r] \notin GatePlaces
      BY <1>6, ClosingEffect DEF FinishPlaces, GatePlaces
    <2>2. QED
      BY <1>2, <2>1
  <1>7. ASSUME NEW r \in Repos, AnalysisPasses(r) \/ AnalysisFails(r) PROVE GateInv'
    <2>1. PICK result \in {"OK", "ERROR", "FAILED"} : Analysed(r, result)
      BY <1>7 DEF AnalysisPasses, AnalysisFails
    <2>2. Others(r)
      BY <2>1 DEF Analysed, Others
    <2>3. QED
      BY <1>0, <1>1, <2>1, <2>2, GateAnalysed
  <1>8. ASSUME UNCHANGED <<pc, job, sonar>> PROVE GateInv'
    BY <1>0, <1>8, GateSame DEF GateInv
  <1>9. QED
    BY <1>3, <1>4, <1>5, <1>6, <1>7, <1>8 DEF Next, Step, Closing, MoveBranch

(* A run gets past its quality gate only on the result of its own          *)
(* analysis: although the gate is asked for by project (sonar/main.go:133),*)
(* the task before it has waited for that analysis, and none is queued     *)
(* behind it.                                                              *)
THEOREM GateCorrect == Spec => GateOfOwnAnalysis
  <1>1. Init => GateInv
    BY DEF Init, GateInv, GateOf
  <1>2. Spec => []GateInv
    BY <1>1, Invariant, GateNext, PTL DEF Spec
  <1>3. TypeInv /\ GateInv /\ [Next]_vars => [\A r \in Repos : PassesOwnGate(r)]_vars
    <2> SUFFICES ASSUME TypeInv, GateInv, [Next]_vars, NEW r \in Repos,
                        At(r, "gate"), pc'[r] \notin {"gate", "idle"}, job'[r].ok
                 PROVE  sonar[r].gate = [run |-> job[r].id, status |-> "OK"]
      BY DEF PassesOwnGate
    <2>1. PICK q \in Repos : StartStep(q) \/ TaskStep(q) \/ Closing(q)
      BY Sorts DEF Around, At
    <2>2. q = r
      <3>1. Others(q)
        <4>1. CASE StartStep(q)
          BY <4>1, CleanEffect, CheckoutEffect, DownloadEffect DEF StartStep
        <4>2. CASE TaskStep(q)
          BY <4>2, TaskEffect
        <4>3. CASE Closing(q)
          BY <4>3, ClosingEffect
        <4>4. QED
          BY <2>1, <4>1, <4>2, <4>3
      <3>2. QED
        BY <3>1 DEF Others, At
    <2>3. CheckQualityGate(r)
      <3>1. ~ StartStep(r)
        BY DEF StartStep, Clean, CheckoutAndAssembleContext, DownloadArtifacts, DownloadGarbled, At
      <3>2. ~ PackageStep(r) /\ ~ DeployStep(r)
        BY DEF PackageStep, ReuseImage, NoImage, InspectionFails, BuildAndPush, AquaScan,
               AquaScanFails, DeployStep, SkipDeployment, CopyImages, HelmDiff, HelmDiffFails,
               HelmUpgrade, HelmUpgradeFails, At
      <3>3. ~ FinishStep(r)
        BY DEF FinishStep, NoContext, SetBuildStatus, CreatePipelineRunArtifact, CollectArtifacts,
               UploadArtifact, UploadsDone, At
      <3>4. ~ TaskFails(r) /\ ~ RunStops(r)
        <4>1. Fatal(r) => ~ job'[r].ok
          BY DEF Fatal, JobOf, TypeInv, TypeOK, RunsTyped
        <4>2. EndRun(r) => pc'[r] = "idle"
          BY DEF EndRun, Goto, TypeInv, TypeOK, RunsTyped
        <4>3. QED
          BY <4>1, <4>2 DEF TaskFails, RunStops
      <3>5. \A s : ~ Trigger(r, s)
        BY DEF Trigger, At
      <3>6. BuildStep(r)
        BY <2>1, <2>2, <3>1, <3>2, <3>3, <3>4, <3>5 DEF TaskStep, Closing
      <3>7. QED
        BY <3>6 DEF BuildStep, CopyBuildIfCached, Build, BuildFails, BeginCacheBuild,
                    EndCacheBuild, Scan, AwaitComputeEngineTask, At
    <2>4. sonar[r].gate.status = "OK"
      <3>1. Fatal(r) => ~ job'[r].ok
        BY DEF Fatal, JobOf, TypeInv, TypeOK, RunsTyped
      <3>2. QED
        BY <2>3, <3>1 DEF CheckQualityGate, QualityGateGet
    <2>5. sonar[r].gate.run = job[r].id
      BY DEF GateInv, GateOf, At
    <2>6. sonar[r].gate \in Gate
      BY DEF TypeInv, TypeOK, ServersTyped, Gate
    <2>7. QED
      BY <2>4, <2>5, <2>6 DEF Gate
  <1>4. QED
    BY <1>2, <1>3, Invariant, PTL DEF Spec, GateOfOwnAnalysis

-----------------------------------------------------------------------------
(* Images. *)

(* The tag of a commit gets another digest only if it has none, or is      *)
(* taken to have none, and is not lost again.                              *)
ImagesGrow ==
  /\ misread \subseteq misread'
  /\ \A c \in Commits : /\ image'[c] = image[c] \/ image[c] = 0 \/ c \in misread
                        /\ image[c] # 0 => image'[c] # 0

LEMMA CurrentStays ==
  ASSUME ImagesGrow
  PROVE  \A c, f : Current(image, misread, c, f) => Current(image', misread', c, f)
  BY DEF ImagesGrow, Current

LEMMA FilesStayCurrent ==
  ASSUME ImagesGrow, NEW q \in Repos, FilesCurrent(q), head'[q] = head[q], Keeps(q, "image")
  PROVE  FilesCurrent(q)'
  <1> SUFFICES ASSUME NEW p \in Repos, NEW f \in files'[q][p]
               PROVE  Current(image', misread', head[q][p], f)
    BY DEF FilesCurrent, ImageCurrent
  <1>1. CASE f.kind = "image"
    <2>1. Current(image, misread, head[q][p], f)
      BY <1>1 DEF FilesCurrent, ImageCurrent, Keeps
    <2>2. QED
      BY <2>1, CurrentStays
  <1>2. CASE f.kind # "image"
    BY <1>2 DEF Current
  <1>3. QED
    BY <1>1, <1>2

LEMMA AssetsStayCurrent ==
  ASSUME AssetsCurrent, ImagesGrow, assets' = assets
  PROVE  AssetsCurrent'
  BY CurrentStays DEF AssetsCurrent, ImageCurrent

\* A run is nowhere where something is claimed of its image, or where it was.
LEMMA ImageOfMoved ==
  ASSUME NEW q \in Repos, ImageOf(q), UNCHANGED <<image, misread>>,
         head'[q] = head[q], Keeps(q, "image"),
         \/ pc'[q] = pc[q] /\ job'[q].id = job[q].id /\ job'[q].ok = job[q].ok
         \/ /\ pc'[q] \notin {"push", "aqua"}
            /\ job'[q].ok /\ pc'[q] \in PackagedPlaces /\ "package" \in Tasks[q] =>
                 job[q].ok /\ pc[q] \in PackagedPlaces
  PROVE  ImageOf(q)'
  <1>1. ImagesGrow
    BY DEF ImagesGrow
  <1>2. FilesCurrent(q)'
    BY <1>1, FilesStayCurrent DEF ImageOf
  <1>3. OwnCommit(q)' = OwnCommit(q)
    BY DEF OwnCommit
  <1>4. PushPending(q)' /\ JustPushed(q)'
    BY <1>3 DEF ImageOf, PushPending, JustPushed
  <1>5. Packaged(q)'
    BY <1>3 DEF ImageOf, Packaged
  <1>6. QED
    BY <1>2, <1>4, <1>5 DEF ImageOf

LEMMA ImageStart ==
  ASSUME TypeInv, CertInv, ImageInv, NEW r \in Repos, StartStep(r)
  PROVE  ImageOf(r)'
  <1>0. ImageOf(r) /\ AssetsCurrent
    BY DEF ImageInv
  <1>1. CASE Clean(r)
    <2>1. pc'[r] = "checkout" /\ \A q \in Repos : files'[r][q] = {}
      BY <1>1, CleanEffect
    <2>2. QED
      BY <2>1 DEF ImageOf, FilesCurrent, PushPending, JustPushed, Packaged, PackagedPlaces,
                  FinishPlaces
  <1>2. CASE CheckoutAndAssembleContext(r)
    <2>1. /\ pc[r] = "checkout" /\ pc'[r] \in {"checkout", "download"} /\ files' = files
      BY <1>2, CheckoutEffect
    <2>2. \A q \in Repos : files'[r][q] = {}
      BY <2>1 DEF CertInv, CertOf, NoFilesYet
    <2>3. QED
      BY <2>1, <2>2 DEF ImageOf, FilesCurrent, PushPending, JustPushed, Packaged, PackagedPlaces,
                        FinishPlaces
  <1>3. CASE DownloadArtifacts(r) \/ DownloadGarbled(r)
    <2>1. /\ Here(r) \in Repos /\ UNCHANGED <<head, image, misread>>
          /\ \A q \in Repos \ {Here(r)} : files'[r][q] = files[r][q]
          /\ FromNexus(head[r][Here(r)], files'[r][Here(r)])
          /\ pc'[r] \in {"download", AfterStart(r)} \/ (pc'[r] = "finish" /\ ~ job'[r].ok)
      BY <1>3, DownloadEffect
    <2>2. ASSUME NEW f \in files'[r][Here(r)]
          PROVE  Current(image, misread, head[r][Here(r)], f)
      <3>1. PICK a \in assets : /\ a.commit = head[r][Here(r)] /\ Id(a.file) = Id(f)
                                /\ f = a.file \/ f.value = Garbled
        BY <2>1 DEF FromNexus
      <3>2. Current(image, misread, a.commit, a.file)
        BY <1>0 DEF AssetsCurrent, ImageCurrent
      <3>3. a.file.kind = f.kind
        BY <3>1 DEF Id
      <3>4. QED
        BY <3>1, <3>2, <3>3 DEF Current, Garbled
    <2>3. FilesCurrent(r)'
      <3>1. \A q \in Repos : \A f \in files'[r][q] : Current(image, misread, head[r][q], f)
        BY <1>0, <2>1, <2>2 DEF ImageOf, FilesCurrent, ImageCurrent
      <3>2. QED
        BY <2>1, <3>1 DEF FilesCurrent, ImageCurrent
    <2>4. PushPending(r)' /\ JustPushed(r)' /\ Packaged(r)'
      BY <2>1 DEF PushPending, JustPushed, Packaged, PackagedPlaces, FinishPlaces, AfterStart,
                  AfterBuild, AfterPackage
    <2>5. QED
      BY <2>3, <2>4 DEF ImageOf
  <1>4. QED
    BY <1>1, <1>2, <1>3 DEF StartStep

LEMMA ImageBuild ==
  ASSUME TypeInv, NEW r \in Repos, ImageOf(r), BuildStep(r)
  PROVE  ImageOf(r)'
  <1>1. /\ head' = head /\ UNCHANGED <<image, misread>> /\ Keeps(r, "image")
        /\ GoesOn(r, {"save", "stamp", "scan", "analysis", "gate", AfterBuild(r)})
    BY BuildEffect
  <1>2. /\ pc'[r] \notin {"push", "aqua"}
        /\ ~ (job'[r].ok /\ pc'[r] \in PackagedPlaces /\ "package" \in Tasks[r])
    BY <1>1 DEF GoesOn, AfterBuild, AfterPackage, PackagedPlaces, FinishPlaces
  <1>3. QED
    BY <1>1, <1>2, ImageOfMoved

LEMMA ImageDeploy ==
  ASSUME TypeInv, NEW r \in Repos, ImageOf(r), DeployStep(r)
  PROVE  ImageOf(r)'
  <1>1. /\ head' = head /\ UNCHANGED <<image, misread>> /\ Keeps(r, "image")
        /\ GoesOn(r, {"deploy", "diff", "upgrade", "finish"})
    BY DeployEffect
  <1>2. pc[r] \in PackagedPlaces
    BY DEF DeployStep, SkipDeployment, CopyImages, HelmDiff, HelmDiffFails, HelmUpgrade,
           HelmUpgradeFails, At, PackagedPlaces
  <1>3. pc'[r] \notin {"push", "aqua"} /\ (job'[r].ok => job[r].ok)
    BY <1>1 DEF GoesOn
  <1>4. QED
    BY <1>1, <1>2, <1>3, ImageOfMoved

\* The image artifact of r is replaced by one that is current.
LEMMA ImageWritten ==
  ASSUME TypeInv, NEW r \in Repos, FilesCurrent(r), UNCHANGED <<head, image, misread>>,
         NEW new, Write(r, new),
         \A f \in new : Current(image, misread, OwnCommit(r), f)
  PROVE  FilesCurrent(r)'
  <1>1. WorkspacesTyped
    BY DEF TypeInv, TypeOK
  <1>2. files' = [files EXCEPT ![r][r] = Written(files[r][r], new)]
    BY DEF Write
  <1>3. /\ \A q \in Repos \ {r} : files'[r][q] = files[r][q]
        /\ files'[r][r] = Written(files[r][r], new)
    BY <1>1, <1>2 DEF WorkspacesTyped
  <1>4. \A f \in files'[r][r] : f \in files[r][r] \/ f \in new
    BY <1>3 DEF Written
  <1>5. \A q \in Repos : \A f \in files'[r][q] : Current(image, misread, head[r][q], f)
    BY <1>3, <1>4 DEF FilesCurrent, ImageCurrent, OwnCommit
  <1>6. QED
    BY <1>5 DEF FilesCurrent, ImageCurrent

(* A push leaves the images of other commits alone, and with them what     *)
(* other runs rely on.                                                     *)
LEMMA PushGrows ==
  ASSUME TypeInv, CertInv, NEW r \in Repos, PushPending(r), BuildAndPush(r)
  PROVE  /\ ImagesGrow /\ misread' = misread /\ pc[r] = "push" /\ pc'[r] = "aqua" /\ job' = job
         /\ OwnCommit(r) \in Commits /\ RepoOf[OwnCommit(r)] = r
         /\ image'[OwnCommit(r)] = job[r].id /\ job[r].id > 0
         /\ \A c \in Commits \ {OwnCommit(r)} : image'[c] = image[c]
         /\ UNCHANGED <<head, files, status, assets, succeeded>>
  <1>1. /\ pc[r] = "push" /\ pc'[r] = "aqua"
        /\ image' = [image EXCEPT ![OwnCommit(r)] = job[r].id]
        /\ UNCHANGED <<job, head, files, misread, status, assets, succeeded>>
    BY DEF BuildAndPush, BuildahPush, BuildahBuild, At, Goto, TypeInv, TypeOK, RunsTyped
  <1>2. OwnCommit(r) \in Commits /\ RepoOf[OwnCommit(r)] = r
    BY <1>1, OwnCommitType DEF TaskPlaces
  <1>3. job[r].id > 0
    BY <1>1 DEF CertInv, CertOf, RunNumbered
  <1>4. /\ image'[OwnCommit(r)] = job[r].id
        /\ \A c \in Commits \ {OwnCommit(r)} : image'[c] = image[c]
    BY <1>1, <1>2 DEF TypeInv, TypeOK, ServersTyped
  <1>5. ImagesGrow
    BY <1>1, <1>3, <1>4 DEF ImagesGrow, PushPending
  <1>6. QED
    BY <1>1, <1>2, <1>3, <1>4, <1>5

LEMMA ImagePackage ==
  ASSUME TypeInv, CertInv, NEW r \in Repos, ImageOf(r), PackageStep(r)
  PROVE  ImageOf(r)' /\ ImagesGrow
  <1>0. RunsTyped /\ ServersTyped
    BY DEF TypeInv, TypeOK
  <1>1. CASE ReuseImage(r)
    <2>1. /\ pc[r] = "package" /\ UNCHANGED <<head, image, misread>>
          /\ pc'[r] \in {"deploy", "finish"}
          /\ Write(r, {ImageArtifact(image[OwnCommit(r)])}) /\ image[OwnCommit(r)] # 0
      BY <1>0, <1>1 DEF ReuseImage, At, Proceed, Goto, ImageFound, DigestFromRegistry,
                        AfterPackage, RunsTyped
    <2>2. OwnCommit(r) \in Commits
      BY <2>1, OwnCommitType DEF TaskPlaces
    <2>3. Current(image, misread, OwnCommit(r), ImageArtifact(image[OwnCommit(r)]))
      BY <2>1, <2>2 DEF Current, ImageArtifact, File
    <2>4. FilesCurrent(r)'
      BY <2>1, <2>3, ImageWritten DEF ImageOf
    <2>5. OwnCommit(r)' = OwnCommit(r)
      BY <2>1 DEF OwnCommit
    <2>6. QED
      BY <2>1, <2>2, <2>4, <2>5
      DEF ImageOf, PushPending, JustPushed, Packaged, ImagesGrow
  <1>2. CASE NoImage(r)
    <2>1. /\ UNCHANGED <<head, files, image, misread>> /\ pc'[r] = "push"
          /\ image[OwnCommit(r)] = 0
      BY <1>0, <1>2 DEF NoImage, Goto, ImageFound, DigestFromRegistry, RunsTyped
    <2>2. OwnCommit(r)' = OwnCommit(r)
      BY <2>1 DEF OwnCommit
    <2>3. QED
      BY <2>1, <2>2
      DEF ImageOf, FilesCurrent, ImageCurrent, PushPending, JustPushed, Packaged, PackagedPlaces,
          FinishPlaces, ImagesGrow
  <1>3. CASE InspectionFails(r)
    <2>1. /\ UNCHANGED <<head, files, image>> /\ pc'[r] = "push"
          /\ misread' = misread \cup {OwnCommit(r)}
      BY <1>0, <1>3 DEF InspectionFails, Goto, RunsTyped
    <2>2. OwnCommit(r)' = OwnCommit(r)
      BY <2>1 DEF OwnCommit
    <2>3. ImagesGrow
      BY <2>1 DEF ImagesGrow
    <2>4. FilesCurrent(r)'
      BY <2>1, <2>3, FilesStayCurrent DEF ImageOf, Keeps
    <2>5. QED
      BY <2>1, <2>2, <2>3, <2>4
      DEF ImageOf, PushPending, JustPushed, Packaged, PackagedPlaces, FinishPlaces
  <1>4. CASE BuildAndPush(r)
    <2>1. PushPending(r)
      BY DEF ImageOf
    <2>2. /\ ImagesGrow /\ pc'[r] = "aqua" /\ job' = job /\ OwnCommit(r) \in Commits
          /\ image'[OwnCommit(r)] = job[r].id /\ job[r].id > 0
          /\ UNCHANGED <<head, files>>
      BY <1>4, <2>1, PushGrows
    <2>3. OwnCommit(r)' = OwnCommit(r)
      BY <2>2 DEF OwnCommit
    <2>4. FilesCurrent(r)'
      BY <2>2, FilesStayCurrent DEF ImageOf, Keeps
    <2>5. PushPending(r)' /\ JustPushed(r)'
      BY <2>2, <2>3 DEF PushPending, JustPushed
    <2>6. Packaged(r)'
      BY <2>2, <2>3 DEF Packaged
    <2>7. QED
      BY <2>2, <2>4, <2>5, <2>6 DEF ImageOf
  <1>5. CASE AquaScan(r)
    <2> DEFINE new == {ImageArtifact(job[r].id), File("report", 0, 0)}
    <2>1. /\ pc[r] = "aqua" /\ UNCHANGED <<head, image, misread>>
          /\ pc'[r] \in {"deploy", "finish"} /\ Write(r, new)
      BY <1>0, <1>5 DEF AquaScan, BuildahBuild, At, Proceed, Goto, AfterPackage, RunsTyped
    <2>2. OwnCommit(r) \in Commits /\ image[OwnCommit(r)] = job[r].id /\ job[r].id > 0
      BY <2>1, OwnCommitType
      DEF TaskPlaces, ImageOf, JustPushed, CertInv, CertOf, RunNumbered
    <2>3. \A f \in new : Current(image, misread, OwnCommit(r), f)
      BY <2>2 DEF Current, ImageArtifact, File
    <2>4. FilesCurrent(r)'
      BY <2>1, <2>3, ImageWritten DEF ImageOf
    <2>5. OwnCommit(r)' = OwnCommit(r)
      BY <2>1 DEF OwnCommit
    <2>6. PushPending(r)' /\ JustPushed(r)' /\ ImagesGrow
      BY <2>1 DEF PushPending, JustPushed, ImagesGrow
    <2>7. Packaged(r)'
      BY <2>1, <2>2, <2>5 DEF Packaged
    <2>8. QED
      BY <2>4, <2>6, <2>7 DEF ImageOf
  <1>6. CASE AquaScanFails(r)
    <2>1. /\ UNCHANGED <<head, files, image, misread>> /\ pc'[r] = "finish" /\ ~ job'[r].ok
      BY <1>0, <1>6 DEF AquaScanFails, Fatal, JobOf, RunsTyped
    <2>2. ImageOf(r)'
      BY <2>1, ImageOfMoved DEF Keeps
    <2>3. QED
      BY <2>1, <2>2 DEF ImagesGrow
  <1>7. QED
    BY <1>1, <1>2, <1>3, <1>4, <1>5, <1>6 DEF PackageStep

\* What other runs rely on, while r packages.
LEMMA ImageOthers ==
  ASSUME TypeInv, CertInv, NEW r \in Repos, PackageStep(r), ImageOf(r),
         NEW q \in Repos \ {r}, ImageOf(q)
  PROVE  ImageOf(q)'
  <1>1. /\ pc'[q] = pc[q] /\ job'[q] = job[q] /\ head' = head /\ files'[q] = files[q]
        /\ OwnCommit(q)' = OwnCommit(q)
    BY PackageEffect DEF Others, OwnCommit
  <1>2. ImagesGrow
    BY ImagePackage
  <1>3. FilesCurrent(q)'
    BY <1>1, <1>2, FilesStayCurrent DEF ImageOf, Keeps
  <1>4. Packaged(q)'
    BY <1>1, <1>2 DEF ImageOf, Packaged, ImagesGrow
  <1>5. pc[q] \in {"push", "aqua"} => image'[OwnCommit(q)] = image[OwnCommit(q)]
    <2>1. CASE BuildAndPush(r)
      <3>1. /\ RepoOf[OwnCommit(r)] = r
            /\ \A c \in Commits \ {OwnCommit(r)} : image'[c] = image[c]
        BY <2>1, PushGrows DEF ImageOf
      <3>2. pc[q] \in {"push", "aqua"} => OwnCommit(q) \in Commits /\ RepoOf[OwnCommit(q)] = q
        BY OwnCommitType DEF TaskPlaces
      <3>3. QED
        BY <3>1, <3>2
    <2>2. CASE ~ BuildAndPush(r)
      <3>1. image' = image
        BY <2>2 DEF PackageStep, ReuseImage, NoImage, InspectionFails, AquaScan, AquaScanFails
      <3>2. QED
        BY <3>1
    <2>3. QED
      BY <2>1, <2>2
  <1>6. PushPending(q)' /\ JustPushed(q)'
    BY <1>1, <1>2, <1>5 DEF ImageOf, PushPending, JustPushed, ImagesGrow
  <1>7. QED
    BY <1>3, <1>4, <1>6 DEF ImageOf

LEMMA ImageClosing ==
  ASSUME TypeInv, NEW r \in Repos, ImageOf(r), Closing(r)
  PROVE  ImageOf(r)'
  <1>1. /\ head' = head /\ UNCHANGED <<image, misread>>
        /\ pc'[r] \in FinishPlaces \cup {"idle", "clean"}
    BY ClosingEffect
  <1>0. job[r] \in Job /\ \A x : [job[r] EXCEPT !.todo = x].ok = job[r].ok
    <2>1. job[r] \in Job
      BY DEF TypeInv, TypeOK, RunsTyped
    <2>2. QED
      BY <2>1 DEF Job
  <1>2. CASE NoContext(r) \/ TaskFails(r) \/ RunStops(r)
    <2>1. files' = files /\ ~ job'[r].ok
      BY <1>2, StopEffect
    <2>2. QED
      BY <1>1, <2>1, ImageOfMoved DEF Keeps, FinishPlaces
  <1>3. CASE SetBuildStatus(r)
    <2>1. files' = files /\ job' = job /\ pc[r] = "finish"
      BY <1>3, StatusEffect
    <2>2. QED
      BY <1>1, <2>1, ImageOfMoved DEF Keeps, FinishPlaces, PackagedPlaces
  <1>4. CASE CreatePipelineRunArtifact(r)
    <2> DEFINE new == {File("run", job[r].id, IF job[r].ok THEN Success ELSE Failure)}
    <2>1. /\ pc[r] = "archive" /\ job'[r] = [job[r] EXCEPT !.at = 1]
          /\ \A q \in Repos \ {r} : files'[r][q] = files[r][q]
          /\ files'[r][r] = Written(files[r][r], new)
      BY <1>4, RunArtifactEffect
    <2>2. Keeps(r, "image")
      BY <2>1 DEF Keeps, Written, File
    <2>3. job'[r].ok = job[r].ok
      BY <2>1 DEF TypeInv, TypeOK, RunsTyped, Job
    <2>4. QED
      BY <1>1, <2>1, <2>2, <2>3, ImageOfMoved DEF FinishPlaces, PackagedPlaces
  <1>5. CASE CollectArtifacts(r)
    <2>1. /\ files' = files /\ pc[r] = "collect"
          /\ ~ job'[r].ok \/ \E todo : job'[r] = [job[r] EXCEPT !.todo = todo]
      BY <1>5, CollectEffect
    <2>2. ~ job'[r].ok \/ job'[r].ok = job[r].ok
      BY <1>0, <2>1
    <2>3. QED
      BY <1>1, <2>1, <2>2, ImageOfMoved DEF Keeps, FinishPlaces, PackagedPlaces
  <1>6. CASE UploadArtifact(r)
    <2>1. files' = files /\ pc'[r] = "upload" /\ pc[r] = "upload" /\ job'[r].ok = job[r].ok
      BY <1>0, <1>6, UploadEffect
    <2>2. QED
      BY <1>1, <2>1, ImageOfMoved DEF Keeps, FinishPlaces, PackagedPlaces
  <1>7. CASE UploadsDone(r)
    <2>1. /\ files' = files /\ pc[r] = "upload"
          /\ ~ job'[r].ok \/ job'[r] = [job[r] EXCEPT !.at = @ + 1]
      BY <1>7, UploadsDoneEffect
    <2>2. [job[r] EXCEPT !.at = @ + 1].ok = job[r].ok
      BY <1>0 DEF Job
    <2>3. QED
      BY <1>1, <2>1, <2>2, ImageOfMoved DEF Keeps, FinishPlaces, PackagedPlaces
  <1>8. CASE \E s \in Stages[r] : Trigger(r, s)
    <2>1. files' = files /\ pc'[r] = "clean"
      BY <1>8, TriggerEffect
    <2>2. QED
      BY <1>1, <2>1, ImageOfMoved DEF Keeps, FinishPlaces, PackagedPlaces
  <1>9. QED
    BY <1>2, <1>3, <1>4, <1>5, <1>6, <1>7, <1>8 DEF Closing, FinishStep

(* Bitbucket is told SUCCESSFUL only of a run none of whose tasks failed,  *)
(* and which has therefore packaged.                                       *)
LEMMA GreenStays ==
  ASSUME TypeInv, ImageInv, ImagesGrow, UNCHANGED <<status, succeeded>>
  PROVE  GreenCommitBuilt'
  BY DEF ImageInv, GreenCommitBuilt, ImagesGrow

LEMMA GreenStatus ==
  ASSUME TypeInv, ImageInv, NEW r \in Repos, SetBuildStatus(r)
  PROVE  GreenCommitBuilt'
  <1>1. /\ pc[r] = "finish" /\ OwnCommit(r) \in Commits
        /\ status' = [status EXCEPT ![OwnCommit(r)] = BitbucketBuildStatus(r)]
        /\ succeeded' = IF job[r].ok THEN succeeded \cup {OwnCommit(r)} ELSE succeeded
        /\ image' = image
    BY StatusEffect
  <1>2. /\ status'[OwnCommit(r)] = BitbucketBuildStatus(r)
        /\ \A c \in Commits \ {OwnCommit(r)} : status'[c] = status[c]
    BY <1>1 DEF TypeInv, TypeOK, ServersTyped
  <1>3. RepoOf[OwnCommit(r)] = r
    BY <1>1, WorkspaceAssumption DEF TypeInv, TypeOK, WorkspacesTyped, OwnCommit
  <1>4. BitbucketBuildStatus(r) = "SUCCESSFUL" => job[r].ok
    BY DEF BitbucketBuildStatus, TasksSuccessful
  <1>5. job[r].ok /\ "package" \in Tasks[r] => image[OwnCommit(r)] # 0
    BY <1>1 DEF ImageInv, ImageOf, Packaged, PackagedPlaces, FinishPlaces
  <1>6. QED
    BY <1>1, <1>2, <1>3, <1>4, <1>5 DEF ImageInv, GreenCommitBuilt

LEMMA GreenCheckout ==
  ASSUME TypeInv, ImageInv, NEW r \in Repos, CheckoutAndAssembleContext(r)
  PROVE  GreenCommitBuilt'
  <1>1. UNCHANGED <<image, succeeded>>
    BY CheckoutEffect
  <1>2. \/ status' = status
        \/ status' = [status EXCEPT ![Revision(r)] = "INPROGRESS"]
    BY DEF CheckoutAndAssembleContext, BuildStatusCreate
  <1>3. \A c \in Commits : status'[c] = "SUCCESSFUL" => status[c] = "SUCCESSFUL"
    BY <1>2 DEF TypeInv, TypeOK, ServersTyped
  <1>4. QED
    BY <1>1, <1>3 DEF ImageInv, GreenCommitBuilt

LEMMA AssetUploaded ==
  ASSUME TypeInv, CertInv, ImageInv, NEW r \in Repos, UploadArtifact(r)
  PROVE  AssetsCurrent'
  <1> DEFINE new(f) == [store |-> TargetRepository(r), commit |-> head[r][Here(r)],
                        folder |-> ArtifactFolder(r), file |-> f]
  <1>1. PICK f \in job[r].todo : Upload(new(f))
    BY UploadEffect
  <1>2. pc[r] = "upload" /\ Here(r) \in Repos /\ UNCHANGED <<image, misread>>
    BY UploadEffect
  <1>3. f \in files[r][Here(r)]
    BY <1>2 DEF CertInv, CertOf, TodoFromFiles
  <1>4. Current(image, misread, new(f).commit, new(f).file)
    BY <1>2, <1>3 DEF ImageInv, ImageOf, FilesCurrent, ImageCurrent
  <1>5. \A a \in assets' : a \in assets \/ a = new(f)
    BY <1>1 DEF Upload
  <1>6. \A a \in assets' : Current(image, misread, a.commit, a.file)
    BY <1>4, <1>5 DEF ImageInv, AssetsCurrent, ImageCurrent
  <1>7. QED
    BY <1>2, <1>6 DEF AssetsCurrent, ImageCurrent

LEMMA ImageNext ==
  ASSUME TypeInv, CertInv, ImageInv, [Next]_vars
  PROVE  ImageInv'
  <1>0. AssetsCurrent /\ GreenCommitBuilt /\ \A q \in Repos : ImageOf(q)
    BY DEF ImageInv
  <1>1. ASSUME NEW r \in Repos, Others(r), UNCHANGED <<image, misread>>,
               AssetsCurrent', GreenCommitBuilt', ImageOf(r)'
        PROVE  ImageInv'
    <2>1. ASSUME NEW q \in Repos \ {r} PROVE ImageOf(q)'
      BY <1>0, <1>1, ImageOfMoved DEF Others, Keeps
    <2>2. QED
      BY <1>1, <2>1 DEF ImageInv
  <1>2. ASSUME UNCHANGED <<image, misread>> PROVE ImagesGrow
    BY <1>2 DEF ImagesGrow
  <1>3. ASSUME NEW r \in Repos, StartStep(r) PROVE ImageInv'
    <2>1. Others(r) /\ UNCHANGED <<image, misread, assets, succeeded>>
      BY <1>3, CleanEffect, CheckoutEffect, DownloadEffect DEF StartStep
    <2>2. GreenCommitBuilt'
      <3>1. CASE CheckoutAndAssembleContext(r)
        BY <3>1, GreenCheckout
      <3>2. CASE ~ CheckoutAndAssembleContext(r)
        <4>1. status' = status
          BY <1>3, <3>2, CleanEffect, DownloadEffect DEF StartStep
        <4>2. QED
          BY <1>2, <2>1, <4>1, GreenStays
      <3>3. QED
        BY <3>1, <3>2
    <2>3. AssetsCurrent'
      BY <1>0, <1>2, <2>1, AssetsStayCurrent
    <2>4. QED
      BY <1>1, <1>3, <2>1, <2>2, <2>3, ImageStart
  <1>4. ASSUME NEW r \in Repos, BuildStep(r) \/ DeployStep(r) PROVE ImageInv'
    <2>1. Others(r) /\ UNCHANGED <<image, misread, assets, status, succeeded>>
      BY <1>4, BuildEffect, DeployEffect
    <2>2. GreenCommitBuilt' /\ AssetsCurrent'
      BY <1>0, <1>2, <2>1, GreenStays, AssetsStayCurrent
    <2>3. ImageOf(r)'
      BY <1>0, <1>4, ImageBuild, ImageDeploy
    <2>4. QED
      BY <1>1, <2>1, <2>2, <2>3
  <1>5. ASSUME NEW r \in Repos, PackageStep(r) PROVE ImageInv'
    <2>1. UNCHANGED <<assets, status, succeeded>>
      BY <1>5, PackageEffect
    <2>2. ImageOf(r)' /\ ImagesGrow
      BY <1>0, <1>5, ImagePackage
    <2>3. \A q \in Repos \ {r} : ImageOf(q)'
      BY <1>0, <1>5, ImageOthers
    <2>4. GreenCommitBuilt' /\ AssetsCurrent'
      BY <1>0, <2>1, <2>2, GreenStays, AssetsStayCurrent
    <2>5. QED
      BY <2>2, <2>3, <2>4 DEF ImageInv
  <1>6. ASSUME NEW r \in Repos, Closing(r) PROVE ImageInv'
    <2>1. Others(r) /\ UNCHANGED <<image, misread>> /\ ImageOf(r)'
      BY <1>0, <1>6, ClosingEffect, ImageClosing
    <2>2. CASE SetBuildStatus(r)
      <3>1. assets' = assets
        BY <2>2, StatusEffect
      <3>2. QED
        BY <1>0, <1>1, <1>2, <2>1, <2>2, <3>1, GreenStatus, AssetsStayCurrent
    <2>3. CASE UploadArtifact(r)
      <3>1. UNCHANGED <<status, succeeded>>
        BY <2>3, UploadEffect
      <3>2. QED
        BY <1>1, <1>2, <2>1, <2>3, <3>1, GreenStays, AssetUploaded
    <2>4. CASE ~ SetBuildStatus(r) /\ ~ UploadArtifact(r)
      <3>1. UNCHANGED <<assets, status, succeeded>>
        BY <1>6, <2>4, StopEffect, RunArtifactEffect, CollectEffect, UploadsDoneEffect,
           TriggerEffect DEF Closing, FinishStep
      <3>2. QED
        BY <1>0, <1>1, <1>2, <2>1, <3>1, GreenStays, AssetsStayCurrent
    <2>5. QED
      BY <2>2, <2>3, <2>4
  <1>7. CASE Around
    <2>1. UNCHANGED <<pc, job, head, files, image, misread, assets, status, succeeded>>
      BY <1>7 DEF Around
    <2>2. GreenCommitBuilt' /\ AssetsCurrent'
      BY <1>0, <1>2, <2>1, GreenStays, AssetsStayCurrent
    <2>3. ASSUME NEW q \in Repos PROVE ImageOf(q)'
      BY <1>0, <2>1, ImageOfMoved DEF Keeps
    <2>4. QED
      BY <2>2, <2>3 DEF ImageInv
  <1>8. QED
    BY <1>3, <1>4, <1>5, <1>6, <1>7, Sorts DEF TaskStep

LEMMA ImagesCorrect == Spec => []ImageInv
  <1>1. Init => ImageInv
    <2> SUFFICES ASSUME Init PROVE ImageInv
      OBVIOUS
    <2>1. AssetsCurrent /\ GreenCommitBuilt
      BY DEF Init, AssetsCurrent, GreenCommitBuilt
    <2>2. ASSUME NEW r \in Repos PROVE ImageOf(r)
      BY DEF Init, ImageOf, FilesCurrent, PushPending, JustPushed, Packaged, PackagedPlaces,
             FinishPlaces
    <2>3. QED
      BY <2>1, <2>2 DEF ImageInv
  <1>2. QED
    BY <1>1, Invariant, ImageNext, PTL DEF Spec

(* Whatever runs failed after their push, were repeated or overlapped, the *)
(* digest that an artifact in Nexus records is that of the image in the    *)
(* registry, as long as no inspection took an existing image for missing.  *)
THEOREM DigestsCorrect == Spec => []RecordedDigestCurrent
  <1>1. ImageInv => RecordedDigestCurrent
    BY DEF ImageInv, AssetsCurrent, ImageCurrent, Current, RecordedDigestCurrent
  <1>2. QED
    BY <1>1, ImagesCorrect, PTL

(* A commit that Bitbucket shows as successful has passed a run, and has   *)
(* an image if its pipeline packages one.                                  *)
THEOREM GreenCorrect == Spec => []GreenCommitBuilt
  <1>1. ImageInv => GreenCommitBuilt
    BY DEF ImageInv
  <1>2. QED
    BY <1>1, ImagesCorrect, PTL

-----------------------------------------------------------------------------
(* Deployments. *)

\* A namespace gets no image but those that the registry has.
SpacesKept ==
  \A s \in Environments : \A c \in Commits :
    spaces'[s][c] = spaces[s][c] \/ spaces'[s][c] = image[c]

(* An image that was copied is that of the artifact; when the tag is       *)
(* copied again, whoever does it, it still is.                             *)
LEMMA CopiedStays ==
  ASSUME TypeInv, ImageInv, SpacesKept, misread \subseteq misread',
         NEW r \in Repos, NEW p \in Repos, Copied(r, p), Stage(r) \in Environments,
         job'[r].stage = job[r].stage, head'[r] = head[r], Keeps(r, "image")
  PROVE  Copied(r, p)'
  <1> DEFINE c == head[r][p]
  <1>1. Stage(r)' = Stage(r) /\ head'[r][p] = c
    BY DEF Stage
  <1>2. ASSUME c \notin misread', Stage(r) \notin RegistryHosts,
               NEW f \in files'[r][p], f.kind = "image"
        PROVE  spaces'[Stage(r)][c] = f.value
    <2>1. f \in files[r][p] /\ f \in Images(r, p)
      BY <1>2 DEF Keeps, Images
    <2>2. Current(image, misread, c, f)
      BY <2>1 DEF ImageInv, ImageOf, FilesCurrent, ImageCurrent
    <2>3. c \in Commits /\ f.value \in {image[c], Garbled} /\ c \notin misread
      BY <1>2, <2>2 DEF Current
    <2>4. spaces[Stage(r)][c] = f.value
      BY <1>2, <2>1, <2>3 DEF Copied
    <2>5. spaces[Stage(r)][c] \in Nat
      BY <2>3 DEF TypeInv, TypeOK, ServersTyped, Digests, Destinations
    <2>6. f.value = image[c]
      BY <2>3, <2>4, <2>5 DEF Garbled
    <2>7. QED
      BY <2>3, <2>4, <2>6 DEF SpacesKept
  <1>3. QED
    BY <1>1, <1>2 DEF Copied, Images

LEMMA FilesOfSame ==
  ASSUME TypeInv, NEW q \in Repos, FilesOfCheckouts(q),
         \A p \in Repos \ {q} : files'[q][p] = files[q][p]
  PROVE  FilesOfCheckouts(q)'
  <1>1. 1 \in DOMAIN Checkouts[q] /\ Checkouts[q][1] = q
    BY HereType DEF TypeInv, TypeOK
  <1>2. QED
    BY <1>1 DEF FilesOfCheckouts

\* Nothing is claimed of the deployment of this run.
LEMMA DeployOver ==
  ASSUME NEW q \in Repos, FilesOfCheckouts(q)', pc'[q] # "deploy" \/ job'[q].at = 1,
         ~ job'[q].ok \/ "deploy" \notin Tasks[q] \/ pc'[q] \notin CopiedPlaces
  PROVE  DeployOf(q)'
  <1>1. CopiedSoFar(q)'
    BY DEF CopiedSoFar
  <1>2. Deployed(q)'
    BY DEF Deployed, CopiedPlaces
  <1>3. QED
    BY <1>1, <1>2 DEF DeployOf

\* What was claimed is claimed still.
LEMMA DeployMoved ==
  ASSUME TypeInv, ImageInv, SpacesKept, misread \subseteq misread',
         NEW q \in Repos, DeployOf(q), head'[q] = head[q], Keeps(q, "image"),
         \A p \in Repos \ {q} : files'[q][p] = files[q][p],
         release'[q] = release[q], job'[q].stage = job[q].stage, job'[q].ok => job[q].ok,
         \/ pc'[q] = pc[q] /\ (pc[q] = "deploy" => job'[q].at = job[q].at)
         \/ pc[q] = "diff" /\ pc'[q] = "upgrade"
         \/ pc[q] \in FinishPlaces /\ pc'[q] \in FinishPlaces
  PROVE  DeployOf(q)'
  <1>1. FilesOfCheckouts(q)'
    BY FilesOfSame DEF DeployOf
  <1>2. /\ Stage(q)' = Stage(q) /\ Chart(q)' = Chart(q)
        /\ Stage(q) # "none" => Stage(q) \in Environments
    BY DEF Stage, Chart, PackagedChart, TypeInv, TypeOK, RunsTyped, Job
  <1>3. ASSUME Stage(q) # "none", NEW p \in Repos, Copied(q, p) PROVE Copied(q, p)'
    BY <1>2, <1>3, CopiedStays
  <1>4. CopiedSoFar(q)'
    <2> SUFFICES ASSUME pc'[q] = "deploy", Stage(q) # "none", NEW i \in 1..(job'[q].at - 1)
                 PROVE  Copied(q, Checkouts[q][i])'
      BY <1>2 DEF CopiedSoFar
    <2>1. pc[q] = "deploy" /\ job'[q].at = job[q].at
      BY DEF FinishPlaces
    <2>2. Copied(q, Checkouts[q][i])
      BY <2>1 DEF DeployOf, CopiedSoFar
    <2>3. Checkouts[q][i] \in Repos
      <3>1. job[q].at \in DOMAIN Checkouts[q] /\ Checkouts[q] \in Seq(Repos)
        BY WorkspaceAssumption DEF TypeInv, TypeOK, RunsTyped
      <3>2. i \in DOMAIN Checkouts[q]
        BY <2>1, <3>1
      <3>3. QED
        BY <3>1, <3>2
    <2>4. QED
      BY <1>3, <2>2, <2>3
  <1>5. Deployed(q)'
    <2> SUFFICES ASSUME job'[q].ok, "deploy" \in Tasks[q], Stage(q) # "none"
                 PROVE  /\ pc'[q] \in CopiedPlaces => \A p \in Repos : Copied(q, p)'
                        /\ pc'[q] \in FinishPlaces => release'[q][Stage(q)].chart = Chart(q)
      BY <1>2 DEF Deployed
    <2>1. job[q].ok
      OBVIOUS
    <2>2. pc'[q] \in CopiedPlaces => pc[q] \in CopiedPlaces
      BY DEF CopiedPlaces
    <2>3. pc'[q] \in FinishPlaces => pc[q] \in FinishPlaces
      BY DEF FinishPlaces
    <2>4. pc'[q] \in CopiedPlaces => \A p \in Repos : Copied(q, p)'
      BY <1>3, <2>1, <2>2 DEF DeployOf, Deployed
    <2>5. pc'[q] \in FinishPlaces => release'[q][Stage(q)].chart = Chart(q)
      BY <2>1, <2>3 DEF DeployOf, Deployed
    <2>6. QED
      BY <2>4, <2>5
  <1>6. QED
    BY <1>1, <1>4, <1>5 DEF DeployOf

(* Images are copied checkout by checkout; what cannot be read ends the    *)
(* task before anything is copied of that checkout.                        *)
LEMMA DeployCopy ==
  ASSUME TypeInv, CertInv, ImageInv, NEW r \in Repos, DeployOf(r), CopyImages(r)
  PROVE  DeployOf(r)' /\ SpacesKept
  <1> DEFINE c == head[r][Here(r)]
             s == Stage(r)
             I == Images(r, Here(r))
  <1>0. RunsTyped /\ WorkspacesTyped /\ ServersTyped
    BY DEF TypeInv, TypeOK
  <1>1. /\ pc[r] = "deploy" /\ s \in Environments
        /\ UNCHANGED <<head, files, image, misread>>
    BY <1>0 DEF CopyImages, At, Stage, RunsTyped, Job
  <1>2. FilesOfCheckouts(r)'
    BY <1>1, FilesOfSame DEF DeployOf
  <1>3. PICK p \in Repos : p = Here(r)
    BY <1>0, HereType
  <1>4. CASE \E f \in I : f.value = Garbled \/ image[c] = 0
    <2>1. Fatal(r) /\ spaces' = spaces
      BY <1>4 DEF CopyImages, CollectImageDigests
    <2>2. pc'[r] = "finish" /\ ~ job'[r].ok
      BY <1>0, <2>1 DEF Fatal, JobOf, RunsTyped
    <2>3. QED
      BY <1>2, <2>1, <2>2, DeployOver DEF SpacesKept
  <1>5. CASE ~ \E f \in I : f.value = Garbled \/ image[c] = 0
    <2>1. /\ spaces' = IF I = {} THEN spaces ELSE [spaces EXCEPT ![s][Destination(r)] = image[c]]
          /\ IF LastHere(r) THEN Proceed(r, "diff")
             ELSE job' = [job EXCEPT ![r].at = @ + 1] /\ UNCHANGED pc
      BY <1>5 DEF CopyImages, CollectImageDigests
    <2>2. \A f \in I : f.value # Garbled /\ Current(image, misread, c, f) /\ f.kind = "image"
      BY <1>3, <1>5 DEF Images, ImageInv, ImageOf, FilesCurrent, ImageCurrent
    <2>3. I # {} => c \in Commits
      BY <2>2 DEF Current
    <2>4. SpacesKept
      <3>1. Destination(r) = c \/ Destination(r) \in Repos
        BY <1>3 DEF Destination
      <3>2. spaces \in [Environments -> [Destinations -> Digests]]
        BY <1>0 DEF ServersTyped
      <3>3. ASSUME NEW e \in Environments, NEW d \in Commits
            PROVE  spaces'[e][d] = spaces[e][d] \/ spaces'[e][d] = image[d]
        <4>1. d \in Destinations /\ (d = Destination(r) => d = c)
          BY <3>1, WorkspaceAssumption DEF Destinations
        <4>2. CASE I = {}
          BY <2>1, <4>2
        <4>3. CASE I # {}
          <5>1. spaces' = [spaces EXCEPT ![s][Destination(r)] = image[c]]
            BY <2>1, <4>3
          <5>2. CASE e = s /\ d = Destination(r)
            BY <1>1, <3>2, <4>1, <5>1, <5>2
          <5>3. CASE ~ (e = s /\ d = Destination(r))
            BY <1>1, <3>2, <4>1, <5>1, <5>3
          <5>4. QED
            BY <5>2, <5>3
        <4>4. QED
          BY <4>2, <4>3
      <3>4. QED
        BY <3>3 DEF SpacesKept
    <2>5. Stage(r)' = s /\ job'[r].stage = s /\ \A q \in Repos : Images(r, q)' = Images(r, q)
      <3>1. \/ job' = [job EXCEPT ![r].at = 1]
            \/ job' = [job EXCEPT ![r].at = @ + 1]
        BY <2>1 DEF Proceed
      <3>2. \/ job'[r] = [job[r] EXCEPT !.at = 1]
            \/ job'[r] = [job[r] EXCEPT !.at = @ + 1]
        BY <1>0, <3>1 DEF RunsTyped
      <3>3. job[r] \in Job
        BY <1>0 DEF RunsTyped
      <3>4. job'[r].stage = job[r].stage
        BY <3>2, <3>3 DEF Job
      <3>5. QED
        BY <1>1, <3>4 DEF Stage, Images
    <2>6. Copied(r, p)'
      <3> SUFFICES ASSUME c \notin misread, s \notin RegistryHosts, NEW f \in I
                   PROVE  spaces'[s][c] = f.value
        BY <1>1, <1>3, <2>5 DEF Copied
      <3>1. f.value = image[c] /\ c \in Commits
        BY <2>2 DEF Current
      <3>2. spaces'[s][c] = image[c]
        <4>1. spaces' = [spaces EXCEPT ![s][c] = image[c]] /\ c \in Destinations
          BY <2>1, <3>1 DEF Destination, Destinations
        <4>2. QED
          BY <1>0, <1>1, <4>1 DEF ServersTyped
      <3>3. QED
        BY <3>1, <3>2
    <2>7. \A i \in 1..(job[r].at - 1) : Copied(r, Checkouts[r][i])'
      <3> SUFFICES ASSUME NEW i \in 1..(job[r].at - 1) PROVE Copied(r, Checkouts[r][i])'
        OBVIOUS
      <3>1. Copied(r, Checkouts[r][i])
        BY <1>1 DEF DeployOf, CopiedSoFar, Environments
      <3>2. i \in DOMAIN Checkouts[r]
        BY <1>0, HereType
      <3>3. Checkouts[r][i] \in Repos
        BY <3>2, WorkspaceAssumption
      <3>4. Keeps(r, "image")
        BY <1>1 DEF Keeps
      <3>5. QED
        BY <1>1, <2>4, <2>5, <3>1, <3>3, <3>4, CopiedStays DEF Stage
    <2>8. CASE LastHere(r)
      <3>1. pc'[r] = "diff"
        BY <1>0, <2>1, <2>8 DEF Proceed, Goto, RunsTyped
      <3>2. ASSUME NEW q \in Repos PROVE Copied(r, q)'
        <4>1. CASE files[r][q] = {}
          BY <1>1, <4>1 DEF Copied, Images
        <4>2. CASE files[r][q] # {}
          <5>1. PICK i \in DOMAIN Checkouts[r] : Checkouts[r][i] = q
            BY <4>2 DEF DeployOf, FilesOfCheckouts
          <5>2. i \in 1..job[r].at /\ job[r].at \in Nat
            BY <1>0, <2>8, <5>1, HereType DEF LastHere
          <5>3. i \in 1..(job[r].at - 1) \/ i = job[r].at
            BY <5>2
          <5>4. QED
            BY <1>3, <2>6, <2>7, <5>1, <5>3 DEF Here
        <4>3. QED
          BY <4>1, <4>2
      <3>3. CopiedSoFar(r)' /\ Deployed(r)'
        BY <3>1, <3>2 DEF CopiedSoFar, Deployed, FinishPlaces
      <3>4. QED
        BY <1>2, <2>4, <3>3 DEF DeployOf
    <2>9. CASE ~ LastHere(r)
      <3>1. pc'[r] = "deploy" /\ job'[r].at = job[r].at + 1
        <4>1. pc' = pc /\ job' = [job EXCEPT ![r].at = @ + 1]
          BY <2>1, <2>9
        <4>2. job'[r] = [job[r] EXCEPT !.at = @ + 1] /\ job[r] \in Job
          BY <1>0, <4>1 DEF RunsTyped
        <4>3. job'[r].at = job[r].at + 1
          BY <4>2 DEF Job
        <4>4. QED
          BY <1>1, <4>1, <4>3
      <3>2. ASSUME NEW i \in 1..(job'[r].at - 1) PROVE Copied(r, Checkouts[r][i])'
        <4>1. job[r].at \in Nat
          BY <1>0, HereType
        <4>2. i \in 1..(job[r].at - 1) \/ i = job[r].at
          BY <3>1, <4>1
        <4>3. QED
          BY <1>3, <2>6, <2>7, <4>2 DEF Here
      <3>3. CopiedSoFar(r)' /\ Deployed(r)'
        BY <3>1, <3>2 DEF CopiedSoFar, Deployed, CopiedPlaces, FinishPlaces
      <3>4. QED
        BY <1>2, <2>4, <3>3 DEF DeployOf
    <2>10. QED
      BY <2>8, <2>9
  <1>6. QED
    BY <1>4, <1>5

LEMMA DeployRelease ==
  ASSUME TypeInv, CertInv, ImageInv, NEW r \in Repos, DeployOf(r),
         DeployStep(r), ~ CopyImages(r)
  PROVE  DeployOf(r)' /\ SpacesKept
  <1>0. RunsTyped /\ WorkspacesTyped /\ ServersTyped
    BY DEF TypeInv, TypeOK
  <1>1. /\ UNCHANGED <<head, misread>> /\ Keeps(r, "image")
        /\ \A q \in Repos \ {r} : files'[r][q] = files[r][q]
    BY DeployEffect
  <1>2. FilesOfCheckouts(r)'
    BY <1>1, FilesOfSame DEF DeployOf
  <1>3. spaces' = spaces
    BY DEF DeployStep, SkipDeployment, HelmDiff, HelmDiffFails, HelmUpgrade, HelmUpgradeFails
  <1>4. SpacesKept
    BY <1>3 DEF SpacesKept
  <1>5. ASSUME NEW place, Proceed(r, place)
        PROVE  /\ pc'[r] = place /\ job'[r].at = 1 /\ job'[r].ok = job[r].ok
               /\ job'[r].stage = job[r].stage
    BY <1>0, <1>5 DEF Proceed, Goto, RunsTyped, Job
  <1>6. CASE SkipDeployment(r)
    <2>1. Stage(r) = "none" /\ Proceed(r, "finish")
      BY <1>6 DEF SkipDeployment
    <2>2. pc'[r] = "finish" /\ Stage(r)' = "none"
      BY <1>5, <2>1 DEF Stage
    <2>3. QED
      BY <1>2, <1>4, <2>2 DEF DeployOf, CopiedSoFar, Deployed
  <1>7. CASE (HelmDiff(r) /\ ~ NoDiff(r)) \/ HelmDiffFails(r)
    <2>1. pc[r] = "diff" /\ Proceed(r, "upgrade") /\ release' = release
      BY <1>7 DEF HelmDiff, HelmDiffFails, At
    <2>2. pc'[r] = "upgrade" /\ job'[r].ok = job[r].ok /\ job'[r].stage = job[r].stage
      BY <1>5, <2>1
    <2>3. QED
      BY <1>1, <1>4, <2>1, <2>2, DeployMoved
  <1>8. ASSUME pc[r] \in {"diff", "upgrade"}, Proceed(r, "finish"),
               release'[r][Stage(r)].chart = Chart(r)
        PROVE  DeployOf(r)'
    <2>1. /\ pc'[r] = "finish" /\ job'[r].ok = job[r].ok /\ job'[r].stage = job[r].stage
          /\ Stage(r)' = Stage(r) /\ Chart(r)' = Chart(r)
      BY <1>1, <1>5, <1>8 DEF Stage, Chart, PackagedChart
    <2>2. Stage(r) # "none" => Stage(r) \in Environments
      BY <1>0 DEF RunsTyped, Job, Stage
    <2>3. ASSUME job[r].ok, "deploy" \in Tasks[r], Stage(r) # "none", NEW q \in Repos
          PROVE  Copied(r, q)'
      <3>1. Copied(r, q)
        BY <1>8, <2>3 DEF DeployOf, Deployed, CopiedPlaces
      <3>2. QED
        BY <1>1, <1>4, <2>1, <2>2, <2>3, <3>1, CopiedStays
    <2>4. Deployed(r)'
      BY <1>8, <2>1, <2>3 DEF Deployed
    <2>5. CopiedSoFar(r)'
      BY <2>1 DEF CopiedSoFar
    <2>6. QED
      BY <1>2, <2>4, <2>5 DEF DeployOf
  <1>9. CASE HelmDiff(r) /\ NoDiff(r)
    <2>1. /\ pc[r] = "diff" /\ Proceed(r, "finish") /\ release' = release
          /\ release[r][Stage(r)].chart = Chart(r)
      BY <1>9 DEF HelmDiff, At, NoDiff
    <2>2. QED
      BY <1>4, <1>8, <2>1
  <1>10. CASE HelmUpgrade(r)
    <2>1. /\ pc[r] = "upgrade" /\ Proceed(r, "finish")
          /\ release' = [release EXCEPT ![r][Stage(r)] = [chart |-> Chart(r), deployed |-> TRUE]]
      BY <1>10 DEF HelmUpgrade, At, Release
    <2>2. Stage(r) \in Environments
      BY <2>1 DEF CertInv, CertOf, StageAtDeploy
    <2>3. release'[r][Stage(r)].chart = Chart(r)
      BY <1>0, <2>1, <2>2 DEF ServersTyped
    <2>4. QED
      BY <1>4, <1>8, <2>1, <2>3
  <1>11. CASE HelmUpgradeFails(r)
    <2>1. Fatal(r)
      BY <1>11 DEF HelmUpgradeFails
    <2>2. pc'[r] = "finish" /\ ~ job'[r].ok
      BY <1>0, <2>1 DEF Fatal, JobOf, RunsTyped
    <2>3. QED
      BY <1>2, <1>4, <2>2, DeployOver
  <1>12. QED
    BY <1>6, <1>7, <1>9, <1>10, <1>11 DEF DeployStep

\* A run comes to its deployment with the first checkout.
LEMMA DeployBefore ==
  ASSUME TypeInv, NEW r \in Repos, DeployOf(r), BuildStep(r) \/ PackageStep(r)
  PROVE  DeployOf(r)'
  <1>0. RunsTyped
    BY DEF TypeInv, TypeOK
  <1>1. FilesOfCheckouts(r)'
    <2>1. \A q \in Repos \ {r} : files'[r][q] = files[r][q]
      BY BuildEffect, PackageEffect
    <2>2. QED
      BY <2>1, FilesOfSame DEF DeployOf
  <1>2. \/ pc'[r] \in {"save", "stamp", "scan", "analysis", "gate", "push", "aqua",
                       AfterBuild(r), AfterPackage(r)}
        \/ pc'[r] = "finish" /\ ~ job'[r].ok
    BY BuildEffect, PackageEffect DEF GoesOn
  <1>3. pc'[r] # "deploy" \/ job'[r].at = 1
    <2>1. CASE /\ ~ CopyBuildIfCached(r) /\ ~ Build(r) /\ ~ AwaitComputeEngineTask(r)
               /\ ~ CheckQualityGate(r) /\ ~ ReuseImage(r) /\ ~ AquaScan(r)
      <3>1. \/ Goto(r, "stamp") \/ Goto(r, "scan") \/ Goto(r, "analysis") \/ Goto(r, "push")
            \/ Goto(r, "aqua") \/ Fatal(r)
        BY <2>1 DEF BuildStep, PackageStep, BuildFails, BeginCacheBuild, EndCacheBuild, Scan,
                    NoImage, InspectionFails, BuildAndPush, AquaScanFails
      <3>2. QED
        BY <1>0, <3>1 DEF Goto, Fatal, RunsTyped
    <2>2. CASE \/ CopyBuildIfCached(r) \/ Build(r) \/ AwaitComputeEngineTask(r)
               \/ CheckQualityGate(r) \/ ReuseImage(r) \/ AquaScan(r)
      <3>1. (\E place : Proceed(r, place)) \/ Fatal(r)
        BY <2>2 DEF CopyBuildIfCached, Build, AwaitComputeEngineTask, CheckQualityGate, ReuseImage,
                    AquaScan
      <3>2. CASE Fatal(r)
        BY <1>0, <3>2 DEF Fatal, RunsTyped
      <3>3. CASE \E place : Proceed(r, place)
        <4>1. job' = [job EXCEPT ![r].at = 1]
          BY <3>3 DEF Proceed
        <4>2. job'[r] = [job[r] EXCEPT !.at = 1] /\ job[r] \in Job
          BY <1>0, <4>1 DEF RunsTyped
        <4>3. QED
          BY <4>2 DEF Job
      <3>4. QED
        BY <3>1, <3>2, <3>3
    <2>3. QED
      BY <2>1, <2>2
  <1>4. ~ job'[r].ok \/ "deploy" \notin Tasks[r] \/ pc'[r] \notin CopiedPlaces
    BY <1>2 DEF AfterBuild, AfterPackage, CopiedPlaces, FinishPlaces
  <1>5. QED
    BY <1>1, <1>3, <1>4, DeployOver

LEMMA DeployStart ==
  ASSUME TypeInv, CertInv, NEW r \in Repos, DeployOf(r), StartStep(r)
  PROVE  DeployOf(r)'
  <1>0. RunsTyped
    BY DEF TypeInv, TypeOK
  <1>1. CASE Clean(r)
    <2>1. pc'[r] = "checkout" /\ \A q \in Repos : files'[r][q] = {}
      BY <1>1, CleanEffect
    <2>2. FilesOfCheckouts(r)'
      BY <2>1 DEF FilesOfCheckouts
    <2>3. QED
      BY <2>1, <2>2, DeployOver DEF CopiedPlaces, FinishPlaces
  <1>2. CASE CheckoutAndAssembleContext(r)
    <2>1. files' = files /\ pc'[r] \in {"checkout", "download"}
      BY <1>2, CheckoutEffect
    <2>2. FilesOfCheckouts(r)'
      BY <2>1 DEF DeployOf, FilesOfCheckouts
    <2>3. QED
      BY <2>1, <2>2, DeployOver DEF CopiedPlaces, FinishPlaces
  <1>3. CASE DownloadArtifacts(r) \/ DownloadGarbled(r)
    <2>1. /\ Here(r) \in Repos
          /\ \A q \in Repos \ {Here(r)} : files'[r][q] = files[r][q]
          /\ \/ pc'[r] = "finish" /\ ~ job'[r].ok
             \/ pc'[r] = AfterStart(r) /\ job'[r] = [job[r] EXCEPT !.at = 1]
             \/ pc'[r] = "download"
      BY <1>3, DownloadEffect
    <2>2. FilesOfCheckouts(r)'
      <3>1. job[r].at \in DOMAIN Checkouts[r] /\ Checkouts[r][job[r].at] = Here(r)
        BY <1>0, HereType DEF Here
      <3>2. QED
        BY <2>1, <3>1 DEF DeployOf, FilesOfCheckouts
    <2>3. pc'[r] # "deploy" \/ job'[r].at = 1
      <3>1. job[r] \in Job
        BY <1>0 DEF RunsTyped
      <3>2. [job[r] EXCEPT !.at = 1].at = 1
        BY <3>1 DEF Job
      <3>3. QED
        BY <2>1, <3>2
    <2>4. ~ job'[r].ok \/ "deploy" \notin Tasks[r] \/ pc'[r] \notin CopiedPlaces
      BY <2>1 DEF AfterStart, AfterBuild, AfterPackage, CopiedPlaces, FinishPlaces
    <2>5. QED
      BY <2>2, <2>3, <2>4, DeployOver
  <1>4. QED
    BY <1>1, <1>2, <1>3 DEF StartStep

LEMMA DeployClosing ==
  ASSUME TypeInv, ImageInv, NEW r \in Repos, DeployOf(r), Closing(r), SpacesKept
  PROVE  DeployOf(r)'
  <1>0. job[r] \in Job
    BY DEF TypeInv, TypeOK, RunsTyped
  <1>1. UNCHANGED <<head, misread, release>>
    BY ClosingEffect
  <1>2. ASSUME files' = files, pc'[r] # "deploy",
               ~ job'[r].ok \/ pc'[r] \notin CopiedPlaces
        PROVE  DeployOf(r)'
    <2>1. FilesOfCheckouts(r)'
      BY <1>2 DEF DeployOf, FilesOfCheckouts
    <2>2. QED
      BY <1>2, <2>1, DeployOver
  <1>3. ASSUME Keeps(r, "image"), \A q \in Repos \ {r} : files'[r][q] = files[r][q],
               job'[r].stage = job[r].stage, job'[r].ok = job[r].ok,
               pc[r] \in FinishPlaces, pc'[r] \in FinishPlaces
        PROVE  DeployOf(r)'
    BY <1>1, <1>3, DeployMoved
  <1>4. CASE NoContext(r) \/ TaskFails(r) \/ RunStops(r)
    <2>1. files' = files /\ ~ job'[r].ok /\ pc'[r] \in {"idle", "finish"}
      BY <1>4, StopEffect
    <2>2. QED
      BY <1>2, <2>1
  <1>5. CASE SetBuildStatus(r)
    <2>1. files' = files /\ job' = job /\ pc[r] = "finish" /\ pc'[r] = "archive"
      BY <1>5, StatusEffect
    <2>2. QED
      BY <1>3, <2>1 DEF Keeps, FinishPlaces
  <1>6. CASE CreatePipelineRunArtifact(r)
    <2> DEFINE new == {File("run", job[r].id, IF job[r].ok THEN Success ELSE Failure)}
    <2>1. /\ pc[r] = "archive" /\ pc'[r] = "collect" /\ job'[r] = [job[r] EXCEPT !.at = 1]
          /\ \A q \in Repos \ {r} : files'[r][q] = files[r][q]
          /\ files'[r][r] = Written(files[r][r], new)
      BY <1>6, RunArtifactEffect
    <2>2. Keeps(r, "image")
      BY <2>1 DEF Keeps, Written, File
    <2>3. job'[r].ok = job[r].ok /\ job'[r].stage = job[r].stage
      BY <1>0, <2>1 DEF Job
    <2>4. QED
      BY <1>3, <2>1, <2>2, <2>3 DEF FinishPlaces
  <1>7. CASE CollectArtifacts(r)
    <2>1. /\ files' = files /\ pc[r] = "collect"
          /\ \/ pc'[r] = "idle" /\ ~ job'[r].ok
             \/ pc'[r] = "upload" /\ \E todo : job'[r] = [job[r] EXCEPT !.todo = todo]
      BY <1>7, CollectEffect
    <2>2. CASE pc'[r] = "idle"
      BY <1>2, <2>1, <2>2 DEF CopiedPlaces, FinishPlaces
    <2>3. CASE pc'[r] = "upload"
      <3>1. PICK todo : job'[r] = [job[r] EXCEPT !.todo = todo]
        BY <2>1, <2>3
      <3>2. job'[r].ok = job[r].ok /\ job'[r].stage = job[r].stage
        BY <1>0, <3>1 DEF Job
      <3>3. QED
        BY <1>3, <2>1, <2>3, <3>2 DEF Keeps, FinishPlaces
    <2>4. QED
      BY <2>1, <2>2, <2>3
  <1>8. CASE UploadArtifact(r)
    <2>1. /\ files' = files /\ pc[r] = "upload" /\ pc'[r] = "upload"
          /\ \E f : job'[r] = [job[r] EXCEPT !.todo = @ \ {f}]
      BY <1>8, UploadEffect
    <2>2. job'[r].ok = job[r].ok /\ job'[r].stage = job[r].stage
      BY <1>0, <2>1 DEF Job
    <2>3. QED
      BY <1>3, <2>1, <2>2 DEF Keeps, FinishPlaces
  <1>9. CASE UploadsDone(r)
    <2>1. /\ files' = files /\ pc[r] = "upload"
          /\ \/ pc'[r] = "idle" /\ ~ job'[r].ok
             \/ pc'[r] = "collect" /\ job'[r] = [job[r] EXCEPT !.at = @ + 1]
      BY <1>9, UploadsDoneEffect
    <2>2. CASE pc'[r] = "idle"
      BY <1>2, <2>1, <2>2 DEF CopiedPlaces, FinishPlaces
    <2>3. CASE pc'[r] = "collect"
      <3>1. job'[r] = [job[r] EXCEPT !.at = @ + 1]
        BY <2>1, <2>3
      <3>2. job'[r].ok = job[r].ok /\ job'[r].stage = job[r].stage
        BY <1>0, <3>1 DEF Job
      <3>3. QED
        BY <1>3, <2>1, <2>3, <3>2 DEF Keeps, FinishPlaces
    <2>4. QED
      BY <2>1, <2>2, <2>3
  <1>10. CASE \E s \in Stages[r] : Trigger(r, s)
    <2>1. files' = files /\ pc'[r] = "clean"
      BY <1>10, TriggerEffect
    <2>2. QED
      BY <1>2, <2>1 DEF CopiedPlaces, FinishPlaces
  <1>11. QED
    BY <1>4, <1>5, <1>6, <1>7, <1>8, <1>9, <1>10 DEF Closing, FinishStep

LEMMA DeployNext ==
  ASSUME TypeInv, CertInv, ImageInv, DeployInv, [Next]_vars
  PROVE  DeployInv'
  <1>0. \A q \in Repos : DeployOf(q)
    BY DEF DeployInv
  <1>1. ASSUME NEW r \in Repos, Others(r), SpacesKept, misread \subseteq misread',
               \A q \in Repos \ {r} : release'[q] = release[q], DeployOf(r)'
        PROVE  DeployInv'
    <2>1. ASSUME NEW q \in Repos \ {r} PROVE DeployOf(q)'
      <3>1. /\ pc'[q] = pc[q] /\ job'[q] = job[q] /\ head'[q] = head[q]
            /\ files'[q] = files[q] /\ Keeps(q, "image")
        BY <1>1 DEF Others, Keeps
      <3>2. QED
        BY <1>0, <1>1, <3>1, DeployMoved
    <2>2. QED
      BY <1>1, <2>1 DEF DeployInv
  <1>2. ASSUME spaces' = spaces PROVE SpacesKept
    BY <1>2 DEF SpacesKept
  <1>3. ASSUME NEW r \in Repos, StartStep(r) PROVE DeployInv'
    <2>1. Others(r) /\ UNCHANGED <<misread, spaces, release>>
      BY <1>3, CleanEffect, CheckoutEffect, DownloadEffect DEF StartStep
    <2>2. QED
      BY <1>0, <1>1, <1>2, <1>3, <2>1, DeployStart
  <1>4. ASSUME NEW r \in Repos, BuildStep(r) \/ PackageStep(r) PROVE DeployInv'
    <2>1. Others(r) /\ UNCHANGED <<spaces, release>>
      BY <1>4, BuildEffect, PackageEffect
    <2>2. misread \subseteq misread'
      <3>1. CASE BuildStep(r)
        BY <3>1, BuildEffect
      <3>2. CASE PackageStep(r)
        BY <1>0, <3>2, ImagePackage DEF ImageInv, ImagesGrow
      <3>3. QED
        BY <1>4, <3>1, <3>2
    <2>3. DeployOf(r)'
      BY <1>0, <1>4, DeployBefore
    <2>4. QED
      BY <1>1, <1>2, <2>1, <2>2, <2>3
  <1>5. ASSUME NEW r \in Repos, DeployStep(r) PROVE DeployInv'
    <2>1. Others(r) /\ misread' = misread
      BY <1>5, DeployEffect
    <2>2. DeployOf(r)' /\ SpacesKept
      BY <1>0, <1>5, DeployCopy, DeployRelease
    <2>3. \A q \in Repos \ {r} : release'[q] = release[q]
      <3>1. release' = release \/ \E d : Release(r, d)
        BY <1>5 DEF DeployStep, SkipDeployment, CopyImages, HelmDiff, HelmDiffFails, HelmUpgrade,
                    HelmUpgradeFails
      <3>2. QED
        BY <3>1 DEF Release, TypeInv, TypeOK, ServersTyped
    <2>4. QED
      BY <1>1, <2>1, <2>2, <2>3
  <1>6. ASSUME NEW r \in Repos, Closing(r) PROVE DeployInv'
    <2>1. Others(r) /\ UNCHANGED <<misread, spaces, release>>
      BY <1>6, ClosingEffect
    <2>2. QED
      BY <1>0, <1>1, <1>2, <1>6, <2>1, DeployClosing
  <1>7. CASE Around
    <2>1. /\ UNCHANGED <<pc, job, head, files, misread, spaces, release>>
          /\ \A q \in Repos : Keeps(q, "image")
      BY <1>7 DEF Around, Keeps
    <2>2. ASSUME NEW q \in Repos PROVE DeployOf(q)'
      BY <1>0, <1>2, <2>1, DeployMoved
    <2>3. QED
      BY <2>2 DEF DeployInv
  <1>8. QED
    BY <1>3, <1>4, <1>5, <1>6, <1>7, Sorts DEF TaskStep

LEMMA DeploymentsCorrect == Spec => []DeployInv
  <1>1. Init => DeployInv
    <2> SUFFICES ASSUME Init, NEW r \in Repos PROVE DeployOf(r)
      BY DEF DeployInv
    <2>1. pc[r] = "idle" /\ \A q \in Repos : files[r][q] = {}
      BY DEF Init
    <2>2. QED
      BY <2>1 DEF DeployOf, CopiedSoFar, Deployed, FilesOfCheckouts, CopiedPlaces, FinishPlaces
  <1>2. QED
    BY <1>1, Invariant, ImagesCorrect, DeployNext, PTL DEF Spec

(* After the deployment of a run to an environment without a registryHost, *)
(* the namespace has for every checkout, under the commit that its chart   *)
(* asks for, the image that its artifact records, although images are      *)
(* copied by tag and other runs push, copy and deploy meanwhile.           *)
THEOREM ShippedCorrect == Spec => []ShippedAsRecorded
  <1>1. DeployInv => ShippedAsRecorded
    BY DEF DeployInv, DeployOf, Deployed, Copied, CopiedPlaces, ShippedAsRecorded, TasksDone,
           TagsCopied
  <1>2. QED
    BY <1>1, DeploymentsCorrect, PTL

(* ... and its release has the charts of all checkouts at their commits,   *)
(* also when the task found no difference and did not upgrade.             *)
THEOREM ChartCorrect == Spec => []DeployedChartCurrent
  <1>1. DeployInv => DeployedChartCurrent
    BY DEF DeployInv, DeployOf, Deployed, DeployedChartCurrent, TasksDone
  <1>2. QED
    BY <1>1, DeploymentsCorrect, PTL

-----------------------------------------------------------------------------
(* Archiving. *)

StoreGrows ==
  \A store, c, id : InAssets(assets, store, c, id) => InAssets(assets', store, c, id)

\* An upload replaces at most an asset of the same path.
LEMMA UploadGrows ==
  ASSUME NEW new, Upload(new)
  PROVE  StoreGrows /\ new \in assets'
  <1>1. assets' = {a \in assets : Path(a) # Path(new)} \cup {new}
    BY DEF Upload
  <1>2. ASSUME NEW store, NEW c, NEW id, InAssets(assets, store, c, id)
        PROVE  InAssets(assets', store, c, id)
    <2>1. PICK a \in assets : a.store = store /\ a.commit = c /\ a.folder = 0 /\ Id(a.file) = id
      BY <1>2 DEF InAssets
    <2>2. CASE Path(a) # Path(new)
      BY <1>1, <2>1, <2>2 DEF InAssets
    <2>3. CASE Path(a) = Path(new)
      <3>1. /\ new.store = a.store /\ new.commit = a.commit /\ new.folder = a.folder
            /\ Id(new.file) = Id(a.file)
        BY <2>3 DEF Path
      <3>2. QED
        BY <1>1, <2>1, <3>1 DEF InAssets
    <2>4. QED
      BY <2>2, <2>3
  <1>3. QED
    BY <1>1, <1>2 DEF StoreGrows

LEMMA ArchivedStays ==
  ASSUME StoreGrows, NEW r \in Repos, job'[r].stage = job[r].stage, head'[r] = head[r],
         NEW q, NEW f, Archived(r, q, f)
  PROVE  Archived(r, q, f)'
  <1>1. TargetRepository(r)' = TargetRepository(r)
    BY DEF TargetRepository
  <1>2. InAssets(assets, TargetRepository(r), head[r][q], Id(f))
    BY DEF Archived, InAssets
  <1>3. InAssets(assets', TargetRepository(r), head[r][q], Id(f))
    BY <1>2 DEF StoreGrows
  <1>4. QED
    BY <1>1, <1>3 DEF Archived, InAssets

LEMMA ManifestStays ==
  ASSUME StoreGrows, NEW q \in Repos, ManifestTrue(q), UNCHANGED <<head[q], manifest[q]>>
  PROVE  ManifestTrue(q)'
  BY DEF ManifestTrue, StoreGrows

\* What was claimed is claimed still, or nothing is.
LEMMA ArchiveMoved ==
  ASSUME StoreGrows, NEW q \in Repos, ArchiveOf(q), UNCHANGED <<head[q], manifest[q]>>,
         \/ pc'[q] = pc[q] /\ job'[q] = job[q] /\ files'[q] = files[q]
         \/ /\ pc'[q] # "checkout"
            /\ \/ ~ job'[q].ok \/ pc'[q] \notin {"collect", "upload"}
               \/ pc'[q] = "collect" /\ job'[q].at = 1
  PROVE  ArchiveOf(q)'
  <1>1. ManifestTrue(q)'
    BY ManifestStays DEF ArchiveOf
  <1>2. NoManifestYet(q)'
    BY DEF ArchiveOf, NoManifestYet
  <1>3. ArchivedSoFar(q)'
    <2>1. CASE pc'[q] = pc[q] /\ job'[q] = job[q] /\ files'[q] = files[q]
      <3>1. \A p, f : Archived(q, p, f) => Archived(q, p, f)'
        BY <2>1, ArchivedStays
      <3>2. Here(q)' = Here(q)
        BY <2>1 DEF Here
      <3> SUFFICES ASSUME job[q].ok, pc[q] \in {"collect", "upload"}
                   PROVE  /\ \A i \in 1..(job[q].at - 1) : \A f \in files[q][Checkouts[q][i]] :
                               Archived(q, Checkouts[q][i], f)'
                          /\ pc[q] = "upload" =>
                               \A f \in files[q][Here(q)] :
                                 f \in job[q].todo \/ Archived(q, Here(q), f)'
        BY <2>1, <3>2 DEF ArchivedSoFar
      <3>3. \A i \in 1..(job[q].at - 1) : \A f \in files[q][Checkouts[q][i]] :
              Archived(q, Checkouts[q][i], f)'
        BY <3>1 DEF ArchiveOf, ArchivedSoFar
      <3>4. ASSUME pc[q] = "upload", NEW f \in files[q][Here(q)]
            PROVE  f \in job[q].todo \/ Archived(q, Here(q), f)'
        <4>1. PICK p : p = Here(q)
          OBVIOUS
        <4>2. f \in job[q].todo \/ Archived(q, p, f)
          BY <3>4, <4>1 DEF ArchiveOf, ArchivedSoFar
        <4>3. f \in job[q].todo \/ Archived(q, p, f)'
          BY <3>1, <4>2
        <4>4. QED
          BY <3>2, <4>1, <4>3
      <3>5. QED
        BY <3>3, <3>4
    <2>2. CASE ~ (pc'[q] = pc[q] /\ job'[q] = job[q] /\ files'[q] = files[q])
      BY <2>2 DEF ArchivedSoFar
    <2>3. QED
      BY <2>1, <2>2
  <1>4. QED
    BY <1>1, <1>2, <1>3 DEF ArchiveOf

LEMMA ArchiveStart ==
  ASSUME TypeInv, NEW r \in Repos, ArchiveOf(r), StartStep(r)
  PROVE  ArchiveOf(r)'
  <1>1. pc'[r] \notin {"collect", "upload"} \/ ~ job'[r].ok
    BY CleanEffect, CheckoutEffect, DownloadEffect
    DEF StartStep, AfterStart, AfterBuild, AfterPackage
  <1>2. ArchivedSoFar(r)'
    BY <1>1 DEF ArchivedSoFar
  <1>3. CASE Clean(r)
    <2>1. \A q \in Repos : manifest'[r][q] = NoManifest
      BY <1>3, CleanEffect
    <2>2. QED
      BY <1>2, <2>1 DEF ArchiveOf, ManifestTrue, NoManifestYet, NoManifest, Stores
  <1>4. CASE CheckoutAndAssembleContext(r)
    <2>1. pc[r] = "checkout" /\ manifest' = manifest
      BY <1>4, CheckoutEffect
    <2>2. \A q \in Repos : manifest'[r][q] = NoManifest
      BY <2>1 DEF ArchiveOf, NoManifestYet
    <2>3. QED
      BY <1>2, <2>2 DEF ArchiveOf, ManifestTrue, NoManifestYet, NoManifest, Stores
  <1>5. CASE DownloadArtifacts(r) \/ DownloadGarbled(r)
    <2>1. /\ pc[r] = "download" /\ Here(r) \in Repos /\ UNCHANGED <<head, assets>>
          /\ pc'[r] # "checkout"
          /\ \E F \in SUBSET Artifact :
               /\ FromNexus(head[r][Here(r)], F)
               /\ manifest'[r][Here(r)] =
                    [store |-> SourceRepository(head[r][Here(r)]), ids |-> Ids(F)]
          /\ \A q \in Repos \ {Here(r)} : manifest'[r][q] = manifest[r][q]
      BY <1>5, DownloadEffect DEF AfterStart, AfterBuild, AfterPackage
    <2>2. PICK F : /\ FromNexus(head[r][Here(r)], F)
                   /\ manifest'[r][Here(r)] =
                        [store |-> SourceRepository(head[r][Here(r)]), ids |-> Ids(F)]
      BY <2>1
    <2>3. \A id \in Ids(F) :
            InAssets(assets, SourceRepository(head[r][Here(r)]), head[r][Here(r)], id)
      BY <2>2 DEF FromNexus, Ids, InAssets
    <2>4. \A q \in Repos : manifest'[r][q].store \in Stores =>
            \A id \in manifest'[r][q].ids : InAssets(assets, manifest'[r][q].store, head[r][q], id)
      BY <2>1, <2>2, <2>3 DEF ArchiveOf, ManifestTrue
    <2>5. ManifestTrue(r)'
      BY <2>1, <2>4 DEF ManifestTrue
    <2>6. NoManifestYet(r)'
      BY <2>1 DEF NoManifestYet
    <2>7. QED
      BY <1>2, <2>5, <2>6 DEF ArchiveOf
  <1>6. QED
    BY <1>3, <1>4, <1>5 DEF StartStep

(* What the manifest lists need not be uploaded: it is there.              *)
LEMMA ArchiveCollect ==
  ASSUME TypeInv, NEW r \in Repos, ArchiveOf(r), CollectArtifacts(r)
  PROVE  ArchiveOf(r)'
  <1>0. job[r] \in Job /\ Here(r) \in Repos
    BY HereType DEF TypeInv, TypeOK, RunsTyped
  <1>1. /\ pc[r] = "collect" /\ UNCHANGED <<head, manifest, files, assets>>
        /\ \/ pc'[r] = "idle" /\ ~ job'[r].ok
           \/ /\ pc'[r] = "upload"
              /\ job'[r] = [job[r] EXCEPT !.todo =
                   {f \in files[r][Here(r)] :
                      ~ Contains(manifest[r][Here(r)], TargetRepository(r), f)}]
    BY CollectEffect
  <1>2. ManifestTrue(r)' /\ NoManifestYet(r)'
    BY <1>1 DEF ArchiveOf, ManifestTrue, NoManifestYet
  <1>3. CASE pc'[r] = "idle"
    BY <1>2, <1>3 DEF ArchiveOf, ArchivedSoFar
  <1>4. CASE pc'[r] = "upload"
    <2>1. PICK todo : /\ job'[r] = [job[r] EXCEPT !.todo = todo]
                      /\ todo = {f \in files[r][Here(r)] :
                                   ~ Contains(manifest[r][Here(r)], TargetRepository(r), f)}
      BY <1>1, <1>4
    <2>2. /\ job'[r].ok = job[r].ok /\ job'[r].at = job[r].at /\ job'[r].stage = job[r].stage
          /\ job'[r].todo = todo
      BY <1>0, <2>1 DEF Job
    <2>3. Here(r)' = Here(r) /\ TargetRepository(r)' = TargetRepository(r)
      BY <2>2 DEF Here, TargetRepository
    <2>4. ASSUME NEW f \in files[r][Here(r)], f \notin todo PROVE Archived(r, Here(r), f)'
      <3>1. Contains(manifest[r][Here(r)], TargetRepository(r), f)
        BY <2>1, <2>4
      <3>2. TargetRepository(r) \in Stores
        BY DEF TargetRepository, Stores
      <3>3. InAssets(assets, TargetRepository(r), head[r][Here(r)], Id(f))
        BY <1>0, <3>1, <3>2 DEF Contains, ArchiveOf, ManifestTrue
      <3>4. QED
        BY <1>1, <2>3, <3>3 DEF Archived, InAssets
    <2>5. \A p, f : Archived(r, p, f) => Archived(r, p, f)'
      BY <1>1, <2>3 DEF Archived
    <2>6. ArchivedSoFar(r)'
      BY <1>1, <1>4, <2>2, <2>3, <2>4, <2>5 DEF ArchiveOf, ArchivedSoFar
    <2>7. QED
      BY <1>2, <2>6 DEF ArchiveOf
  <1>5. QED
    BY <1>1, <1>3, <1>4

LEMMA ArchiveUpload ==
  ASSUME TypeInv, NEW r \in Repos, ArchiveOf(r), UploadArtifact(r)
  PROVE  ArchiveOf(r)' /\ StoreGrows
  <1> DEFINE new(f) == [store |-> TargetRepository(r), commit |-> head[r][Here(r)],
                        folder |-> ArtifactFolder(r), file |-> f]
  <1>0. job[r] \in Job /\ Here(r) \in Repos
    BY HereType DEF TypeInv, TypeOK, RunsTyped
  <1>1. pc[r] = "upload" /\ UNCHANGED <<pc, head, manifest, files>>
    BY UploadEffect
  <1>2. PICK g \in job[r].todo : Upload(new(g)) /\ job'[r] = [job[r] EXCEPT !.todo = @ \ {g}]
    BY UploadEffect
  <1>3. StoreGrows /\ new(g) \in assets'
    BY <1>2, UploadGrows
  <1>4. /\ job'[r].ok = job[r].ok /\ job'[r].at = job[r].at /\ job'[r].stage = job[r].stage
        /\ job'[r].todo = job[r].todo \ {g}
    BY <1>0, <1>2 DEF Job
  <1>5. Here(r)' = Here(r) /\ TargetRepository(r)' = TargetRepository(r)
    BY <1>4 DEF Here, TargetRepository
  <1>6. job[r].ok => Archived(r, Here(r), g)'
    <2> SUFFICES ASSUME job[r].ok PROVE Archived(r, Here(r), g)'
      OBVIOUS
    <2>1. /\ new(g).store = TargetRepository(r) /\ new(g).commit = head[r][Here(r)]
          /\ new(g).folder = 0 /\ new(g).file = g
      BY DEF ArtifactFolder, TasksSuccessful
    <2> HIDE DEF new
    <2>2. QED
      BY <1>1, <1>3, <1>5, <2>1 DEF Archived
  <1>7. \A p, f : Archived(r, p, f) => Archived(r, p, f)'
    BY <1>1, <1>3, <1>4, ArchivedStays
  <1>8. ManifestTrue(r)' /\ NoManifestYet(r)'
    BY <1>1, <1>3, ManifestStays DEF ArchiveOf, NoManifestYet
  <1>9. ArchivedSoFar(r)'
    <2> SUFFICES ASSUME job[r].ok
                 PROVE  /\ \A i \in 1..(job[r].at - 1) : \A f \in files[r][Checkouts[r][i]] :
                             Archived(r, Checkouts[r][i], f)'
                        /\ \A f \in files[r][Here(r)] :
                             f \in job[r].todo \ {g} \/ Archived(r, Here(r), f)'
      BY <1>1, <1>4, <1>5 DEF ArchivedSoFar
    <2>1. \A i \in 1..(job[r].at - 1) : \A f \in files[r][Checkouts[r][i]] :
            Archived(r, Checkouts[r][i], f)'
      BY <1>1, <1>7 DEF ArchiveOf, ArchivedSoFar
    <2>2. ASSUME NEW f \in files[r][Here(r)], f \notin job[r].todo \ {g}
          PROVE  Archived(r, Here(r), f)'
      <3>1. CASE f = g
        BY <1>6, <3>1
      <3>2. CASE f # g
        <4>1. PICK p : p = Here(r)
          OBVIOUS
        <4>2. Archived(r, p, f)
          BY <1>1, <2>2, <3>2, <4>1 DEF ArchiveOf, ArchivedSoFar
        <4>3. Archived(r, p, f)'
          BY <1>7, <4>2
        <4>4. QED
          BY <1>5, <4>1, <4>3
      <3>3. QED
        BY <3>1, <3>2
    <2>3. QED
      BY <2>1, <2>2
  <1>10. QED
    BY <1>3, <1>8, <1>9 DEF ArchiveOf

LEMMA ArchiveUploadsDone ==
  ASSUME TypeInv, NEW r \in Repos, ArchiveOf(r), UploadsDone(r)
  PROVE  ArchiveOf(r)'
  <1>0. job[r] \in Job /\ job[r].at \in Nat /\ Here(r) = Checkouts[r][job[r].at]
    BY DEF TypeInv, TypeOK, RunsTyped, Here, Job
  <1>1. /\ pc[r] = "upload" /\ job[r].todo = {} /\ UNCHANGED <<head, manifest, files, assets>>
        /\ \/ pc'[r] = "idle" /\ ~ job'[r].ok
           \/ pc'[r] = "collect" /\ job'[r] = [job[r] EXCEPT !.at = @ + 1]
    BY UploadsDoneEffect
  <1>2. ManifestTrue(r)' /\ NoManifestYet(r)'
    BY <1>1 DEF ArchiveOf, ManifestTrue, NoManifestYet
  <1>3. CASE pc'[r] = "idle"
    BY <1>2, <1>3 DEF ArchiveOf, ArchivedSoFar
  <1>4. CASE pc'[r] = "collect"
    <2>1. job'[r] = [job[r] EXCEPT !.at = @ + 1]
      BY <1>1, <1>4
    <2>2. /\ job'[r].ok = job[r].ok /\ job'[r].at = job[r].at + 1
          /\ job'[r].stage = job[r].stage
      BY <1>0, <2>1 DEF Job
    <2>3. \A p, f : Archived(r, p, f) => Archived(r, p, f)'
      BY <1>1, <2>2 DEF Archived, TargetRepository
    <2>4. ASSUME job[r].ok, NEW i \in 1..(job'[r].at - 1), NEW f \in files[r][Checkouts[r][i]]
          PROVE  Archived(r, Checkouts[r][i], f)'
      <3>1. i \in 1..(job[r].at - 1) \/ i = job[r].at
        BY <1>0, <2>2
      <3>2. Archived(r, Checkouts[r][i], f)
        BY <1>0, <1>1, <2>4, <3>1 DEF ArchiveOf, ArchivedSoFar
      <3>3. QED
        BY <2>3, <3>2
    <2>5. ArchivedSoFar(r)'
      BY <1>1, <1>4, <2>2, <2>4 DEF ArchivedSoFar
    <2>6. QED
      BY <1>2, <2>5 DEF ArchiveOf
  <1>5. QED
    BY <1>1, <1>3, <1>4

LEMMA ArchiveNext ==
  ASSUME TypeInv, ArchiveInv, [Next]_vars
  PROVE  ArchiveInv'
  <1>0. \A q \in Repos : ArchiveOf(q)
    BY DEF ArchiveInv
  <1>1. ASSUME NEW r \in Repos, Others(r), StoreGrows, ArchiveOf(r)' PROVE ArchiveInv'
    <2>1. ASSUME NEW q \in Repos \ {r} PROVE ArchiveOf(q)'
      BY <1>0, <1>1, ArchiveMoved DEF Others
    <2>2. QED
      BY <1>1, <2>1 DEF ArchiveInv
  <1>2. ASSUME assets' = assets PROVE StoreGrows
    BY <1>2 DEF StoreGrows
  <1>3. ASSUME NEW r \in Repos, StartStep(r) PROVE ArchiveInv'
    <2>1. Others(r) /\ assets' = assets
      BY <1>3, CleanEffect, CheckoutEffect, DownloadEffect DEF StartStep
    <2>2. QED
      BY <1>0, <1>1, <1>2, <1>3, <2>1, ArchiveStart
  <1>4. ASSUME NEW r \in Repos, TaskStep(r) PROVE ArchiveInv'
    <2>1. /\ Others(r) /\ UNCHANGED <<head, manifest, assets>>
          /\ GoesOn(r, LaterPlaces \cup {"finish"})
      BY <1>4, TaskEffect
    <2>2. pc'[r] \notin {"checkout", "collect", "upload"}
      BY <2>1 DEF GoesOn, LaterPlaces, TaskPlaces, StartPlaces
    <2>3. ArchiveOf(r)'
      BY <1>0, <1>2, <2>1, <2>2, ArchiveMoved
    <2>4. QED
      BY <1>1, <1>2, <2>1, <2>3
  <1>5. ASSUME NEW r \in Repos, Closing(r) PROVE ArchiveInv'
    <2>1. Others(r) /\ UNCHANGED <<head, manifest>>
      BY <1>5, ClosingEffect
    <2>2. CASE CollectArtifacts(r)
      <3>1. assets' = assets
        BY <2>2, CollectEffect
      <3>2. QED
        BY <1>0, <1>1, <1>2, <2>1, <2>2, <3>1, ArchiveCollect
    <2>3. CASE UploadArtifact(r)
      BY <1>0, <1>1, <2>1, <2>3, ArchiveUpload
    <2>4. CASE UploadsDone(r)
      <3>1. assets' = assets
        BY <2>4, UploadsDoneEffect
      <3>2. QED
        BY <1>0, <1>1, <1>2, <2>1, <2>4, <3>1, ArchiveUploadsDone
    <2>5. CASE ~ CollectArtifacts(r) /\ ~ UploadArtifact(r) /\ ~ UploadsDone(r)
      <3>1. /\ assets' = assets /\ pc'[r] # "checkout"
            /\ \/ ~ job'[r].ok \/ pc'[r] \notin {"collect", "upload"}
               \/ pc'[r] = "collect" /\ job'[r] = [job[r] EXCEPT !.at = 1]
        BY <1>5, <2>5, StopEffect, StatusEffect, RunArtifactEffect, TriggerEffect
        DEF Closing, FinishStep
      <3>2. [job[r] EXCEPT !.at = 1].at = 1
        BY DEF TypeInv, TypeOK, RunsTyped, Job
      <3>3. ArchiveOf(r)'
        BY <1>0, <1>2, <2>1, <3>1, <3>2, ArchiveMoved
      <3>4. QED
        BY <1>1, <1>2, <2>1, <3>1, <3>3
    <2>6. QED
      BY <2>2, <2>3, <2>4, <2>5
  <1>6. CASE Around
    <2>1. UNCHANGED <<pc, job, head, files, manifest, assets>>
      BY <1>6 DEF Around
    <2>2. ASSUME NEW q \in Repos PROVE ArchiveOf(q)'
      BY <1>0, <1>2, <2>1, ArchiveMoved
    <2>3. QED
      BY <2>2 DEF ArchiveInv
  <1>7. QED
    BY <1>3, <1>4, <1>5, <1>6, Sorts

(* When ods-finish of a successful run comes to its end, nothing of what   *)
(* the run made or downloaded is missing in the repository of its stage:   *)
(* what it did not upload because of a manifest is there.                  *)
THEOREM ArchiveCorrect == Spec => FinishedRunArchived
  <1>1. Init => ArchiveInv
    <2> SUFFICES ASSUME Init, NEW r \in Repos PROVE ArchiveOf(r)
      BY DEF ArchiveInv
    <2>1. pc[r] = "idle" /\ \A q \in Repos : manifest[r][q] = NoManifest
      BY DEF Init
    <2>2. QED
      BY <2>1 DEF ArchiveOf, ManifestTrue, NoManifestYet, ArchivedSoFar, NoManifest, Stores
  <1>2. Spec => []ArchiveInv
    BY <1>1, Invariant, ArchiveNext, PTL DEF Spec
  <1>3. TypeInv /\ ArchiveInv /\ [Next]_vars => [\A r \in Repos : ArchivedInFull(r)]_vars
    <2> SUFFICES ASSUME TypeInv, ArchiveInv, [Next]_vars, NEW r \in Repos,
                        At(r, "upload"), LastHere(r), pc'[r] = "idle", UNCHANGED faults, job[r].ok
                 PROVE  \A i \in DOMAIN Checkouts[r] : \A f \in files[r][Checkouts[r][i]] :
                          Archived(r, Checkouts[r][i], f)
      BY DEF ArchivedInFull
    <2>1. PICK q \in Repos : StartStep(q) \/ TaskStep(q) \/ Closing(q)
      BY Sorts DEF Around, At
    <2>2. q = r
      <3>1. Others(q)
        <4>1. CASE StartStep(q)
          BY <4>1, CleanEffect, CheckoutEffect, DownloadEffect DEF StartStep
        <4>2. CASE TaskStep(q)
          BY <4>2, TaskEffect
        <4>3. CASE Closing(q)
          BY <4>3, ClosingEffect
        <4>4. QED
          BY <2>1, <4>1, <4>2, <4>3
      <3>2. QED
        BY <3>1 DEF Others, At
    <2>3. job[r].todo = {}
      <3>1. ~ StartStep(r) /\ ~ TaskStep(r)
        BY CleanEffect, CheckoutEffect, DownloadEffect, TaskEffect
        DEF StartStep, At, LaterPlaces, TaskPlaces, StartPlaces
      <3>2. ~ TaskFails(r) /\ ~ RunStops(r)
        <4>1. ~ Fault
          BY DEF Fault, TypeInv, TypeOK, ServersTyped
        <4>2. QED
          BY <4>1 DEF TaskFails, RunStops
      <3>3. UploadArtifact(r) \/ UploadsDone(r)
        BY <2>1, <2>2, <3>1, <3>2
        DEF Closing, FinishStep, At, Trigger, NoContext, SetBuildStatus, CreatePipelineRunArtifact,
            CollectArtifacts
      <3>4. ~ UploadArtifact(r)
        BY DEF UploadArtifact, At
      <3>5. QED
        BY <3>3, <3>4 DEF UploadsDone
    <2>4. ASSUME NEW i \in DOMAIN Checkouts[r], NEW f \in files[r][Checkouts[r][i]]
          PROVE  Archived(r, Checkouts[r][i], f)
      <3>1. /\ job[r].at = Len(Checkouts[r]) /\ Len(Checkouts[r]) \in Nat
            /\ DOMAIN Checkouts[r] = 1..Len(Checkouts[r]) /\ Here(r) = Checkouts[r][job[r].at]
        BY HereType DEF LastHere, Here, TypeInv, TypeOK
      <3>2. i \in 1..(job[r].at - 1) \/ i = job[r].at
        BY <3>1
      <3>3. QED
        BY <2>3, <3>1, <3>2 DEF ArchiveInv, ArchiveOf, ArchivedSoFar, At
    <2>5. QED
      BY <2>4
  <1>4. QED
    BY <1>2, <1>3, Invariant, PTL DEF Spec, FinishedRunArchived
=============================================================================
