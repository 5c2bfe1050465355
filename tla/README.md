# TLA+ models of ods-pipeline

ods-pipeline runs CI/CD pipelines on OpenShift: a long-running *pipeline manager*
turns Bitbucket webhooks into Tekton pipeline runs, and a set of short-lived *task
programs* (`ods-start`, `ods-finish`, build, package, scan, deploy) do the work of
one run. This directory specifies the core of that system in TLA+, checks it with
TLC and proves the safety part for every value of the constants with TLAPS.

All paths below are relative to the root of the repository.

## 1. Inventory

| component | source | state it keeps | operations |
|---|---|---|---|
| process wiring | `cmd/pipeline-manager/main.go` | the three channels, goroutines | boot, boot scan after 10 s, serve webhooks |
| receiver | `internal/manager/receive.go`, `validate.go`, `bitbucket.go` | none; one goroutine per request | validate, interpret the event, query Bitbucket, send to the scheduler, answer |
| scheduler | `internal/manager/schedule.go`, `pipeline.go`, `pvc.go` | locals of one `schedule` call | write the Pipeline, create the PVC, list runs, create a run (pending or not), tell the watcher |
| watcher | `internal/manager/watch.go` | `Queues` (repository to bool), a timer | activate a queue, poll active queues, start the oldest pending run |
| pruner | `internal/manager/prune.go` | `upcomingPrune`, timers, one goroutine per prune | plan, list, select, delete |
| start task | `cmd/start/` | the workspace, tags in Bitbucket | clean, checkout (with subrepos), build status, version tags, artifact download, cache expiry |
| finish task | `cmd/finish/main.go` | artifacts in Nexus, build status | set status, upload, notify |
| artifact-download | `cmd/artifact-download/main.go` | an output directory | download what a tag or the working directory points to |
| package, scan, deploy tasks | `cmd/build-push-image`, `cmd/sonar`, `cmd/deploy-with-helm` | images, reports, Helm releases | build unless the image exists, poll the analysis, diff and upgrade |
| build scripts | `build/package/scripts/` | `.ods-cache` in the workspace | build, save to and restore from the cache |
| libraries | `internal/repository`, `pkg/pipelinectxt`, `pkg/config`, `internal/notification` | files under `.ods` | branch and tag selection, artifacts, configuration |
| clients | `pkg/bitbucket`, `pkg/nexus`, `pkg/sonar`, `internal/tekton`, `internal/kubernetes`, `internal/installation` | none | one HTTP call per method |
| deployment | `deploy/ods-pipeline/charts` | one Deployment, tasks, images | installed by Helm |
| docs and test support | `internal/docs`, `pkg/tasktesting`, `test/` and others | none | not part of the running system |

How they interact:

```
 Bitbucket --webhook--> receiver --TriggeredPipelines--> scheduler --PendingRunRepos--> watcher
                                                             |  ^                          ^  |
                                                 Pipelines, PVCs, runs (Kubernetes API)    |  starts runs
                                                             |                  boot scan -+  |
                                                  Tekton: ods-start ... ods-finish <----------+
                                                             |
                                       Bitbucket (status, tags), Nexus (artifacts), registry, cluster
```

The receiver, scheduler and watcher share nothing but two Go channels of capacity
`channelBufferSize`; everything durable lives in the Kubernetes API server. The
tasks of one run, and of successive runs of one repository, share a PVC and so
rely on the manager to run one at a time.

### What is hard here

* **Interleaving.** The scheduler lists and then creates, the watcher lists and then
  updates; Tekton, users and the other goroutine act in between.
* **Blocking.** Sends block on full channels: scheduler on watcher, handlers on
  scheduler, the boot scan on the watcher.
* **Time.** Every received repository replaces the watcher's timer, whether or not it
  has fired; the pruner skips a trigger when a prune lies in the future.
* **Failure.** Every remote call may fail. None is retried, some errors are read as
  answers ("does not exist", "0 remaining").
* **Crash recovery.** Nothing is persisted by the manager; a restart relies on one
  boot scan of the project's repositories.
* **Rollout.** Two pods of the manager overlap.
* **Partial failure in the tasks.** Tagging several repositories, uploading several
  artifacts, filling the cache: each a loop of remote calls that may stop half way
  and be repeated by the next run.

### What makes each component correct

* manager: at most one run of a repository progresses; runs start in the order they
  were created; an accepted trigger is never lost silently and eventually runs; a
  run uses the definition of its own trigger; polling ends when there is nothing to
  poll.
* pruner: a run that is in excess when its repository is triggered goes; recent and kept
  runs stay, and keep the pipeline they refer to.
* start: release candidate numbers grow and count the runs, the final tag is put only on the commit
  of the latest candidate, in every repository, also after a run that failed half way.
* start and finish: what one run uploaded is what the next run, or a download by tag,
  finds; artifacts of failed runs never count as good ones.
* tasks: an image that was not scanned, an analysis that was not finished and a build
  cache that was not filled are never taken for done.

## 2. Modules

| module | models | lines of code |
|---|---|---|
| `TektonRuns` | the PipelineRuns as the manager sees them, steps of Tekton and users | `internal/manager/pipeline.go` (list, sort, progressing), Tekton as used |
| `Scheduler` | `Scheduler.Run`, `schedule`, `createPipelineRun`, `createPVCIfRequired` | `schedule.go`, `pipeline.go`, `pvc.go` |
| `Watcher` | `Watcher.Run`, `advanceQueue` | `watch.go` |
| `PipelineManager` | both, with the handlers, channels, boot scan, restarts | `main.go`, `receive.go`, `bitbucket.go` |
| `RunQueue` | abstract: the runs of a repository as an atomic queue | the promise of the manager |
| `TriggerIntake` | abstract: a request is answered in one step, accepted exactly if its trigger enters the channel | what the receiver promises to the scheduler |
| `ManagerRollout` | two instances of `PipelineManager` over the same resources | `deployment.yaml` |
| `Pruner` | `Pruner.run`, `prune`, `findPrunableResources`, deletes | `prune.go` |
| `VersionTags` | tagging of a repository and its subrepositories by several pipelines | `cmd/start/main.go` (`applyVersionTags`), `internal/repository/tags.go`, `pkg/bitbucket/tags.go`, `cmd/artifact-download/main.go` |
| `Receiver` | `BitbucketReceiver`'s handler call by call, on a branch that moves | `receive.go`, `validate.go`, `bitbucket.go`, `internal/repository/config.go` |
| `Workspace` | what the tasks of a run share: the volume of a repository and the servers | `pkg/pipelinectxt`, `pkg/config`, clients as used |
| `OdsStart` | clean-up, checkouts, artifact download | `cmd/start`, `pkg/pipelinectxt/artifacts.go` (`DownloadGroup`) |
| `OdsBuild` | build script around the build cache, SonarQube scan and gate | `build/package/scripts`, `cmd/sonar`, `pkg/sonar` |
| `PackageImage` | image inspection, build, push, Aqua scan and gate | `cmd/build-push-image` |
| `DeployHelm` | image copy, charts, diff, upgrade | `cmd/deploy-with-helm` |
| `OdsFinish` | build status, pipeline run artifact, uploads | `cmd/finish` |
| `PipelineRun` | the five task modules composed: runs of all repositories, failures, cancellations | `internal/manager/pipeline.go` (order of tasks), the tasks |
| `Promotion` | abstract: an umbrella ships only certified commits of its subrepositories | the promise of subrepositories |
| `MCManager`, `MCRollout`, `MCPruner`, `MCVersionTags`, `MCPipelineRun` | small instances for TLC (`Receiver` needs none) | |
| `ManagerTypeProofs`, `ManagerSafetyProofs`, `ManagerRecoveryProofs`, `PrunerProofs`, `VersionTagsProofs`, `PipelineRunTypeProofs`, `PipelineRunProofs`, `ReceiverProofs` | theorems | |

`PipelineManager` EXTENDS `Scheduler` and `Watcher`, which both EXTEND `TektonRuns`.
`PipelineRun` EXTENDS the five task modules, which all EXTEND `Workspace`, and instantiates
`Promotion`. `Receiver` looks into what `PipelineManager` takes as one step of a handler;
of the scheduler it keeps that triggers are taken in order and may be dropped with any part of
their calls done, of the watcher that a pending run is started, of Kubernetes that the run finds
the Pipeline as last written, and of the process that it restarts. Where the two meet is
`TriggerIntake`, which both implement: `Receiver` with many calls per request,
`PipelineManager` with one step per request, restarts, and a scheduler that does more than
take triggers.

### State and code

* A webhook request `r \in Reqs` is followed to its end. `hook[r]` is where its
  handler is; a run is created for one request only, so `phase[r]` and `created[r]`
  are the phase and timestamp of *its* run.
* `phase`: `pending` is `Spec.Status = PipelineRunPending`; `progressing` is
  `pipelineRunIsProgressing`; `stopping` is cancelled or timed out but not done (it
  counts neither as pending nor as progressing in the code); `done` is done.
* `created` has the API server's resolution: a new run has the latest timestamp or
  the next one, so two runs may tie and then the sort leaves their order open
  (`OldestPending` is a set).
* `triggeredPipelines`, `pendingRunRepos` are the channels, as sequences with at most
  `ChannelBufferSize` elements. A send is disabled while the channel is full.
* `schedPc` is the position in `schedule`: each API call is one step; `pData`,
  `resourceVersion`, `needQueueing` are its locals of the same name.
* `pipelineDef[p]` is the request the Pipeline `p` was last written for, and stands
  for its resource version as well: each write is by another request.
* `queues`, `timer`, `todo`, `queue`, `oldestPR`, `more` are the watcher's map, timer,
  loop over active queues and the locals of `advanceQueue`. `timer = "fired"` is a
  tick that waits in the timer's channel; `RearmTimer` drops it, as replacing `t` does.
* `dropped` is a history variable: accepted triggers lost to an API error or to a
  restart. The code logs and forgets them, so liveness is claimed for the others.
* `Faults` is the set of calls that may fail, by name. `createReply` is a create of a run that
  succeeded but was answered with an error (a timeout); the writes of the Pipeline and of the
  PVC may likewise fail with or without having taken effect. Get and create of the PVC are one
  step, as nobody else creates or deletes it in between.
* `Listed` is what the boot scan reaches. `GetRepoNames` returns the *name* of each
  repository on the *first page* of the list, while runs are labelled with the
  lower-case *slug*: a repository that is not on that page, or whose name is not its
  slug, is not in `Listed`.
* `Restart` empties the channels and every goroutine. Requests that were not answered
  become `refused` (Bitbucket sees a broken connection).
* In `Pruner`, `prunePc[j]` is the position of prune goroutine `j`; `upcomingPrune` is
  the map of the code, of which only "absent, in the future, in the past" matters.
  `protectedRuns`, `prunablePipelines`, `prunablePipelineRuns` are the locals of
  `findPrunableResources`; of the first, the model keeps what was kept for each stage until
  the prune ends, so that properties can speak of it. `pipelines` are the Pipeline resources,
  by name; the scheduler writes one before it creates a run of it, and pipelines of several
  repositories may have one name. Deletion is propagated to dependents, but nothing in the
  repository makes a run the dependent of its Pipeline: `RunsDepend` says whether Tekton does.
  The garbage collector's delay is not modelled. `awaiting` and `owed` are history: the
  repositories triggered and not listed since, and the runs that were in excess at a
  trigger and have not gone since, nor been excused by a failing call.
* In `VersionTags`, `RepoOrder[p]` is the repository of a pipeline followed by its
  subrepositories; a subrepository usually has a pipeline of its own, so two pipelines
  tag it. `at[p]` is the position of the loop in `applyVersionTags`; each list and each
  create is a step. A tag's `number` is that of its candidate, 0 for the final tag; its
  `pipeline`, `run` and `sawAll` are history. The manager lets one run of a pipeline's
  repository work at a time (`NoConcurrentRuns`), so each pipeline has one `pc`.
  `TagList` is what a list may show: all matching tags, the first page of them, or none
  at all when Bitbucket answers with an error, whose status the client does not look at.
  `ReturnedTags` is open because the order of the list is. `DownloadedCommits` is what
  `artifact-download` asks Bitbucket for: the commit of the same tag in every repository.
* In `Receiver`, `at[e]` is the position of the handler of event `e`; the ref of the event
  is resolved three times: for the commit (`sha`, from the event or the tip), for `ods.yaml`
  (`config`, at the ref) and by the checkout (`built`, at the ref). Commits are numbered as
  they are pushed, so that "not older" is `<=`. A push event without changes makes the
  handler panic (`receive.go:97`); `net/http` recovers, and there is no answer. `definition` is
  the trigger for which the branch's one Pipeline was last written; a run takes what it finds
  there when it starts (`executed`), which may be of a later trigger than its own, or, when a
  handler was overtaken by that of a later event, of an earlier one. `dropped` is history, as
  in `PipelineManager`.
* In `PipelineRun`, `pc[r]` is the step at which the run of repository `r` is; the manager
  lets one at a time progress (`NoConcurrentRuns`), so there is one `pc` per repository.
  Runs of an umbrella and of its subrepository have workspaces of their own and meet in
  Bitbucket (`tip`, `status`), Nexus (`assets`), the registry (`image`) and the cluster
  (`spaces`, `release`).
* `files[r][q]` and `manifest[r][q]` are the artifacts directory and `manifest.json` of the
  checkout of `q` in `r`'s workspace. An artifact is a kind, a name and a value: what the
  properties tell apart. `folder` of an asset is 0, or the run whose failure is archived:
  `ArtifactGroup` puts the artifacts of a failed run below a directory of that run, where
  a later download finds files but not the pipeline run directory that is looked for.
* `spaces[s]` is keyed by commit where the copied image keeps its tag, and by repository where
  it has none, which is so for the stages in `RegistryHosts` (`cmd/deploy-with-helm/main.go:213`).
  `release` has the chart of the last revision and whether its upgrade succeeded; a diff
  compares with that revision either way.
* `Checkouts[r]` is the repository followed by the subrepositories of its `ods.yaml`; the
  loops over checkouts in start, deploy and finish have their position in `job[r].at`.
* `misread` and `succeeded` are history: images whose inspection failed although they
  existed, and commits of which a run got to a successful build status.
* `cache[r]` has entries with `whole` (the copy went through) and `stamped` (the file with
  the last use was written); `copy-build-if-cached.sh` looks for the directory only.

## 3. Runs

| run | question | expected |
|---|---|---|
| `manager_safety` | do the list/create and list/update races ever break mutual exclusion, order, definition (at creation and while pending) or accounting, whatever fails? Does the manager implement `RunQueue`? | pass |
| `manager_liveness` | does every accepted trigger eventually run, and does polling end? | pass |
| `manager_recovery` | does the boot scan make up for restarts? | pass |
| `watcher_error` | is a repository with pending runs always known to the watcher? | violation |
| `rollout` | does the exclusion hold while two managers overlap? | violation |
| `pruner` | are triggers covered, do runs in excess go, and are kept and recent runs spared, with overlapping prunes and failing calls? | pass |
| `pruner_stages` | does a run that was kept for one stage keep its pipeline when the other stages are pruned? | violation |
| `version_tags` | are final tags on candidates, numbers in order and without gaps, and releases of one run, whatever fails half way and whoever else tags? Does a tag lead to what its run had checked out? | pass |
| `candidate_check` | does the check find a candidate on the commit, when the filter lists another version as well? | violation |
| `prod_candidate` | does a run for prod pass only with a candidate checked out? | violation |
| `pipeline_run` | do artifacts, images, charts, builds and gates belong to the commit they are recorded for, and is nothing of an umbrella run or deployed without a successful run of its subrepositories? | pass |
| `receiver` | does an event have a trigger exactly if it was answered with 200, is what a run executes and checks out never older than it may be, and is every push built whose trigger is not known to be lost? | pass |

Bounds:

* `manager_safety`: three requests of one repository, two of them for the same branch;
  channel capacity 1; every fault; one restart. Repositories are independent in the
  code, except for blocking each other, so safety of one repository is shown with one;
  three runs are what it takes for one to progress, one to be picked and one to be
  overtaken. Capacity 1 makes every send able to block.
* `manager_liveness`: the same requests, `createRun` may fail, no restart.
* `manager_recovery`: two requests of one repository and a second, idle repository that
  the boot scan also sends; the scheduler's calls may fail; two restarts.
* `pruner`: four runs of two pipelines, one of which has runs of two stages, two prunes that
  may overlap, two hours, `MinKeepHours = MaxKeepRuns = 1`, runs go with their pipeline. Two
  prunes are the fewest that overlap; three runs of a stage are the fewest of which one is
  kept and two go differently.
* `pruner_stages`: three runs, no overlap, no failing call, and runs do not go with their
  pipeline: the violation rests on no assumption about Tekton.
* `rollout`: two requests, no failing call.
* `version_tags`: an umbrella with one subrepository, whose own pipeline tags it too; two
  commits, one version, three runs of each pipeline, a page of two tags, lists that fail.
  Three runs are what it takes to fail half way, to repeat, and to release.
* `candidate_check`, `prod_candidate`: one pipeline of one repository, nothing cut off.
* `pipeline_run`: an umbrella that deploys to qa or to prod, of which prod has a registryHost, and
  a subrepository that builds and
  packages without an environment; one commit of the umbrella, two of the subrepository;
  three runs in any combination, overlapping, and one thing that goes wrong at any step
  (a call, a pod, a build, a scan, an inspection, a download, a cancellation). Three runs
  are what it takes for a subrepository to fail, or to be certified, to be repeated or to
  move on, and for the umbrella to meet either; both stores occur, as the two repositories
  are for different stages. The two subrepository commits are symmetric (the properties of
  this run are safety properties; nothing tells the commits apart). An umbrella that ships two
  different commits of a subrepository one after the other would take a fourth run; what
  follows it is shown by the proofs only.
* `receiver`: three events, at most three commits, a channel of one; restarts, drops and
  cancellations are not bounded. Two handlers overlap and a third blocks.

`MaxRestarts`, `Prunes`, `MaxTime`, `MaxRuns`, `MaxFaults`, `MaxEvents` and `MaxCommits` are
bounds of the model and not of the code. Deadlock is checked everywhere but in `rollout` (a
terminated pod stops), `VersionTags`, `PipelineRun` (repositories that are not triggered
again stop) and `Receiver` (a branch to which nothing is pushed any more); in
`PipelineManager` the only state without a successor of its own is `Settled`.

### Fairness

`FairSpec` of `PipelineManager` assumes what the Go runtime and Kubernetes give:

* weak fairness of the scheduler, the watcher's loop, the timer, the boot scan and of
  each blocked handler: a goroutine that can run does run, and senders blocked on a
  channel are served in turn;
* strong fairness of receiving from `PendingRunRepos`: `select` chooses at random among
  ready cases, so a case that is ready again and again is chosen;
* weak fairness of a run's end: Tekton ends every run by its timeout at the latest.

`Spec` of `Receiver` assumes weak fairness of each handler (a goroutine of its own), of the
scheduler that takes from the channel and of the start of pending runs whose trigger was not
dropped (`StartAnnounced`), which is what `TriggerEventuallyRuns` shows of `PipelineManager`.
A run that was created by a call whose reply was lost is a run, but the watcher may never hear
of it, so that nothing is assumed of its start. `PushBuilt` says that from some moment on every
push is covered or forgone (`<>[]`): an uncovered push may become forgone at any time before its run
starts, by a restart, a failing call or a cancellation, none of which is fair.

No fairness is assumed of webhooks, cancellations, restarts or failures. That the tick
is only weakly fair matters: with an unbounded stream of pending repositories the timer
could be replaced for ever before it is received. The number of requests bounds that
stream in the model; the code has no such bound, and 30 s without a new pending run
is what it needs in practice.

### What the violations show

* `watcher_error`. `Queues` "holds repositories for which there are pending runs"
  (`internal/manager/watch.go:27`), and `advanceQueue` "returns the queue length" (line
  85). On an error of the list it returns 0 (line 91), and `Run` makes the queue
  inactive. The pending run then waits until another run of that repository becomes
  pending or the manager restarts. (An error of the update has the same effect when the
  refused run is the only pending one, line 121.)
* `rollout`. SRS-PIPELINE-MANAGER-6 demands that concurrent runs of one repository are
  prevented. The exclusion rests on there being one scheduler goroutine; the Deployment
  has no `strategy`, so its default (RollingUpdate) has an old and a new pod serve at
  the same time, and a scheduler of each can list no run before either creates one.
* `pruner_stages`. "If pruning would prune all pipeline runs of one pipeline [...], then the
  pipeline is pruned instead" (`internal/manager/prune.go:27`), and this is applied "per
  repository and stage (DEV, QA, PROD) to avoid aggressive pruning of QA and PROD pipeline
  runs" (`docs/design/software-design-specification.adoc:441`). Whether a Pipeline is kept is
  decided from the kept runs of one stage only. A branch whose environment mapping changed
  has runs of two stages under one Pipeline: the prune keeps its recent QA run, and deletes
  the Pipeline that this run refers to on account of the DEV runs.
* `candidate_check`. "A `v<VERSION>-rc.<NUMBER>` tag must alreadu exist for the checked
  out commit" (`docs/tasks/ods-start.adoc:32`). `LatestReleaseCandidate` returns the
  address of its loop variable (`internal/repository/tags.go:35`; the module is at go
  1.16), so what is compared is the tag listed *last*. The filter "seems to be a prefix
  match", so that tag may belong to v1.0.10 when v1.0.1 is released. With one version
  in the list, the commit is at least that of *some* candidate (the theorem below),
  though not of the latest, which is what the error message of the check speaks of.
* `prod_candidate`. A candidate "must alreadu exist for the checked out commit"
  (`docs/tasks/ods-start.adoc:32`), and runs for prod "will fail" without a deployment to qa
  (`docs/example-project.adoc:162`), but once the final tag of a version exists nothing
  is checked, and any commit with that version passes (`cmd/start/main.go:299`). For the
  same reason a release whose run failed after the first tag is never completed: later
  runs pass, and the subrepositories stay without a final tag (`NamesOfOneRun`).

More divergences were found by reading and have no run:

* "Pipelines and pipeline runs are pruned when a webhook trigger is received"
  (`docs/design/software-design-specification.adoc:441`), but `main.go` passes
  `triggeredReposChan` to the pruner only; nothing ever sends on it. `Pruner` is therefore
  a model of the component, with triggers from the environment, and is not composed with
  `PipelineManager`.
* A Pipeline is deleted "removing all dependent pipeline runs through propagation"
  (`internal/manager/prune.go:28`), but `createPipelineRun` (`internal/manager/pipeline.go:44`) sets
  no owner reference, and nothing else here makes a run depend on its Pipeline.
* `image.tag` "equals the Git commit SHA being built" and can be used "to refer to images built
  via `ods-package-image`" (`docs/tasks/ods-deploy-helm.adoc:29`), but the copy to an environment
  with a registryHost has no tag (`cmd/deploy-with-helm/main.go:213`).
* "Any artifacts in Nexus belonging to the same commit being built are downloaded"
  (same file, line 222), but the search stops at the first repository that has any
  (`pkg/pipelinectxt/artifacts.go:213`), even if all are of a failed run. A failed qa run
  of a commit thus hides its successful dev run from an umbrella.
* `aqua-gate` is "whether the Aqua security scan needs to pass for the task to succeed"
  (`docs/tasks/ods-package-image.adoc:90`), but a run that is repeated after the gate
  failed finds the pushed image and does not scan (`cmd/build-push-image/main.go:116`).
* "If the gate fails, the task shall be terminated"
  (`docs/design/software-requirements-specification.adoc:303`), but the gate is asked for by
  project, also when the analysis was of a branch or a pull request (`cmd/sonar/main.go:133`).

## 4. Theorems

| theorem | module | states |
|---|---|---|
| `TypeCorrect` | `ManagerTypeProofs` | `Spec => []TypeOK` |
| `ManagerInvariant` | `ManagerSafetyProofs` | `Spec => []ManagerInv`, the inductive invariant |
| `NoConcurrentRuns` | `ManagerSafetyProofs` | `Spec => []AtMostOneProgressing` |
| `Refinement` | `ManagerSafetyProofs` | `Spec => ImplementsRunQueue` |
| `OrderOfStarts` | `ManagerSafetyProofs` | `Spec => StartsInOrder` |
| `DefinitionOfRuns`, `DefinitionOfPending` | `ManagerSafetyProofs` | `Spec => CreatedFromOwnDefinition`, `Spec => []DefinitionNotOlder` |
| `TriggersAccounted` | `ManagerRecoveryProofs` | `Spec => []TriggerAccountedFor` |
| `ReachedNeverForgotten` | `ManagerRecoveryProofs` | `Spec => []ReachedNotForgotten`, under `WatcherLearns` |
| `PendingNeverForgotten` | `ManagerRecoveryProofs` | `Spec => []NoPendingForgotten`, under `WatcherLearns` and `Listed = Repos` |
| `NoCircularWait` | `ManagerRecoveryProofs` | `Spec => [](~ManagerCanStep => NobodyWaits)` |
| `RestsWhenDone` | `ManagerRecoveryProofs` | `Spec => [](~ManagerCanStep => AcceptedDealtWith)`, under `WatcherLearns` |
| `ManagerTakesIn` | `ManagerRecoveryProofs` | `Spec => Intake!Spec`: the manager implements `TriggerIntake` |
| `TypeCorrect` | `PrunerProofs` | `Spec => []TypeOK` |
| `PrunerInvariant`, `TriggersCovered` | `PrunerProofs` | the pruner's invariant, `Spec => []TriggerCovered` |
| `DecisionInvariant` | `PrunerProofs` | `Spec => []DecisionInv`: what a prune is deleting was right to delete, and still is |
| `ProtectedKept`, `OnlyOldRunsDeleted` | `PrunerProofs` | `Spec => KeptUnlessMoved`, `Spec => OnlyOldRunsGo` |
| `TagTypes` | `VersionTagsProofs` | `Spec => []TypeOK` |
| `FinalsHaveCandidates` | `VersionTagsProofs` | `Spec => []FinalsOnCandidates`, under `VersionsApart` |
| `CandidatesNumberRuns` | `VersionTagsProofs` | `Spec => []CandidatesCountRuns` |
| `OneRun`, `NumbersOfLaterRuns`, `NothingAfterFinal` | `VersionTagsProofs` | `[]NamesOfOneRun`, `[]NumbersGrow`, `[]FinalIsLast` |
| `ReleasesDownloadable` | `VersionTagsProofs` | `Spec => []ReleaseDownloadable` |
| `TypeCorrect` | `PipelineRunTypeProofs` | `Spec => []TypeOK` |
| `NexusHonestCorrect`, `ChildrenSucceededCorrect` | `PipelineRunProofs` | `[]NexusHonest`, `[]ChildrenSucceeded` |
| `PromotionCorrect` | `PipelineRunProofs` | `Spec => ImplementsPromotion` |
| `ReusedBuildCorrect`, `GateCorrect` | `PipelineRunProofs` | `[]ReusedBuildComplete`, `GateOfOwnAnalysis` |
| `DigestsCorrect`, `GreenCorrect` | `PipelineRunProofs` | `[]RecordedDigestCurrent`, `[]GreenCommitBuilt` |
| `ShippedCorrect`, `ChartCorrect` | `PipelineRunProofs` | `[]ShippedAsRecorded`, `[]DeployedChartCurrent` |
| `ArchiveCorrect` | `PipelineRunProofs` | `Spec => FinishedRunArchived` |
| `ReceiverTypeCorrect`, `ConfigBetweenCorrect`, `TriggeredOnceCorrect`, `SkippedCorrect` | `ReceiverProofs` | `[]TypeOK`, `[]ConfigBetween`, `[]TriggeredOnce`, `[]SkippedNotTriggered` |
| `PushesServed` | `ReceiverProofs` | `Spec => [](~ReceiverCanStep => ...)`: at rest, every push is built or known to be lost |
| `ReceiverTakesIn` | `ReceiverProofs` | `Spec => Intake!Spec`: the receiver implements `TriggerIntake` |

They hold for any sets of requests, repositories, pipelines, faults, any channel
capacity and number of restarts. The assumptions on the constants are those named in
the modules (`RunsAssumption`, `SchedulerAssumption`, `WatcherAssumption`,
`ManagerAssumption`, `PrunerAssumption`, `TagsAssumption`, `WorkspaceAssumption`,
`ReceiverAssumption`): the functions have the right domains, the
"none" values are not elements, in the pruner there is a stage (the code always makes its three
buckets) and runs are kept for some hours, and in the workspace a repository comes first among
its checkouts and is not its own subrepository (that commits and repositories are different
things lets one map hold the images with and those without a tag).

**The argument for the manager.** `AtMostOneProgressing` is not inductive: the scheduler
creates a progressing run on the word of a list taken some steps earlier. `ManagerInv`
says that what each goroutine has read stays true for as long as it relies on it:

* `EmptyListHolds`: after a list that showed neither a pending nor a progressing run,
  there is none until the scheduler creates one, since nobody else creates runs and the
  watcher starts only pending ones;
* `SnapshotHolds`: if the run the watcher picked is *still pending*, then no run of the
  repository progresses and it is still the oldest: while it is pending, the scheduler
  can only add pending runs, with later timestamps (`TimestampsPast`). If it is no
  longer pending, the API server refuses the update by its resource version;
* `TriggeredOnce`: a request is in one place only, so a run is created at most once;
* `ResourcesWritten`: the Pipeline and the PVC written are still those of the request,
  as there is one scheduler.

The proof goes through the abstraction. `StepRefines` shows that under the invariant each
step is a step of `RunQueue` or leaves its variables unchanged; `RunQueueKeeps` shows
that steps of `RunQueue` keep mutual exclusion and the two read-stability facts; the
remaining parts are shown one action at a time. `Refinement`, `OrderOfStarts` and
`DefinitionOfRuns` then follow from the invariant without a further induction.

A pending run executes what its Pipeline holds when it *starts*, and a later trigger of the
branch may have overwritten it. `DefinitionOfPending` bounds what it may find: the definition
of its own request, or of one whose run does not exist yet or is not older. It is an invariant
of its own, inductive together with `ManagerInv`: by `TriggeredOnce` the scheduler overwrites
a Pipeline for a request that has no run yet, by `ResourcesWritten` a new run finds its own
definition, and by `TimestampsPast` the run of the later definition is not older.

**Recovery.** `WatcherLearns` says that the calls `repoList`, `listQueue` and `startOldest` and
the reply of the create do not fail. Under it, `ReachedNeverForgotten` holds for whatever the
boot scan reaches: a pending run is forgotten only by a restart, and only if its repository
is not in `Listed`. `NoPendingForgotten` has no such exception, so `PendingNeverForgotten`
adds `Listed = Repos`. Each part is necessary: `watcher_error` is the counterexample for
`listQueue`, and the others fail likewise.

**Coming to rest.** Liveness is out of the prover's reach, but not that the system never stops
too early. `ManagerCanStep` is the disjunction of the guards of the steps that `Fairness`
speaks of (TLC finds it equal to ENABLED of these steps in every state of the instances of
`manager_safety` and `manager_recovery`). `NoCircularWait` needs no hypothesis: the waiting of
handlers, scheduler and boot scan ends at the watcher, which never sends, so a state in which
nobody can step is one in which nobody waits. `RestsWhenDone` adds `ReachedNotForgotten`
and the accounting of triggers: in such a state no accepted trigger is left but those that were
dropped and those that a restart has forgotten. What remains for TLC is that the manager
does not run for ever without coming to rest (`TriggerEventuallyRuns`, `PollingEnds`).

**The pruner.** `PrunerInv` says that a recorded plan has a timer, and that a triggered
repository always has a prune that has not listed yet. `DecisionInv` adds what was decided
from a list: the runs kept are enough (`Cardinality(keep) >= MaxKeepRuns`), all others listed of the
stage are old and created no later than any of those kept, what is deleted is among these
others, and no pipeline that is deleted has a kept run *of the stage looked at*. It stays true
while runs are created, deleted by another prune, and grow older. What was kept for an earlier
stage has no such protection: a step that deletes its pipeline does so on account of another
listed run of that pipeline, which is of the stage looked at, hence of another stage
(`OfTwoStages`). So `ProtectedKept` and `OnlyOldRunsDeleted` need no hypothesis, and the exception
in their statements is the case of `pruner_stages`. They hold with `RunsDepend` and without, and
for pipelines that share a name. Two prunes of one repository may overlap, each with a list of
its own, so the claims are per prune; nothing is claimed of a run that was created after the
list and goes with a pipeline, since nothing in the code protects it.

**Version tags.** Tags are never removed, so what a list has shown stays true:
`CommitChecked` (a tag of the version on the commit) makes the final tag end up on a
candidate, since if the tag that was seen is the final one, the name is taken. The
hypothesis `VersionsApart` (no filter lists another version) is necessary:
`candidate_check` is the counterexample. `Anchored` says that each tag points back to one
of the same name and run in the pipeline's own repository, which is tagged first; with
`NamesUnique` this gives one run for each name, and with `Fresh` (a run that got all the
tags has a number above all earlier ones, and no release before it) the order of numbers.
`NumbersGrow` and `FinalIsLast` claim nothing of a run that missed tags (`sawAll`): after
a list that is cut off or answered with an error they are false. `CandidatesCountRuns`,
`NamesOfOneRun` and `FinalsOnCandidates` need no such condition. `ReleaseDownloadable` rests
on `TaggedSoFar`: a run has tagged the repositories it is past, a run that passes has tagged
all of them or none (`OwnTags`), and a taken name is refused, so nobody else's tag answers.

"Numbering starts at 1 and increases by one for every subsequent pipeline run"
(`docs/tasks/ods-start.adoc:29`) is `CandidatesCountRuns`: below a candidate every number from 1
on is that of an earlier run. It holds in a repository that no other pipeline tags, as an
umbrella's: a number is 1 or follows one that the list has shown (`PreviousExists`), that one is
by induction over the runs of the same pipeline, and a number that is taken is refused. A
component's repository has the umbrella's numbers as well; the umbrella may put 2 there after it
failed to put 1, so that nothing of this kind is true of it, and nothing is claimed.

**Pipeline runs.** The theorems hold for any number of repositories, nesting of
subrepositories, tasks, runs and faults. `PipelineRunTypeProofs` proves `TypeInv`: the types,
with `CheckedOut` (a loop over checkouts has them behind it) and `Downloads` (a manifest is of
a checkout). On it rest five invariants, each inductive relative to the ones before:

* `CertInv`: what stands for success is certified all the way round. An asset in sight
  that is a pipeline run is of a succeeded commit (`NexusHonest`); so are the files
  downloaded from it, those that are about to be uploaded, and therefore each subrepository
  behind the loop of `DownloadArtifacts`. `ChildrenSucceeded` alone is not inductive: the
  umbrella believes what is in Nexus, which an umbrella's run uploads in its turn.
* `BuildInv`: a *stamped* entry of the cache is whole. Only `Clean`, which every run starts
  with, makes the hit by mere presence right: after it, entries without a stamp are gone.
* `GateInv`: from the scan on, the run's own analysis is the last of the project's queue, or
  is done and the gate is its. It rests on runs of a repository being one at a time.
* `ImageInv`: digests in files, in uploads and in Nexus are those of the registry, unless
  the commit is in `misread`; only `BuildAndPush` changes the registry, and only after an
  inspection that found nothing.
* `DeployInv`, `ArchiveInv`: what the loops of deploy and finish have done for the checkouts
  behind them, which other repositories' runs do not undo: they never remove an
  asset, and replace it by one of the same path.

`PromotionCorrect` maps `succeeded` to the certified commits and the charts of a release to
what is live, and follows from `CertInv` one action at a time. The two action
properties follow from the invariants of the state before the step.

**Deployments.** `ShippedAsRecorded` speaks of environments without a registryHost: only there
are images copied under the commit for which the charts ask. `DeployedChartCurrent` is about the
chart of the release, not about the success of its upgrade: a run that finds no difference to
what a failed upgrade left behind passes, in the model as in the code.

**Receiver.** `ReceiverInv` joins to `TriggeredOnce` what a handler has established by each
of its calls (`HandlerOf`): from the skip check on, its commit is known; once it may send, the
configuration is not older; while it is not done, it has triggered nothing. Each of these
is stable while the branch and the other handlers move on, as branches only grow. What a run
executes is the definition of *some* trigger (`RunsKnown`), so `ConfigBetween` bounds it by what
holds of all triggers: its configuration is not older than that trigger's commit, and was read
before the run checked out. That it is not older than the run's own commit is not claimed: a
handler that was overtaken may write an older definition last. `PushInv` follows a push event
further: its trigger is of the pushed commit, and its handler ends with 200, 500, because the
commit asks to be skipped, or cut off by a restart. `PushesServed` is then the safety part of
`PushBuilt`: in a state in which handlers, scheduler and watcher can do no more
(`ReceiverCanStep`, which TLC finds equal to ENABLED of the fair steps) the channel is empty,
so an accepted push was dropped, its run cancelled, or is built, and what it built is its commit
or a later one. `Forgone` lists the exceptions, each of which is in the code: an error answered
with 500, a handler cut off, a trigger dropped by a failing call or a restart, a cancelled run.
`ReceiverTakesIn` maps a handler before its send to a "new" request, one at the send to
"sending", and a finished one by its answer; `ManagerTakesIn` maps `hook` and
`triggeredPipelines` as they are.

## 5. Only model-checked, and not modelled

Only model-checked: liveness (`TriggerEventuallyRuns`, `PollingEnds`, `TriggerPruned`,
`PushBuilt`), because the prover handles neither fairness nor ENABLED; and that the guards in
`ManagerCanStep` and `ReceiverCanStep` are those of the fair steps. Every invariant and action
property of a passing run is a theorem.

Only proved: `DecisionInv`, `ReachedNotForgotten`, the two theorems about rest of the manager and the one of
the receiver, and the two refinements of `TriggerIntake`. TLC agreed with each of them on the
instances of the runs before it was proved.

Abstracted: the content of a webhook and of a pipeline (which task runs what), the text of names
and labels, logging,
metrics, the wording of answers, the five-minute timeout of a schedule (it is an error of
the call under way). In `PipelineManager` a handler's reading of Bitbucket is one step with a
free outcome; `Receiver` takes it apart.

Names are not injective: a Pipeline is called by component and branch, with characters removed, in
lower case and shortened (`internal/manager/pipeline.go:87`), so that two branches, or branches of two
repositories, may share one. In `Pruner` and in `PipelineManager` pipelines may be shared by
repositories; `Receiver` is about one branch and its Pipeline.

In `PipelineRun`: a repository has one build, one image and one chart (a subrepository without a
chart is skipped by the code); the digest that an inspection prints keeps its newline
(`cmd/build-push-image/main.go:393`), the one read from a file does not (line 402), which nothing
compares; a repository is built
from one branch, the one a run for it would check out; a task that runs parallel to another is
taken to follow it; the number of polls of the analysis, the content of reports, of values
files and of code insights. A cancelled run ends at once: how long its pods still write is
up to Kubernetes. The manifest is not lost or garbled separately from the artifacts.

In `VersionTags`, runs without an environment or for dev (nothing is tagged) and runs without
a version (refused before any call) are left out, and nobody but the pipelines creates or
deletes tags.

Not modelled: the notification of `ods-finish` (one call, whose failure is logged), the code
insight of `build-push-image` (nothing reads it), the output directory of `artifact-download`
and its tag WIP (the working directory of a person; of a tag that does not exist it silently
downloads nothing, as the status of Bitbucket's answer is not looked at),
parsing and validation of `ods.yaml` (pure), the HTTP clients (one call per method,
no state), test support, documentation generator and Helm templates other than the rollout
strategy.

## 6. Plan

In the order of importance for the system:

1. *Manager core* (done): `TektonRuns`, `Scheduler`, `Watcher`, `PipelineManager`,
   `RunQueue`, `ManagerRollout`, with proofs.
2. *Pruner* (done): `Pruner`, with proofs.
3. *Version tags* (done): `VersionTags`, with proofs.
4. *Artifacts and tasks* (done): `Workspace`, the five task modules, `PipelineRun`,
   `Promotion`, with proofs.
5. *Receiver* (done): `Receiver`, with proofs.

What would come next:

6. *Receiver and manager as one*: both implement `TriggerIntake`; `DefinitionNotOlder` says of
   `PipelineManager`, in the order of runs, which definition a pending run may find, and
   `ConfigBetween` of `Receiver` what it may be of. One module with both would say it of the
   calls of the scheduler as well.
7. *Volume*: a stopping run that still writes while the next one empties the workspace, and
   tasks that start along with `ods-start`.
8. *artifact-download* to the end: the assets of the commits that `DownloadedCommits` names.
