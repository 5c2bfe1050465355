------------------------------- MODULE OdsBuild -------------------------------
(***************************************************************************)
(* A build task: the build script around the build cache                   *)
(* (build/package/scripts), then the SonarQube step (cmd/sonar).           *)
(***************************************************************************)
EXTENDS Workspace

Report == File("report", 0, 0)
CopyArtifacts(r)   == Write(r, {Report})   \* of the compiler, the linter and the tests
GenerateReports(r) == Write(r, {Report})   \* of the analysis
Tree(r) == TreeOf[OwnCommit(r)]
Entry(r, whole, stamped) == [tree |-> Tree(r), whole |-> whole, stamped |-> stamped]
Cached(r, e) == cache' = [cache EXCEPT ![r] = {d \in @ : d.tree # Tree(r)} \cup {e}]

(***************************************************************************)
(* An entry of the cache is a directory named after the tree; that it is   *)
(* there counts as a hit.  Its reports and its output are copied out, and  *)
(* it is stamped.  When a copy fails, the task falls back to a build.      *)
(***************************************************************************)
CopyBuildIfCached(r) ==
  /\ At(r, "build")
  /\ \E e \in cache[r] :
       /\ e.tree = Tree(r)
       /\ built' = [built EXCEPT ![r] = {[tree |-> e.tree, whole |-> e.whole]}]
       /\ Cached(r, Entry(r, e.whole, TRUE))
  /\ CopyArtifacts(r)
  /\ Proceed(r, "scan")
  /\ UNCHANGED <<checkout, sonar, git, assets, registry, cluster, counts, succeeded>>

\* Reports are copied to the artifacts whether or not the build succeeds.
Build(r) ==
  /\ At(r, "build")
  /\ CopyArtifacts(r)
  /\ built' = [built EXCEPT ![r] = {[tree |-> Tree(r), whole |-> TRUE]}]
  /\ Proceed(r, "save")
  /\ UNCHANGED <<checkout, cache, sonar, git, assets, registry, cluster, counts, succeeded>>

BuildFails(r) ==
  /\ At(r, "build") /\ Fault
  /\ CopyArtifacts(r)
  /\ Fatal(r)
  /\ UNCHANGED <<checkout, builds, git, assets, registry, cluster, runs, succeeded>>

\* The directory is made anew, filled, and stamped at the end.
BeginCacheBuild(r) ==
  /\ At(r, "save")
  /\ Cached(r, Entry(r, FALSE, FALSE))
  /\ Goto(r, "stamp")
  /\ UNCHANGED <<job, checkout, files, built, sonar, git, assets, registry, cluster, counts, succeeded>>

EndCacheBuild(r) ==
  /\ At(r, "stamp")
  /\ Cached(r, Entry(r, TRUE, TRUE))
  /\ Goto(r, "scan")
  /\ UNCHANGED <<job, checkout, files, built, sonar, git, assets, registry, cluster, counts, succeeded>>

(***************************************************************************)
(* The scanner hands the analysis to the server, which works on the tasks  *)
(* of a project in turn; a project has one quality gate (Community         *)
(* Edition), that of the analysis done last.                               *)
(***************************************************************************)
ComputeEngineTaskID(r) == job[r].id

Scan(r) ==
  /\ At(r, "scan")
  /\ sonar' = [sonar EXCEPT ![r].queue = Append(@, ComputeEngineTaskID(r))]
  /\ Goto(r, "analysis")
  /\ UNCHANGED <<job, checkout, files, built, cache, git, assets, registry, cluster, counts, succeeded>>

Analysed(r, result) ==
  LET n == Head(sonar[r].queue)
  IN  /\ sonar[r].queue # << >>
      /\ sonar' = [sonar EXCEPT ![r] =
           [queue  |-> Tail(@.queue),
            gate   |-> IF result = "FAILED" THEN @.gate ELSE [run |-> n, status |-> result],
            failed |-> IF result = "FAILED" THEN @.failed \cup {n} ELSE @.failed]]
      /\ UNCHANGED <<run, checkout, files, built, cache, git, assets, registry, cluster,
                     runs, succeeded>>

AnalysisPasses(r) == Analysed(r, "OK") /\ UNCHANGED faults
AnalysisFails(r)  == Fault /\ \E s \in {"ERROR", "FAILED"} : Analysed(r, s)

InQueue(r, n) == \E i \in DOMAIN sonar[r].queue : sonar[r].queue[i] = n

\* Mutant: a task that has not finished counts as successful.
TaskStatusOptimistic(r, n) == IF n \in sonar[r].failed THEN "FAILED" ELSE "SUCCESS"

TaskStatus(r, n) == IF InQueue(r, n) THEN "PENDING"
                    ELSE IF n \in sonar[r].failed THEN "FAILED" ELSE "SUCCESS"

\* The task is polled a number of times; only its success leads on.
AwaitComputeEngineTask(r) ==
  /\ At(r, "analysis")
  /\ TaskStatus(r, ComputeEngineTaskID(r)) # "PENDING"
  /\ IF TaskStatus(r, ComputeEngineTaskID(r)) = "SUCCESS"
       THEN GenerateReports(r) /\ Proceed(r, "gate")
       ELSE Fatal(r) /\ UNCHANGED files
  /\ UNCHANGED <<checkout, builds, git, assets, registry, cluster, counts, succeeded>>

\* It is asked for by project, not by analysis.
QualityGateGet(r) == sonar[r].gate.status

CheckQualityGate(r) ==
  /\ At(r, "gate")
  /\ GenerateReports(r)
  /\ IF QualityGateGet(r) = "OK" THEN Proceed(r, AfterBuild(r)) ELSE Fatal(r)
  /\ UNCHANGED <<checkout, builds, git, assets, registry, cluster, counts, succeeded>>

BuildStep(r) ==
  \/ CopyBuildIfCached(r) \/ Build(r) \/ BuildFails(r)
  \/ BeginCacheBuild(r) \/ EndCacheBuild(r)
  \/ Scan(r) \/ AwaitComputeEngineTask(r) \/ CheckQualityGate(r)
=============================================================================
