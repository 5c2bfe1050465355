------------------------------- MODULE OdsStart -------------------------------
(***************************************************************************)
(* Task ods-start (cmd/start): empties the workspace but for the cache,    *)
(* checks out the repository and its subrepositories, downloads the        *)
(* artifacts of the checked out commits.  The version tags it applies in   *)
(* between are the subject of module VersionTags.                          *)
(***************************************************************************)
EXTENDS Workspace

(***************************************************************************)
(* pkg/pipelinectxt: artifacts of a commit lie in the group of the commit, *)
(* one folder per kind; those of a failed run in a folder of the run above *)
(* that (folder > 0), from where a download puts them out of sight.        *)
(***************************************************************************)
Found(store, c) == {a \in assets : a.store = store /\ a.commit = c}

SourceRepository(c) ==
  IF Found("permanent", c) # {} THEN "permanent"
  ELSE IF Found("temporary", c) # {} THEN "temporary" ELSE "none"

\* Mutant: artifacts of failed runs are downloaded next to the others.
DownloadGroupFlat(c) == {a.file : a \in Found(SourceRepository(c), c)}

DownloadGroup(c) ==
  {a.file : a \in {a \in Found(SourceRepository(c), c) : a.folder = 0}}

(***************************************************************************)
(* The workspace is emptied.  Of the build cache, entries without a stamp  *)
(* go, and those that were not used for a number of days.                  *)
(***************************************************************************)
(* Mutant: entries without a stamp are kept. *)
RecentlyUsedAll(entries) == {entries}

RecentlyUsed(entries) == SUBSET {e \in entries : e.stamped}

CleanCache(r) == \E kept \in RecentlyUsed(cache[r]) : cache' = [cache EXCEPT ![r] = kept]

DeleteDirectoryContentsSpareCache(r) ==
  /\ head'     = [head EXCEPT ![r] = [q \in Repos |-> NoCommit]]
  /\ files'    = [files EXCEPT ![r] = [q \in Repos |-> {}]]
  /\ manifest' = [manifest EXCEPT ![r] = [q \in Repos |-> NoManifest]]
  /\ built'    = [built EXCEPT ![r] = {}]

Clean(r) ==
  /\ At(r, "clean")
  /\ DeleteDirectoryContentsSpareCache(r)
  /\ CleanCache(r)
  /\ Proceed(r, "checkout")
  /\ UNCHANGED <<sonar, git, assets, registry, cluster, counts, succeeded>>

(***************************************************************************)
(* One repository is checked out at the tip of its branch, and the context *)
(* written next to it.  For the own repository the build status follows,   *)
(* and what ods.yaml of this checkout lists are its subrepositories.       *)
(***************************************************************************)
\* Mutant: every checkout is of the branch of the main repository.
RevisionOwn(r) == tip[r]

Revision(r) == tip[Here(r)]

CheckoutAndAssembleContext(r) ==
  /\ At(r, "checkout")
  /\ head' = [head EXCEPT ![r][Here(r)] = Revision(r)]
  /\ IF Here(r) = r THEN BuildStatusCreate(Revision(r), "INPROGRESS") ELSE UNCHANGED status
  /\ IF LastHere(r)
       THEN Proceed(r, "download")
       ELSE job' = [job EXCEPT ![r].at = @ + 1] /\ UNCHANGED pc
  /\ UNCHANGED <<files, manifest, builds, tip, assets, registry, cluster, counts, succeeded>>

(***************************************************************************)
(* The artifacts of one checkout are downloaded.  A subrepository without  *)
(* a directory of pipeline runs among them ends the run.  The status of a  *)
(* download is not looked at: an error page may be stored as the artifact. *)
(***************************************************************************)
\* Mutant: the subrepositories are not looked at.
PipelineRunExistsAlways(r, q, F) == TRUE

PipelineRunExists(r, q, F) == q = r \/ \E f \in F : f.kind = "run"

Downloaded(r, q, F) ==
  /\ files'    = [files EXCEPT ![r][q] = F]
  /\ manifest' = [manifest EXCEPT
       ![r][q] = [store |-> SourceRepository(head[r][q]), ids |-> Ids(F)]]
  /\ IF ~ PipelineRunExists(r, q, F) THEN Fatal(r)
     ELSE IF LastHere(r) THEN Proceed(r, AfterStart(r))
     ELSE job' = [job EXCEPT ![r].at = @ + 1] /\ UNCHANGED pc
  /\ UNCHANGED <<head, builds, git, assets, registry, cluster, runs, succeeded>>

DownloadArtifacts(r) ==
  /\ At(r, "download")
  /\ Downloaded(r, Here(r), DownloadGroup(head[r][Here(r)]))
  /\ UNCHANGED faults

ErrorPage(f) == [f EXCEPT !.value = Garbled]

DownloadGarbled(r) ==
  /\ At(r, "download") /\ Fault
  /\ LET F == DownloadGroup(head[r][Here(r)])
     IN  \E f \in F : Downloaded(r, Here(r), Written(F, {ErrorPage(f)}))

StartStep(r) == \/ Clean(r) \/ CheckoutAndAssembleContext(r)
                \/ DownloadArtifacts(r) \/ DownloadGarbled(r)
=============================================================================
