---------------------------- MODULE VersionTags ----------------------------
(***************************************************************************)
(* The version tags that ods-start puts on the checked out commits of a    *)
(* repository and its subrepositories: release candidates v1.0.0-rc.1,     *)
(* v1.0.0-rc.2 and so on when a run targets a qa environment, the final    *)
(* tag v1.0.0 when it targets prod.                                        *)
(*                                                                         *)
(* Bitbucket lists and creates tags; each of these calls is a step, and a  *)
(* run may end between any two of them: calls fail, runs are cancelled.    *)
(* The manager has one run of a pipeline's repository at work at a time,   *)
(* but a subrepository has a pipeline of its own, which tags it as well.   *)
(***************************************************************************)
EXTENDS Naturals, Sequences, FiniteSets

CONSTANTS
  Pipelines,
  Repos,
  RepoOrder,   \* of each pipeline: its repository, then the subrepositories
  Commits,
  Versions,
  Matches,     \* the versions whose tags the filter of a version lists
  PageSize,    \* the tags Bitbucket returns at most; further pages are not read
  ListErrors,  \* whether Bitbucket may answer a list with an error
  MaxRuns,     \* bound: the runs of each pipeline
  NoVersion    \* no version

ASSUME TagsAssumption ==
  /\ RepoOrder \in [Pipelines -> Seq(Repos) \ {<<>>}]
  /\ Matches \in [Versions -> SUBSET Versions]
  /\ \A v \in Versions : v \in Matches[v]
  /\ PageSize \in Nat /\ MaxRuns \in Nat /\ ListErrors \in BOOLEAN
  /\ NoVersion \notin Versions

VARIABLES
  tags,        \* the tags in Bitbucket, with the pipeline and run that put them
  runs         \* of each pipeline, the number of runs so far

VARIABLES  \* of the latest run of each pipeline
  pc,          \* "none", "list", "create", "passed", "failed"
  stage,       \* the stage of its environment
  version,     \* the version of its context
  gitCommits,  \* the checked out commits, in the order of RepoOrder
  at,          \* the position in RepoOrder it is about to list or tag
  number,      \* the number of its candidate; 0 stands for the final tag
  sawAll       \* history: whether it got all the tags of its own repository

context == <<runs, stage, version, gitCommits>>
vars == <<tags, context, pc, at, number, sawAll>>

Tags == [repo : Repos, version : Versions, number : Nat, commit : Commits,
         pipeline : Pipelines, run : Nat, sawAll : BOOLEAN]

Active(p) == pc[p] \in {"list", "create"}

TypeOK ==
  /\ tags \subseteq Tags
  /\ runs \in [Pipelines -> Nat]
  /\ pc \in [Pipelines -> {"none", "list", "create", "passed", "failed"}]
  /\ stage \in [Pipelines -> {"none", "qa", "prod"}]
  /\ version \in [Pipelines -> Versions \cup {NoVersion}]
  /\ gitCommits \in [Pipelines -> Seq(Commits)]
  /\ at \in [Pipelines -> Nat \ {0}]
  /\ number \in [Pipelines -> Nat]
  /\ sawAll \in [Pipelines -> BOOLEAN]
  /\ \A p \in Pipelines : Active(p) =>
       /\ version[p] \in Versions /\ stage[p] # "none"
       /\ Len(gitCommits[p]) = Len(RepoOrder[p])
       /\ at[p] <= Len(RepoOrder[p])

(* Nothing is tagged, nothing has run.                                     *)
Init ==
  /\ tags = {}
  /\ runs = [p \in Pipelines |-> 0]
  /\ pc = [p \in Pipelines |-> "none"]
  /\ stage = [p \in Pipelines |-> "none"]
  /\ version = [p \in Pipelines |-> NoVersion]
  /\ gitCommits = [p \in Pipelines |-> <<>>]
  /\ at = [p \in Pipelines |-> 1]
  /\ number = [p \in Pipelines |-> 0]
  /\ sawAll = [p \in Pipelines |-> TRUE]

-----------------------------------------------------------------------------
(* What the code reads from the tags of a repository.                      *)

RepoAt(p) == RepoOrder[p][at[p]]
CommitAt(p) == gitCommits[p][at[p]]

Matching(q, v) == {t \in tags : t.repo = q /\ t.version \in Matches[v]}

(* What a list shows: the first page, in an order that is left open.  The  *)
(* status of the answer is not looked at, and an error decodes to no tags. *)
TagList(q, v) ==
  {page \in SUBSET Matching(q, v) :
     \/ /\ Cardinality(Matching(q, v)) <= PageSize
        /\ page = Matching(q, v)
     \/ /\ Cardinality(Matching(q, v)) > PageSize
        /\ Cardinality(page) = PageSize
     \/ ListErrors /\ page = {}}

TagListContainsFinalVersion(page, v) ==
  \E t \in page : t.version = v /\ t.number = 0

Candidates(page, v) == {t \in page : t.version = v /\ t.number > 0}

(* n is the number LatestReleaseCandidate returns.                         *)
HighestCandidate(page, v, n) ==
  /\ n = 0 \/ \E t \in Candidates(page, v) : t.number = n
  /\ \A t \in Candidates(page, v) : t.number <= n

(* The tag LatestReleaseCandidate returns, if there is a candidate: it is  *)
(* the address of the loop's variable, which by the end of the loop holds  *)
(* the tag listed last, whichever that is.                                 *)
ReturnedTags(page, v) == IF Candidates(page, v) = {} THEN {} ELSE page

(* Mutant: any release candidate will do.                                  *)
AnyCandidateWillDo(p, t) == TRUE

(* A tag the check compares with the checked out commit.                   *)
ProdTagRequirementsMet(p, t) == t.commit = CommitAt(p)

-----------------------------------------------------------------------------
(* The steps of a run.                                                     *)

(* The manager starts a run of p for an environment of stage qa or prod    *)
(* (for dev, nothing is tagged); its branch, and with it the version and   *)
(* the commits, may be any.                                                *)
StartRun(p) ==
  /\ ~Active(p) /\ runs[p] < MaxRuns
  /\ runs' = [runs EXCEPT ![p] = @ + 1]
  /\ pc' = [pc EXCEPT ![p] = "list"]
  /\ \E s \in {"qa", "prod"} : stage' = [stage EXCEPT ![p] = s]
  /\ \E v \in Versions : version' = [version EXCEPT ![p] = v]
  /\ \E cs \in [DOMAIN RepoOrder[p] -> Commits] :
       gitCommits' = [gitCommits EXCEPT ![p] = cs]
  /\ at' = [at EXCEPT ![p] = 1]
  /\ number' = [number EXCEPT ![p] = 0]
  /\ UNCHANGED <<tags, sawAll>>

End(p, result) ==
  /\ pc' = [pc EXCEPT ![p] = result]
  /\ UNCHANGED <<context, at, number>>

(* Mutant: only a run for prod looks for the final tag.                    *)
AlreadyReleasedToProd(p, page) ==
  at[p] = 1 /\ stage[p] = "prod" /\ TagListContainsFinalVersion(page, version[p])

(* Mutant: a final tag in any of the repositories will do.                 *)
AlreadyReleasedAnywhere(p, page) == TagListContainsFinalVersion(page, version[p])

(* A final tag in the pipeline's own repository: nothing else is done.     *)
AlreadyReleased(p, page) ==
  at[p] = 1 /\ TagListContainsFinalVersion(page, version[p])

(* Mutant: a candidate on the checked out commit is completed, not repeated. *)
CompleteCandidate(p, page) ==
  \E n \in {0} \cup {t.number : t \in page} :
    /\ HighestCandidate(page, version[p], n)
    /\ pc' = [pc EXCEPT ![p] = "create"]
    /\ IF Len(RepoOrder[p]) > 1 /\ \E t \in page : t.number = n /\ t.commit = CommitAt(p)
       THEN at' = [at EXCEPT ![p] = 2] /\ number' = [number EXCEPT ![p] = n]
       ELSE number' = [number EXCEPT ![p] = n + 1] /\ UNCHANGED at
    /\ UNCHANGED context

(* Mutant: the number has to be free in the subrepositories as well.       *)
NextFreeCandidate(p, page) ==
  LET known == {t \in tags : \E i \in DOMAIN RepoOrder[p] : t.repo = RepoOrder[p][i]}
  IN /\ pc' = [pc EXCEPT ![p] = "create"]
     /\ \E n \in {0} \cup {t.number : t \in known} :
          /\ HighestCandidate(known, version[p], n)
          /\ number' = [number EXCEPT ![p] = n + 1]
     /\ UNCHANGED <<context, at>>

(* qa: the next number is that of the candidate in all repositories.       *)
NextCandidate(p, page) ==
  /\ pc' = [pc EXCEPT ![p] = "create"]
  /\ \E n \in {0} \cup {t.number : t \in page} :
       /\ HighestCandidate(page, version[p], n)
       /\ number' = [number EXCEPT ![p] = n + 1]
  /\ UNCHANGED <<context, at>>

(* prod: the checked out commit has to be the one of the returned tag.     *)
CheckProdTagRequirements(p, page) ==
  \E t \in ReturnedTags(page, version[p]) :
    /\ ProdTagRequirementsMet(p, t)
    /\ pc' = [pc EXCEPT ![p] = "create"]
    /\ UNCHANGED <<context, at, number>>

RefuseProd(p, page) ==
  /\ \/ ReturnedTags(page, version[p]) = {}
     \/ \E t \in ReturnedTags(page, version[p]) : ~ProdTagRequirementsMet(p, t)
  /\ End(p, "failed")

(* The tags of a repository are listed: of the pipeline's own for qa, of   *)
(* every repository before it is tagged for prod.                          *)
ListTags(p) ==
  /\ pc[p] = "list"
  /\ \E page \in TagList(RepoAt(p), version[p]) :
       /\ IF AlreadyReleased(p, page) THEN End(p, "passed")
          ELSE IF stage[p] = "qa" THEN NextCandidate(p, page)
          ELSE CheckProdTagRequirements(p, page) \/ RefuseProd(p, page)
       /\ IF at[p] > 1 THEN UNCHANGED sawAll
          ELSE sawAll' = [sawAll EXCEPT ![p] = page = Matching(RepoAt(p), version[p])]
  /\ UNCHANGED tags

(* Mutant: the last repository is not noticed.                             *)
ProceedPastTheEnd(p) ==
  IF at[p] > Len(RepoOrder[p]) THEN End(p, "passed")
  ELSE /\ at' = [at EXCEPT ![p] = @ + 1]
       /\ pc' = [pc EXCEPT ![p] = IF stage[p] = "prod" THEN "list" ELSE "create"]
       /\ UNCHANGED <<context, number>>

(* On to the next repository, or done.                                     *)
Proceed(p) ==
  IF at[p] = Len(RepoOrder[p]) THEN End(p, "passed")
  ELSE /\ at' = [at EXCEPT ![p] = @ + 1]
       /\ pc' = [pc EXCEPT ![p] = IF stage[p] = "prod" THEN "list" ELSE "create"]
       /\ UNCHANGED <<context, number>>

(* Bitbucket refuses to create a tag that exists, at whichever commit.     *)
NameTaken(p) ==
  \E t \in tags : t.repo = RepoAt(p) /\ t.version = version[p] /\ t.number = number[p]

NewTag(p) ==
  [repo |-> RepoAt(p), version |-> version[p], number |-> number[p],
   commit |-> CommitAt(p), pipeline |-> p, run |-> runs[p], sawAll |-> sawAll[p]]

(* The tag is created; the reply may be lost, which ends the run.          *)
CreateTag(p) ==
  /\ pc[p] = "create" /\ ~NameTaken(p)
  /\ tags' = tags \cup {NewTag(p)}
  /\ Proceed(p) \/ End(p, "failed")
  /\ UNCHANGED sawAll

(* A call fails, a tag is refused, or the run is cancelled.                *)
Fail(p) ==
  /\ Active(p)
  /\ End(p, "failed")
  /\ UNCHANGED <<tags, sawAll>>

Next == \E p \in Pipelines : StartRun(p) \/ ListTags(p) \/ CreateTag(p) \/ Fail(p)

Spec == Init /\ [][Next]_vars

-----------------------------------------------------------------------------
(* artifact-download gets what the runs for a tag have left.               *)

(* The commit a tag of a repository points to.  The status of the answer   *)
(* is not looked at: without such a tag the commit is empty, and nothing   *)
(* is found for it.                                                        *)
TagGet(q, v, n) ==
  {t.commit : t \in {s \in tags : s.repo = q /\ s.version = v /\ s.number = n}}

(* Of each repository, the commit whose artifacts are downloaded for a tag *)
(* other than WIP, which is looked up under one name everywhere.           *)
DownloadedCommits(p, v, n) == [i \in DOMAIN RepoOrder[p] |-> TagGet(RepoOrder[p][i], v, n)]

-----------------------------------------------------------------------------
(* Properties.                                                             *)

(* A final tag is put only on a commit that is a release candidate of the  *)
(* same version in that repository (docs/tasks/ods-start.adoc): the check  *)
(* precedes the tag by several calls, while other pipelines tag as well.   *)
FinalsOnCandidates ==
  \A f \in tags : f.number = 0 =>
    \E t \in tags : /\ t.repo = f.repo /\ t.version = f.version
                    /\ t.commit = f.commit /\ t.number > 0

(* The tags of one name that a pipeline puts in its repositories are of    *)
(* one run: a candidate or a release that failed half way is never         *)
(* completed by a later run, which may have other commits checked out.     *)
NamesOfOneRun ==
  \A s, t \in tags :
    s.pipeline = t.pipeline /\ s.version = t.version /\ s.number = t.number => s.run = t.run

(* A later run of a pipeline tags its candidates with a higher number,     *)
(* also after runs that failed half way and whatever the subrepositories'  *)
(* own pipelines tag in between, if it got all the tags.                   *)
NumbersGrow ==
  \A s, t \in tags :
    /\ s.pipeline = t.pipeline /\ s.version = t.version /\ s.run < t.run
    /\ s.number > 0 /\ t.number > 0 /\ t.sawAll
    => s.number < t.number

(* No other pipeline tags the repository of p.                             *)
OnlyTaggedBy(p) ==
  \A o \in Pipelines \ {p} : \A i \in DOMAIN RepoOrder[o] : RepoOrder[o][i] # RepoOrder[p][1]

(* In a repository that no other pipeline tags, the candidates count the   *)
(* runs: below a candidate, every number from 1 on belongs to an earlier   *)
(* run (docs/tasks/ods-start.adoc), whichever runs failed and although a   *)
(* list may be cut off or be an error, as a number that is taken is        *)
(* refused.  A subrepository has numbers of the umbrella's runs as well,   *)
(* which need not start at 1 there: nothing is said of it.                 *)
CandidatesCountRuns ==
  \A t \in tags :
    t.repo = RepoOrder[t.pipeline][1] /\ OnlyTaggedBy(t.pipeline) =>
      \A n \in 1..(t.number - 1) : \E s \in tags :
        s.repo = t.repo /\ s.version = t.version /\ s.number = n /\ s.run < t.run

(* Once a run of a pipeline has put a final tag, no later run that got all *)
(* the tags puts one of that version (docs/tasks/ods-start.adoc).          *)
FinalIsLast ==
  \A f, t \in tags :
    /\ f.number = 0 /\ t.pipeline = f.pipeline /\ t.version = f.version /\ t.sawAll
    => t.run <= f.run

(* Once a run that put tags has passed, its tag identifies the commit it   *)
(* had checked out of every repository: artifact-download, which is told   *)
(* nothing else, gets what this run built.  Other pipelines may tag the    *)
(* subrepositories before, between and after the run's own tags.           *)
ReleaseDownloadable ==
  \A p \in Pipelines :
    pc[p] = "passed" /\ (\E t \in tags : t.pipeline = p /\ t.run = runs[p]) =>
      \A i \in DOMAIN RepoOrder[p] :
        DownloadedCommits(p, version[p], number[p])[i] = {gitCommits[p][i]}

(* A run for prod passes only if the commit it has checked out is a        *)
(* candidate of its version, as there must have been a run for qa.         *)
ProdNeedsCandidate ==
  \A p \in Pipelines : stage[p] = "prod" /\ pc[p] = "passed" =>
    \E t \in tags : /\ t.repo = RepoOrder[p][1] /\ t.version = version[p]
                    /\ t.commit = gitCommits[p][1] /\ t.number > 0

=============================================================================
