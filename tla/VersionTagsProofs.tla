------------------------- MODULE VersionTagsProofs -------------------------
(***************************************************************************)
(* What VersionTags promises of the tags, for any pipelines that share     *)
(* repositories and any number of runs.  Tags are never removed, and a     *)
(* pipeline's own repository is always tagged first: so each tag points    *)
(* back to one in that repository, where names are taken once.             *)
(***************************************************************************)
EXTENDS VersionTags, TLAPS

USE TagsAssumption
USE DEF vars, context

-----------------------------------------------------------------------------
(* What a step of a run does, whatever its outcome.                        *)

(* A run starts with nothing listed; the other pipelines' runs go on.      *)
LEMMA StartRunEffect ==
  ASSUME TypeOK, NEW p \in Pipelines, StartRun(p)
  PROVE  /\ ~Active(p) /\ UNCHANGED <<tags, sawAll>> /\ runs'[p] = runs[p] + 1
         /\ pc'[p] = "list" /\ at'[p] = 1 /\ number'[p] = 0
         /\ version'[p] \in Versions /\ stage'[p] \in {"qa", "prod"}
         /\ \A o \in Pipelines : o # p =>
              /\ runs'[o] = runs[o] /\ pc'[o] = pc[o] /\ at'[o] = at[o]
              /\ number'[o] = number[o] /\ version'[o] = version[o]
              /\ stage'[o] = stage[o] /\ gitCommits'[o] = gitCommits[o]
  BY DEF StartRun, TypeOK

(* The list leaves the tags alone and changes the number for qa only.      *)
LEMMA ListTagsEffect ==
  ASSUME TypeOK, NEW p \in Pipelines, ListTags(p)
  PROVE  /\ pc[p] = "list"
         /\ UNCHANGED <<tags, runs, stage, version, gitCommits, at>>
         /\ pc' \in [Pipelines -> {"none", "list", "create", "passed", "failed"}]
         /\ number' \in [Pipelines -> Nat]
         /\ pc'[p] \in {"create", "passed", "failed"}
         /\ \A o \in Pipelines : o # p => pc'[o] = pc[o] /\ number'[o] = number[o]
         /\ pc'[p] = "create" /\ stage[p] = "qa" => number'[p] > 0
         /\ stage[p] # "qa" => number' = number
         /\ sawAll' \in [Pipelines -> BOOLEAN]
         /\ \A o \in Pipelines : o # p \/ at[p] > 1 => sawAll'[o] = sawAll[o]
  <1>1. pc[p] = "list" /\ tags' = tags
    BY DEF ListTags
  <1>2. PICK page \in TagList(RepoAt(p), version[p]) :
          /\ IF AlreadyReleased(p, page) THEN End(p, "passed")
             ELSE IF stage[p] = "qa" THEN NextCandidate(p, page)
             ELSE CheckProdTagRequirements(p, page) \/ RefuseProd(p, page)
          /\ IF at[p] > 1 THEN UNCHANGED sawAll
             ELSE sawAll' = [sawAll EXCEPT ![p] = page = Matching(RepoAt(p), version[p])]
    BY DEF ListTags
  <1>3. page \subseteq Tags
    BY DEF TagList, Matching, TypeOK
  <1> /\ sawAll' \in [Pipelines -> BOOLEAN]
      /\ \A o \in Pipelines : o # p \/ at[p] > 1 => sawAll'[o] = sawAll[o]
    <2> DEFINE whole == page = Matching(RepoAt(p), version[p])
    <2>1. whole \in BOOLEAN
      OBVIOUS
    <2> HIDE DEF whole
    <2>2. QED
      BY <1>2, <2>1 DEF TypeOK, whole
  <1>4. CASE End(p, "passed") \/ RefuseProd(p, page)
    BY <1>1, <1>4 DEF End, RefuseProd, TypeOK
  <1>5. CASE stage[p] = "qa" /\ NextCandidate(p, page)
    <2>1. PICK n \in {0} \cup {t.number : t \in page} : number' = [number EXCEPT ![p] = n + 1]
      BY <1>5 DEF NextCandidate
    <2>2. n \in Nat
      BY <1>3 DEF Tags
    <2>3. QED
      BY <1>1, <1>5, <2>1, <2>2 DEF NextCandidate, TypeOK
  <1>6. CASE stage[p] # "qa" /\ CheckProdTagRequirements(p, page)
    BY <1>1, <1>6 DEF CheckProdTagRequirements, TypeOK
  <1>7. QED
    BY <1>2, <1>4, <1>5, <1>6

(* The repository and the commit of a run at work.                         *)
LEMMA AtWork ==
  ASSUME TypeOK, NEW p \in Pipelines, Active(p)
  PROVE  /\ RepoAt(p) \in Repos /\ CommitAt(p) \in Commits
         /\ version[p] \in Versions /\ stage[p] \in {"qa", "prod"}
         /\ at[p] \in 1..Len(RepoOrder[p]) /\ Len(RepoOrder[p]) \in Nat
         /\ RepoOrder[p][1] \in Repos
  <1>1. RepoOrder[p] \in Seq(Repos) /\ RepoOrder[p] # <<>>
    OBVIOUS
  <1>2. gitCommits[p] \in Seq(Commits) /\ Len(gitCommits[p]) = Len(RepoOrder[p])
    BY DEF TypeOK
  <1>3. at[p] \in 1..Len(RepoOrder[p]) /\ Len(RepoOrder[p]) \in Nat
    BY <1>1 DEF TypeOK
  <1>4. RepoAt(p) \in Repos /\ RepoOrder[p][1] \in Repos
    BY <1>1, <1>3 DEF RepoAt
  <1>5. CommitAt(p) \in Commits
    BY <1>2, <1>3 DEF CommitAt
  <1>6. QED
    BY <1>3, <1>4, <1>5 DEF TypeOK

(* A tag is added under a free name; the run goes on, or ends.             *)
LEMMA CreateTagEffect ==
  ASSUME TypeOK, NEW p \in Pipelines, CreateTag(p)
  PROVE  /\ pc[p] = "create" /\ ~NameTaken(p)
         /\ tags' = tags \cup {NewTag(p)} /\ NewTag(p) \in Tags
         /\ UNCHANGED <<context, number, sawAll>>
         /\ pc' \in [Pipelines -> {"none", "list", "create", "passed", "failed"}]
         /\ at' \in [Pipelines -> Nat \ {0}]
         /\ \A o \in Pipelines : o # p => pc'[o] = pc[o] /\ at'[o] = at[o]
         /\ \/ pc'[p] \in {"passed", "failed"} /\ at' = at
            \/ /\ pc'[p] = IF stage[p] = "prod" THEN "list" ELSE "create"
               /\ at'[p] = at[p] + 1 /\ at'[p] <= Len(RepoOrder[p])
  <1>1. /\ pc[p] = "create" /\ ~NameTaken(p) /\ tags' = tags \cup {NewTag(p)}
        /\ sawAll' = sawAll /\ (Proceed(p) \/ End(p, "failed"))
    BY DEF CreateTag
  <1>2. NewTag(p) \in Tags
    BY <1>1, AtWork DEF Active, NewTag, Tags, TypeOK
  <1>3. at[p] \in 1..Len(RepoOrder[p]) /\ Len(RepoOrder[p]) \in Nat
    BY <1>1, AtWork DEF Active
  <1>4. CASE End(p, "passed") \/ End(p, "failed")
    BY <1>1, <1>2, <1>4 DEF End, TypeOK
  <1>5. CASE /\ at[p] # Len(RepoOrder[p])
             /\ at' = [at EXCEPT ![p] = @ + 1]
             /\ pc' = [pc EXCEPT ![p] = IF stage[p] = "prod" THEN "list" ELSE "create"]
             /\ UNCHANGED <<runs, stage, version, gitCommits, number>>
    BY <1>1, <1>2, <1>3, <1>5 DEF TypeOK
  <1>6. QED
    BY <1>1, <1>4, <1>5 DEF Proceed

-----------------------------------------------------------------------------
(* Every step keeps the types.                                             *)
LEMMA TypeStep ==
  ASSUME TypeOK, [Next]_vars
  PROVE  TypeOK'
  <1>1. ASSUME NEW p \in Pipelines, StartRun(p)
        PROVE  TypeOK'
    <2>1. PICK s \in {"qa", "prod"} : stage' = [stage EXCEPT ![p] = s]
      BY <1>1 DEF StartRun
    <2>2. PICK v \in Versions : version' = [version EXCEPT ![p] = v]
      BY <1>1 DEF StartRun
    <2>3. PICK cs \in [DOMAIN RepoOrder[p] -> Commits] :
            gitCommits' = [gitCommits EXCEPT ![p] = cs]
      BY <1>1 DEF StartRun
    <2>4. RepoOrder[p] \in Seq(Repos) /\ RepoOrder[p] # <<>>
      OBVIOUS
    <2>5. cs \in Seq(Commits) /\ Len(cs) = Len(RepoOrder[p]) /\ 1 <= Len(RepoOrder[p])
      BY <2>4
    <2>6. /\ tags' \subseteq Tags /\ runs' \in [Pipelines -> Nat]
          /\ pc' \in [Pipelines -> {"none", "list", "create", "passed", "failed"}]
          /\ at' \in [Pipelines -> Nat \ {0}] /\ number' \in [Pipelines -> Nat]
          /\ sawAll' \in [Pipelines -> BOOLEAN]
      BY <1>1 DEF StartRun, TypeOK
    <2>7. /\ stage' \in [Pipelines -> {"none", "qa", "prod"}]
          /\ version' \in [Pipelines -> Versions \cup {NoVersion}]
          /\ gitCommits' \in [Pipelines -> Seq(Commits)]
      BY <2>1, <2>2, <2>3, <2>5 DEF TypeOK
    <2>8. /\ at'[p] = 1 /\ gitCommits'[p] = cs
          /\ version'[p] \in Versions /\ stage'[p] # "none"
      BY <1>1, <2>1, <2>2, <2>3 DEF StartRun, TypeOK
    <2>9. ASSUME NEW o \in Pipelines, o # p, Active(o)'
          PROVE  /\ version'[o] \in Versions /\ stage'[o] # "none"
                 /\ Len(gitCommits'[o]) = Len(RepoOrder[o])
                 /\ at'[o] <= Len(RepoOrder[o])
      BY <1>1, <2>9, StartRunEffect DEF TypeOK, Active
    <2>10. QED
      BY <2>5, <2>6, <2>7, <2>8, <2>9 DEF TypeOK
  <1>2. ASSUME NEW p \in Pipelines, ListTags(p)
        PROVE  TypeOK'
    BY <1>2, ListTagsEffect DEF TypeOK, Active
  <1>3. ASSUME NEW p \in Pipelines, CreateTag(p)
        PROVE  TypeOK'
    <2>1. /\ tags' \subseteq Tags
          /\ pc' \in [Pipelines -> {"none", "list", "create", "passed", "failed"}]
          /\ at' \in [Pipelines -> Nat \ {0}]
          /\ UNCHANGED <<runs, stage, version, gitCommits, number, sawAll>>
      BY <1>3, CreateTagEffect DEF TypeOK
    <2>2. ASSUME NEW o \in Pipelines, Active(o)'
          PROVE  Active(o) /\ at'[o] <= Len(RepoOrder[o])
      <3>1. CASE o = p
        BY <1>3, <2>2, <3>1, CreateTagEffect DEF Active
      <3>2. CASE o # p
        BY <1>3, <2>2, <3>2, CreateTagEffect DEF TypeOK, Active
      <3>3. QED
        BY <3>1, <3>2
    <2>3. QED
      BY <2>1, <2>2 DEF TypeOK
  <1>4. ASSUME NEW p \in Pipelines, Fail(p)
        PROVE  TypeOK'
    BY <1>4 DEF Fail, End, TypeOK, Active
  <1>5. CASE UNCHANGED vars
    <2>1. \A p \in Pipelines : Active(p)' <=> Active(p)
      BY <1>5 DEF Active
    <2>2. QED
      BY <1>5, <2>1 DEF TypeOK
  <1>6. QED
    BY <1>1, <1>2, <1>3, <1>4, <1>5 DEF Next

(* The variables keep their types, and a run never gets past the last of   *)
(* its repositories.                                                       *)
THEOREM TagTypes == Spec => []TypeOK
  <1>1. Init => TypeOK
    BY DEF Init, TypeOK, Active
  <1>2. QED
    BY <1>1, TypeStep, PTL DEF Spec

-----------------------------------------------------------------------------
(* What a list that lets the run go on has shown.                          *)
LEMMA ListTagsOutcome ==
  ASSUME TypeOK, NEW p \in Pipelines, ListTags(p), pc'[p] = "create"
  PROVE  \E page \in TagList(RepoAt(p), version[p]) :
           /\ ~AlreadyReleased(p, page)
           /\ stage[p] = "qa" => \E n \in Nat : /\ HighestCandidate(page, version[p], n)
                                               /\ number'[p] = n + 1
           /\ stage[p] # "qa" => \E t \in page : ProdTagRequirementsMet(p, t)
           /\ at[p] = 1 /\ sawAll'[p] => page = Matching(RepoAt(p), version[p])
  <1>1. PICK page \in TagList(RepoAt(p), version[p]) :
          /\ IF AlreadyReleased(p, page) THEN End(p, "passed")
             ELSE IF stage[p] = "qa" THEN NextCandidate(p, page)
             ELSE CheckProdTagRequirements(p, page) \/ RefuseProd(p, page)
          /\ IF at[p] > 1 THEN UNCHANGED sawAll
             ELSE sawAll' = [sawAll EXCEPT ![p] = page = Matching(RepoAt(p), version[p])]
    BY DEF ListTags
  <1>2. page \subseteq Tags
    BY DEF TagList, Matching, TypeOK
  <1>3. ~End(p, "passed") /\ ~RefuseProd(p, page)
    BY DEF End, RefuseProd, TypeOK
  <1> at[p] = 1 /\ sawAll'[p] => page = Matching(RepoAt(p), version[p])
    <2> DEFINE whole == page = Matching(RepoAt(p), version[p])
    <2>1. IF at[p] > 1 THEN UNCHANGED sawAll ELSE sawAll' = [sawAll EXCEPT ![p] = whole]
      BY <1>1
    <2> HIDE DEF whole
    <2>2. at[p] = 1 => sawAll'[p] = whole
      BY <2>1 DEF TypeOK
    <2>3. QED
      BY <2>2 DEF whole
  <1>4. ~AlreadyReleased(p, page)
    BY <1>1, <1>3
  <1>5. CASE stage[p] = "qa"
    <2>1. PICK n \in {0} \cup {t.number : t \in page} :
            HighestCandidate(page, version[p], n) /\ number' = [number EXCEPT ![p] = n + 1]
      BY <1>1, <1>4, <1>5 DEF NextCandidate
    <2>2. n \in Nat
      BY <1>2 DEF Tags
    <2>3. number'[p] = n + 1
      BY <2>1 DEF TypeOK
    <2>4. QED
      BY <1>4, <1>5, <2>1, <2>2, <2>3
  <1>6. CASE stage[p] # "qa"
    BY <1>1, <1>3, <1>4, <1>6 DEF CheckProdTagRequirements, ReturnedTags
  <1>7. QED
    BY <1>5, <1>6

(* A run for prod is about to put the final tag; a run for qa has a        *)
(* number once it has listed the tags of its own repository.               *)
NumberOfStage ==
  \A p \in Pipelines : Active(p) =>
    /\ stage[p] = "prod" => number[p] = 0
    /\ stage[p] = "qa" => /\ pc[p] = "list" => at[p] = 1
                          /\ pc[p] = "create" => number[p] > 0

LEMMA NumberOfStageStep ==
  ASSUME TypeOK, NumberOfStage, [Next]_vars
  PROVE  NumberOfStage'
  <1>1. ASSUME NEW p \in Pipelines, StartRun(p)
        PROVE  NumberOfStage'
    BY <1>1, StartRunEffect DEF NumberOfStage, Active
  <1>2. ASSUME NEW p \in Pipelines, ListTags(p)
        PROVE  NumberOfStage'
    BY <1>2, ListTagsEffect DEF NumberOfStage, Active
  <1>3. ASSUME NEW p \in Pipelines, CreateTag(p)
        PROVE  NumberOfStage'
    BY <1>3, CreateTagEffect DEF NumberOfStage, Active
  <1>4. ASSUME NEW p \in Pipelines, Fail(p)
        PROVE  NumberOfStage'
    BY <1>4 DEF Fail, End, TypeOK, NumberOfStage, Active
  <1>5. CASE UNCHANGED vars
    BY <1>5 DEF NumberOfStage, Active
  <1>6. QED
    BY <1>1, <1>2, <1>3, <1>4, <1>5 DEF Next

-----------------------------------------------------------------------------
(* Final tags are on candidates, if no filter lists tags of other versions. *)

VersionsApart == \A v \in Versions : Matches[v] = {v}

(* A run that is about to put the final tag has checked the commit.        *)
CommitChecked ==
  \A p \in Pipelines : pc[p] = "create" /\ stage[p] = "prod" =>
    \E t \in tags : t.repo = RepoAt(p) /\ t.version = version[p] /\ t.commit = CommitAt(p)

FinalInv == TypeOK /\ NumberOfStage /\ CommitChecked /\ FinalsOnCandidates

LEMMA FinalInvStep ==
  ASSUME VersionsApart, FinalInv, [Next]_vars
  PROVE  FinalInv'
  <1> USE DEF FinalInv
  <1>1. TypeOK' /\ NumberOfStage'
    BY TypeStep, NumberOfStageStep
  <1>2. ASSUME NEW p \in Pipelines, StartRun(p)
        PROVE  CommitChecked' /\ FinalsOnCandidates'
    <2>1. FinalsOnCandidates'
      BY <1>2, StartRunEffect DEF FinalsOnCandidates
    <2>2. tags' = tags /\ pc'[p] = "list"
      BY <1>2, StartRunEffect DEF TypeOK
    <2>3. ASSUME NEW o \in Pipelines, o # p
          PROVE  /\ pc'[o] = pc[o] /\ stage'[o] = stage[o] /\ version'[o] = version[o]
                 /\ at'[o] = at[o] /\ gitCommits'[o] = gitCommits[o]
      BY <1>2, <2>3, StartRunEffect
    <2>4. CommitChecked'
      BY <2>2, <2>3 DEF CommitChecked, RepoAt, CommitAt
    <2>5. QED
      BY <2>1, <2>4
  <1>3. ASSUME NEW p \in Pipelines, ListTags(p)
        PROVE  CommitChecked' /\ FinalsOnCandidates'
    <2>1. FinalsOnCandidates'
      BY <1>3, ListTagsEffect DEF FinalsOnCandidates
    <2>2. ASSUME pc'[p] = "create", stage[p] = "prod"
          PROVE  \E t \in tags : /\ t.repo = RepoAt(p) /\ t.version = version[p]
                                /\ t.commit = CommitAt(p)
      <3>1. PICK page \in TagList(RepoAt(p), version[p]) :
              \E t \in page : ProdTagRequirementsMet(p, t)
        BY <1>3, <2>2, ListTagsOutcome
      <3>2. version[p] \in Versions
        BY <1>3, ListTagsEffect DEF TypeOK, Active
      <3>3. page \subseteq Matching(RepoAt(p), version[p])
        BY DEF TagList
      <3>4. QED
        BY <3>1, <3>2, <3>3 DEF VersionsApart, Matching, ProdTagRequirementsMet
    <2>3. /\ UNCHANGED <<tags, stage, version, gitCommits, at>>
          /\ \A o \in Pipelines : o # p => pc'[o] = pc[o]
      BY <1>3, ListTagsEffect
    <2>4. CommitChecked'
      BY <2>2, <2>3 DEF CommitChecked, RepoAt, CommitAt
    <2>5. QED
      BY <2>1, <2>4
  <1>4. ASSUME NEW p \in Pipelines, CreateTag(p)
        PROVE  CommitChecked' /\ FinalsOnCandidates'
    <2>1. /\ pc[p] = "create" /\ ~NameTaken(p) /\ tags' = tags \cup {NewTag(p)}
          /\ NewTag(p) \in Tags /\ stage[p] \in {"qa", "prod"}
          /\ UNCHANGED <<version, gitCommits, stage>>
          /\ \A o \in Pipelines : o # p => pc'[o] = pc[o] /\ at'[o] = at[o]
          /\ ~(pc'[p] = "create" /\ stage[p] = "prod")
      BY <1>4, CreateTagEffect, AtWork DEF Active
    <2>2. CommitChecked'
      BY <2>1 DEF CommitChecked, RepoAt, CommitAt
    <2>3. NewTag(p).number = 0 =>
            \E t \in tags : /\ t.repo = NewTag(p).repo /\ t.version = NewTag(p).version
                           /\ t.commit = NewTag(p).commit /\ t.number > 0
      <3>1. SUFFICES ASSUME number[p] = 0
                     PROVE  \E t \in tags : /\ t.repo = RepoAt(p) /\ t.version = version[p]
                                           /\ t.commit = CommitAt(p) /\ t.number > 0
        BY DEF NewTag
      <3>2. stage[p] = "prod"
        BY <2>1, <3>1 DEF NumberOfStage, Active
      <3>3. PICK t \in tags : /\ t.repo = RepoAt(p) /\ t.version = version[p]
                              /\ t.commit = CommitAt(p)
        BY <2>1, <3>2 DEF CommitChecked
      <3>4. t.number \in Nat /\ t.number # 0
        BY <2>1, <3>1, <3>3 DEF NameTaken, TypeOK, Tags
      <3>5. QED
        BY <3>3, <3>4
    <2>4. FinalsOnCandidates'
      BY <2>1, <2>3 DEF FinalsOnCandidates
    <2>5. QED
      BY <2>2, <2>4
  <1>5. ASSUME NEW p \in Pipelines, Fail(p)
        PROVE  CommitChecked' /\ FinalsOnCandidates'
    BY <1>5 DEF Fail, End, TypeOK, CommitChecked, FinalsOnCandidates, RepoAt, CommitAt
  <1>6. ASSUME UNCHANGED vars
        PROVE  CommitChecked' /\ FinalsOnCandidates'
    BY <1>6 DEF CommitChecked, FinalsOnCandidates, RepoAt, CommitAt
  <1>7. QED
    BY <1>1, <1>2, <1>3, <1>4, <1>5, <1>6 DEF Next

(* Whatever pipelines share a repository and wherever runs fail, a final   *)
(* tag is on a candidate of its version, although the tag that is compared *)
(* need not be the latest candidate: the one listed last is a candidate,   *)
(* or the final tag itself, and then the name is taken.                    *)
THEOREM FinalsHaveCandidates ==
  ASSUME VersionsApart
  PROVE  Spec => []FinalsOnCandidates
  <1>1. Init => FinalInv
    BY DEF Init, FinalInv, TypeOK, NumberOfStage, CommitChecked, FinalsOnCandidates, Active
  <1>2. FinalInv /\ [Next]_vars => FinalInv'
    BY FinalInvStep
  <1>3. FinalInv => FinalsOnCandidates
    BY DEF FinalInv
  <1>4. QED
    BY <1>1, <1>2, <1>3, PTL DEF Spec

-----------------------------------------------------------------------------
(* Each number belongs to one run, and the final tag to the last.          *)

(* A tag points back to one of the same name, put by the same run in the   *)
(* pipeline's own repository.                                              *)
Anchored ==
  \A t \in tags : \E m \in tags :
    /\ m.repo = RepoOrder[t.pipeline][1] /\ m.pipeline = t.pipeline /\ m.run = t.run
    /\ m.version = t.version /\ m.number = t.number

RunsSoFar == \A t \in tags : t.run <= runs[t.pipeline]

(* A run tags under one name, and its own repository first.                *)
OwnTags ==
  \A p \in Pipelines : Active(p) =>
    /\ \A t \in tags : t.pipeline = p /\ t.run = runs[p] =>
         at[p] > 1 /\ t.version = version[p] /\ t.number = number[p]
    /\ at[p] > 1 => \E m \in tags :
         /\ m.repo = RepoOrder[p][1] /\ m.pipeline = p /\ m.run = runs[p]
         /\ m.version = version[p] /\ m.number = number[p]

(* Once a run has got all the tags of its own repository, there is no      *)
(* final tag of an earlier run, and its number is above those before.      *)
Fresh ==
  \A p \in Pipelines : Active(p) /\ sawAll[p] /\ (pc[p] = "create" \/ at[p] > 1) =>
    \A t \in tags : t.pipeline = p /\ t.version = version[p] /\ t.run < runs[p] =>
      t.number > 0 /\ (stage[p] = "qa" => t.number < number[p])

(* Bitbucket takes each name once.                                         *)
NamesUnique ==
  \A s, t \in tags :
    s.repo = t.repo /\ s.version = t.version /\ s.number = t.number => s = t

NumberingParts ==
  /\ Anchored /\ RunsSoFar /\ OwnTags /\ Fresh /\ NamesUnique
  /\ NumbersGrow /\ FinalIsLast
NumberingInv == TypeOK /\ NumberOfStage /\ NumberingParts

LEMMA ListTagsNumbering ==
  ASSUME NumberingInv, NEW p \in Pipelines, ListTags(p)
  PROVE  NumberingParts'
  <1> USE DEF NumberingInv, NumberingParts
  <1>1. /\ UNCHANGED <<tags, runs, stage, version, gitCommits, at>>
        /\ \A o \in Pipelines : o # p => pc'[o] = pc[o] /\ number'[o] = number[o]
        /\ pc[p] = "list" /\ pc'[p] \in {"create", "passed", "failed"}
        /\ stage[p] # "qa" => number' = number
        /\ \A o \in Pipelines : o # p \/ at[p] > 1 => sawAll'[o] = sawAll[o]
    BY ListTagsEffect
  <1>2. at[p] \in Nat /\ version[p] \in Versions /\ RepoAt(p) \in Repos
    BY <1>1, AtWork DEF Active
  <1>3. stage[p] = "qa" => at[p] = 1
    BY <1>1 DEF NumberOfStage, Active
  <1>4. OwnTags'
    BY <1>1, <1>3 DEF OwnTags, Active
  <1>5. ASSUME pc'[p] = "create", sawAll'[p],
               NEW t \in tags, t.pipeline = p, t.version = version[p], t.run < runs[p]
        PROVE  t.number > 0 /\ (stage[p] = "qa" => t.number < number'[p])
    <2>1. CASE at[p] > 1
      BY <1>1, <1>3, <1>5, <2>1 DEF Fresh, Active
    <2>2. CASE at[p] = 1
      <3>1. PICK page \in TagList(RepoAt(p), version[p]) :
              /\ ~AlreadyReleased(p, page)
              /\ stage[p] = "qa" => \E n \in Nat : /\ HighestCandidate(page, version[p], n)
                                                  /\ number'[p] = n + 1
              /\ page = Matching(RepoAt(p), version[p])
        BY <1>5, <2>2, ListTagsOutcome
      <3>2. page = Matching(RepoAt(p), version[p])
        BY <3>1
      <3>3. PICK m \in tags : /\ m.repo = RepoAt(p) /\ m.version = version[p]
                              /\ m.number = t.number
        BY <1>5, <2>2 DEF Anchored, RepoAt
      <3>4. m \in page
        BY <1>2, <3>2, <3>3 DEF Matching
      <3>5. t.number \in Nat
        BY DEF TypeOK, Tags
      <3>6. t.number > 0
        BY <2>2, <3>1, <3>3, <3>4, <3>5 DEF AlreadyReleased, TagListContainsFinalVersion
      <3>7. m \in Candidates(page, version[p])
        BY <3>3, <3>4, <3>6 DEF Candidates
      <3>8. stage[p] = "qa" => t.number < number'[p]
        BY <3>1, <3>3, <3>5, <3>7 DEF HighestCandidate
      <3>9. QED
        BY <3>6, <3>8
    <2>3. QED
      BY <1>2, <2>1, <2>2 DEF TypeOK
  <1>6. Fresh'
    <2>1. ASSUME NEW o \in Pipelines, o # p
          PROVE  /\ pc'[o] = pc[o] /\ sawAll'[o] = sawAll[o] /\ number'[o] = number[o]
                 /\ Active(o)' <=> Active(o)
      BY <1>1, <2>1 DEF Active
    <2>2. UNCHANGED <<tags, runs, stage, version, at>>
      BY <1>1
    <2>3. ASSUME Active(p)', sawAll'[p]
          PROVE  pc'[p] = "create"
      BY <1>1, <2>3 DEF Active
    <2>4. ASSUME NEW o \in Pipelines, Active(o)', sawAll'[o], pc'[o] = "create" \/ at[o] > 1,
                 NEW t \in tags, t.pipeline = o, t.version = version[o], t.run < runs[o]
          PROVE  t.number > 0 /\ (stage[o] = "qa" => t.number < number'[o])
      <3>1. CASE o = p
        BY <1>5, <2>3, <2>4, <3>1
      <3>2. CASE o # p
        BY <2>1, <2>4, <3>2 DEF Fresh
      <3>3. QED
        BY <3>1, <3>2
    <2>5. QED
      BY <2>2, <2>4 DEF Fresh
  <1>7. Anchored' /\ RunsSoFar' /\ NamesUnique' /\ NumbersGrow' /\ FinalIsLast'
    BY <1>1 DEF Anchored, RunsSoFar, NamesUnique, NumbersGrow, FinalIsLast
  <1>8. QED
    BY <1>4, <1>6, <1>7

LEMMA CreateTagNumbering ==
  ASSUME NumberingInv, NEW p \in Pipelines, CreateTag(p)
  PROVE  NumberingParts'
  <1> USE DEF NumberingInv, NumberingParts
  <1> DEFINE new == NewTag(p)
  <1>1. /\ pc[p] = "create" /\ tags' = tags \cup {new} /\ new \in Tags
        /\ UNCHANGED <<context, number, sawAll>> /\ ~NameTaken(p)
        /\ \A o \in Pipelines : o # p => pc'[o] = pc[o] /\ at'[o] = at[o]
        /\ Active(p)' => at'[p] = at[p] + 1
    BY CreateTagEffect DEF Active
  <1>2. /\ new.repo = RepoAt(p) /\ new.version = version[p] /\ new.number = number[p]
        /\ new.pipeline = p /\ new.run = runs[p] /\ new.sawAll = sawAll[p]
    BY DEF NewTag
  <1>3. /\ at[p] \in Nat \ {0} /\ runs[p] \in Nat /\ number[p] \in Nat
        /\ stage[p] \in {"qa", "prod"} /\ at' \in [Pipelines -> Nat \ {0}]
        /\ \A t \in tags : t.run \in Nat /\ t.number \in Nat
    <2>1. stage[p] \in {"qa", "prod"}
      BY <1>1, AtWork DEF Active
    <2>2. at' \in [Pipelines -> Nat \ {0}]
      BY CreateTagEffect
    <2>3. QED
      BY <2>1, <2>2 DEF TypeOK, Tags
  <1>4. \E m \in tags' :
          /\ m.repo = RepoOrder[p][1] /\ m.pipeline = p /\ m.run = runs[p]
          /\ m.version = version[p] /\ m.number = number[p]
    <2>1. CASE at[p] = 1
      BY <1>1, <1>2, <2>1 DEF RepoAt
    <2>2. CASE at[p] > 1
      <3>1. Active(p)
        BY <1>1 DEF Active
      <3>2. PICK m \in tags :
              /\ m.repo = RepoOrder[p][1] /\ m.pipeline = p /\ m.run = runs[p]
              /\ m.version = version[p] /\ m.number = number[p]
        BY <2>2, <3>1 DEF OwnTags
      <3>3. m \in tags'
        BY <1>1
      <3>4. QED
        BY <3>2, <3>3
    <2>3. at[p] = 1 \/ at[p] > 1
      BY <1>3
    <2>4. QED
      BY <2>1, <2>2, <2>3
  <1>5. Anchored'
    BY <1>1, <1>2, <1>4 DEF Anchored
  <1>6. RunsSoFar'
    BY <1>1, <1>2, <1>3 DEF RunsSoFar
  <1>7. OwnTags'
    <2>1. ASSUME NEW o \in Pipelines, Active(o)', o # p
          PROVE  /\ \A t \in tags' : t.pipeline = o /\ t.run = runs[o] =>
                      at'[o] > 1 /\ t.version = version[o] /\ t.number = number[o]
                 /\ at'[o] > 1 => \E m \in tags' :
                      /\ m.repo = RepoOrder[o][1] /\ m.pipeline = o /\ m.run = runs[o]
                      /\ m.version = version[o] /\ m.number = number[o]
      <3>1. Active(o) /\ at'[o] = at[o]
        BY <1>1, <2>1 DEF Active
      <3>2. \A t \in tags' : t.pipeline = o => t \in tags
        BY <1>1, <1>2, <2>1
      <3>3. \A t \in tags' : t.pipeline = o /\ t.run = runs[o] =>
              at'[o] > 1 /\ t.version = version[o] /\ t.number = number[o]
        BY <3>1, <3>2 DEF OwnTags
      <3>4. ASSUME at'[o] > 1
            PROVE  \E m \in tags' :
                     /\ m.repo = RepoOrder[o][1] /\ m.pipeline = o /\ m.run = runs[o]
                     /\ m.version = version[o] /\ m.number = number[o]
        BY <1>1, <3>1, <3>4 DEF OwnTags
      <3>5. QED
        BY <3>3, <3>4
    <2>2. ASSUME Active(p)'
          PROVE  \A t \in tags' : t.pipeline = p /\ t.run = runs[p] =>
                   at'[p] > 1 /\ t.version = version[p] /\ t.number = number[p]
      BY <1>1, <1>2, <1>3, <2>2 DEF OwnTags, Active
    <2>3. QED
      BY <1>1, <1>4, <2>1, <2>2 DEF OwnTags
  <1>8. Fresh'
    <2>1. ASSUME NEW o \in Pipelines, Active(o)', sawAll[o], pc'[o] = "create" \/ at'[o] > 1,
                 NEW t \in tags', t.pipeline = o, t.version = version[o], t.run < runs[o]
          PROVE  t.number > 0 /\ (stage[o] = "qa" => t.number < number[o])
      <3>1. t \in tags
        BY <1>1, <1>2, <1>3, <2>1
      <3>2. pc[o] = "create" \/ at[o] > 1
        BY <1>1, <2>1
      <3>3. Active(o)
        BY <1>1, <2>1 DEF Active
      <3>4. QED
        BY <2>1, <3>1, <3>2, <3>3 DEF Fresh
    <2>2. QED
      BY <1>1, <2>1 DEF Fresh
  <1>9. sawAll[p] =>
          \A s \in tags : s.pipeline = p /\ s.version = version[p] /\ s.run < runs[p] =>
            s.number > 0 /\ (stage[p] = "qa" => s.number < number[p])
    BY <1>1 DEF Fresh, Active
  <1>10. \A s \in tags : s.pipeline = p => s.run <= runs[p]
    BY DEF RunsSoFar
  <1>11. number[p] > 0 => stage[p] = "qa"
    BY <1>1, <1>3 DEF NumberOfStage, Active
  <1>12. NumbersGrow'
    <2>1. ASSUME NEW s \in tags, s.pipeline = p, s.version = version[p],
                 s.run < runs[p], number[p] > 0, sawAll[p]
          PROVE  s.number < number[p]
      BY <1>9, <1>11, <2>1
    <2>2. QED
      BY <1>1, <1>2, <1>3, <1>10, <2>1 DEF NumbersGrow
  <1>13. FinalIsLast'
    BY <1>1, <1>2, <1>3, <1>9, <1>10 DEF FinalIsLast
  <1>14. NamesUnique'
    BY <1>1, <1>2 DEF NamesUnique, NameTaken
  <1>15. QED
    BY <1>5, <1>6, <1>7, <1>8, <1>12, <1>13, <1>14

LEMMA NumberingStep ==
  ASSUME NumberingInv, [Next]_vars
  PROVE  NumberingInv'
  <1> USE DEF NumberingInv, NumberingParts
  <1>1. TypeOK' /\ NumberOfStage'
    BY TypeStep, NumberOfStageStep
  <1>2. ASSUME NEW p \in Pipelines, StartRun(p)
        PROVE  NumberingParts'
    <2>1. runs[p] \in Nat /\ \A t \in tags : t.run \in Nat /\ t.pipeline \in Pipelines
      BY DEF TypeOK, Tags
    <2>2. \A t \in tags : t.run <= runs[t.pipeline] /\ (t.pipeline = p => t.run < runs'[p])
      BY <1>2, <2>1, StartRunEffect DEF RunsSoFar
    <2>3. RunsSoFar'
      <3>1. SUFFICES ASSUME NEW t \in tags
                     PROVE  t.run <= runs'[t.pipeline]
        BY <1>2, StartRunEffect DEF RunsSoFar
      <3>2. CASE t.pipeline = p
        BY <1>2, <2>1, <2>2, <3>2, StartRunEffect
      <3>3. CASE t.pipeline # p
        BY <1>2, <2>1, <2>2, <3>3, StartRunEffect
      <3>4. QED
        BY <3>2, <3>3
    <2>4. OwnTags' /\ Fresh'
      <3>1. ASSUME NEW o \in Pipelines, o # p
            PROVE  /\ Active(o)' = Active(o) /\ runs'[o] = runs[o] /\ at'[o] = at[o]
                   /\ pc'[o] = pc[o] /\ number'[o] = number[o]
                   /\ version'[o] = version[o] /\ stage'[o] = stage[o]
                   /\ sawAll'[o] = sawAll[o]
        BY <1>2, <3>1, StartRunEffect DEF Active
      <3>2. pc'[p] = "list" /\ at'[p] = 1 /\ tags' = tags
        BY <1>2, StartRunEffect
      <3>3. \A t \in tags : t.pipeline = p => t.run # runs'[p]
        BY <2>1, <2>2
      <3>4. OwnTags'
        BY <3>1, <3>2, <3>3 DEF OwnTags
      <3>5. Fresh'
        BY <3>1, <3>2 DEF Fresh
      <3>6. QED
        BY <3>4, <3>5
    <2>5. Anchored' /\ NamesUnique' /\ NumbersGrow' /\ FinalIsLast'
      BY <1>2, StartRunEffect DEF Anchored, NamesUnique, NumbersGrow, FinalIsLast
    <2>6. QED
      BY <2>3, <2>4, <2>5
  <1>3. ASSUME NEW p \in Pipelines, Fail(p)
        PROVE  NumberingParts'
    <2>1. /\ UNCHANGED <<tags, context, at, number, sawAll>>
          /\ \A o \in Pipelines : o # p => pc'[o] = pc[o]
          /\ pc'[p] = "failed"
      BY <1>3 DEF Fail, End, TypeOK
    <2>2. \A o \in Pipelines : Active(o)' => o # p /\ Active(o)
      BY <2>1 DEF Active
    <2>3. OwnTags'
      BY <2>1, <2>2 DEF OwnTags
    <2>4. Fresh'
      BY <2>1, <2>2 DEF Fresh
    <2>5. Anchored' /\ RunsSoFar'
      BY <2>1 DEF Anchored, RunsSoFar
    <2>6. NamesUnique' /\ NumbersGrow' /\ FinalIsLast'
      BY <2>1 DEF NamesUnique, NumbersGrow, FinalIsLast
    <2>7. QED
      BY <2>3, <2>4, <2>5, <2>6
  <1>4. ASSUME UNCHANGED vars
        PROVE  NumberingParts'
    BY <1>4 DEF Anchored, RunsSoFar, OwnTags, Fresh, NamesUnique, NumbersGrow,
                    FinalIsLast, Active
  <1>5. QED
    BY <1>1, <1>2, <1>3, <1>4, ListTagsNumbering, CreateTagNumbering DEF Next

LEMMA NumberingInvariant == Spec => []NumberingInv
  <1>1. Init => NumberingInv
    BY DEF Init, NumberingInv, NumberingParts, TypeOK, NumberOfStage, Anchored, RunsSoFar,
           OwnTags, Fresh, NamesUnique, NumbersGrow, FinalIsLast, Active
  <1>2. QED
    BY <1>1, NumberingStep, PTL DEF Spec

(* The tags of one name that a pipeline puts are of one run: each points   *)
(* to one of the same name in the pipeline's own repository.               *)
THEOREM OneRun == Spec => []NamesOfOneRun
  <1>1. NumberingInv => NamesOfOneRun
    <2>1. SUFFICES ASSUME NumberingInv, NEW s \in tags, NEW t \in tags, s.number = t.number,
                          s.pipeline = t.pipeline, s.version = t.version
                   PROVE  s.run = t.run
      BY DEF NamesOfOneRun
    <2>2. PICK m \in tags : /\ m.repo = RepoOrder[s.pipeline][1] /\ m.run = s.run
                            /\ m.version = s.version /\ m.number = s.number
      BY <2>1 DEF NumberingInv, NumberingParts, Anchored
    <2>3. PICK n \in tags : /\ n.repo = RepoOrder[t.pipeline][1] /\ n.run = t.run
                            /\ n.version = t.version /\ n.number = t.number
      BY <2>1 DEF NumberingInv, NumberingParts, Anchored
    <2>4. m = n
      BY <2>1, <2>2, <2>3 DEF NumberingInv, NumberingParts, NamesUnique
    <2>5. QED
      BY <2>2, <2>3, <2>4
  <1>2. QED
    BY <1>1, NumberingInvariant, PTL

(* A run that got all the tags numbers its candidates above those of       *)
(* earlier runs, wherever those failed.                                    *)
THEOREM NumbersOfLaterRuns == Spec => []NumbersGrow
  BY NumberingInvariant, PTL DEF NumberingInv, NumberingParts

(* A run that got all the tags puts none of a version that an earlier run  *)
(* has released.                                                           *)
THEOREM NothingAfterFinal == Spec => []FinalIsLast
  BY NumberingInvariant, PTL DEF NumberingInv, NumberingParts

-----------------------------------------------------------------------------
(* The candidates of a repository that one pipeline tags count its runs:   *)
(* the number before the one a run is about to take was in the list, and   *)
(* an earlier run put it.                                                  *)

PreviousExists ==
  \A p \in Pipelines : pc[p] = "create" /\ number[p] > 1 =>
    \E s \in tags : /\ s.repo = RepoOrder[p][1] /\ s.version = version[p]
                   /\ s.number = number[p] - 1

(* A pipeline tags its repositories only.                                  *)
OwnRepos ==
  \A t \in tags : \E i \in DOMAIN RepoOrder[t.pipeline] : t.repo = RepoOrder[t.pipeline][i]

CountParts == PreviousExists /\ OwnRepos /\ CandidatesCountRuns

(* The run that put the number before is another and an earlier one.       *)
LEMMA CreateTagCount ==
  ASSUME NumberingInv, CountParts, NEW p \in Pipelines, CreateTag(p)
  PROVE  CountParts'
  <1> USE DEF NumberingInv, NumberingParts, CountParts
  <1> DEFINE new == NewTag(p)
  <1>1. /\ pc[p] = "create" /\ tags' = tags \cup {new} /\ new \in Tags
        /\ UNCHANGED <<version, number>>
        /\ \A o \in Pipelines : o # p => pc'[o] = pc[o]
    BY CreateTagEffect
  <1>2. /\ new.repo = RepoAt(p) /\ new.version = version[p] /\ new.number = number[p]
        /\ new.pipeline = p /\ new.run = runs[p]
    BY DEF NewTag
  <1>3. PreviousExists'
    BY <1>1 DEF PreviousExists
  <1>4. OwnRepos'
    <2>1. at[p] \in DOMAIN RepoOrder[p]
      <3>1. at[p] \in 1..Len(RepoOrder[p]) /\ RepoOrder[p] \in Seq(Repos)
        BY <1>1, AtWork DEF Active
      <3>2. QED
        BY <3>1
    <2>2. QED
      BY <1>1, <1>2, <2>1 DEF OwnRepos, RepoAt
  <1>5. ASSUME new.repo = RepoOrder[p][1], OnlyTaggedBy(p), NEW n \in 1..(number[p] - 1)
        PROVE  \E s \in tags : /\ s.repo = new.repo /\ s.version = new.version
                              /\ s.number = n /\ s.run < new.run
    <2>1. number[p] \in Nat /\ runs[p] \in Nat /\ number[p] > 1 /\ n \in Nat \ {0}
      BY <1>5 DEF TypeOK
    <2>2. PICK s \in tags : /\ s.repo = RepoOrder[p][1] /\ s.version = version[p]
                           /\ s.number = number[p] - 1
      BY <1>1, <2>1 DEF PreviousExists
    <2>3. s.pipeline \in Pipelines /\ s.run \in Nat
      BY DEF TypeOK, Tags
    <2>4. s.pipeline = p
      BY <1>5, <2>2, <2>3 DEF OwnRepos, OnlyTaggedBy
    <2>5. s.run < runs[p]
      <3>1. s.run <= runs[p]
        BY <2>4 DEF RunsSoFar
      <3>2. s.run # runs[p]
        BY <1>1, <2>1, <2>2, <2>4 DEF OwnTags, Active
      <3>3. QED
        BY <2>1, <2>3, <3>1, <3>2
    <2>6. CASE n = number[p] - 1
      BY <1>2, <1>5, <2>2, <2>5, <2>6
    <2>7. CASE n # number[p] - 1
      <3>1. n \in 1..(s.number - 1)
        BY <1>5, <2>1, <2>2, <2>7
      <3>2. PICK u \in tags : /\ u.repo = s.repo /\ u.version = s.version
                             /\ u.number = n /\ u.run < s.run
        BY <1>5, <2>2, <2>4, <3>1 DEF CandidatesCountRuns
      <3>3. u.run \in Nat
        BY DEF TypeOK, Tags
      <3>4. u.run < runs[p]
        BY <2>1, <2>3, <2>5, <3>2, <3>3
      <3>5. QED
        BY <1>2, <1>5, <2>2, <3>2, <3>4
    <2>8. QED
      BY <2>6, <2>7
  <1>6. CandidatesCountRuns'
    <2>1. SUFFICES ASSUME NEW t \in tags', t.repo = RepoOrder[t.pipeline][1],
                          OnlyTaggedBy(t.pipeline), NEW n \in 1..(t.number - 1)
                   PROVE  \E s \in tags : /\ s.repo = t.repo /\ s.version = t.version
                                         /\ s.number = n /\ s.run < t.run
      BY <1>1 DEF CandidatesCountRuns, OnlyTaggedBy
    <2>2. CASE t \in tags
      BY <2>1, <2>2 DEF CandidatesCountRuns
    <2>3. CASE t = new
      BY <1>2, <1>5, <2>1, <2>3
    <2>4. QED
      BY <1>1, <2>2, <2>3
  <1>7. QED
    BY <1>3, <1>4, <1>6

LEMMA CountStep ==
  ASSUME NumberingInv, CountParts, [Next]_vars
  PROVE  CountParts'
  <1> USE DEF NumberingInv, CountParts
  <1>1. tags' = tags => OwnRepos' /\ CandidatesCountRuns'
    BY DEF OwnRepos, CandidatesCountRuns, OnlyTaggedBy
  <1>2. ASSUME NEW p \in Pipelines, StartRun(p)
        PROVE  CountParts'
    <2>1. /\ UNCHANGED tags /\ pc'[p] = "list"
          /\ \A o \in Pipelines : o # p =>
               pc'[o] = pc[o] /\ number'[o] = number[o] /\ version'[o] = version[o]
      BY <1>2, StartRunEffect
    <2>2. PreviousExists'
      BY <2>1 DEF PreviousExists
    <2>3. QED
      BY <1>1, <2>1, <2>2
  <1>3. ASSUME NEW p \in Pipelines, ListTags(p)
        PROVE  CountParts'
    <2>1. ASSUME pc'[p] = "create", number'[p] > 1
          PROVE  \E s \in tags : /\ s.repo = RepoOrder[p][1] /\ s.version = version[p]
                                /\ s.number = number'[p] - 1
      <3>1. stage[p] = "qa" /\ at[p] = 1
        <4>1. pc[p] = "list" /\ (stage[p] # "qa" => number'[p] = number[p])
          BY <1>3, ListTagsEffect
        <4>2. stage[p] \in {"qa", "prod"}
          BY <4>1, AtWork DEF Active
        <4>3. stage[p] = "prod" => number[p] = 0
          BY <4>1 DEF NumberOfStage, Active
        <4>4. stage[p] = "qa"
          BY <2>1, <4>1, <4>2, <4>3
        <4>5. QED
          BY <4>1, <4>4 DEF NumberOfStage, Active
      <3>2. PICK page \in TagList(RepoAt(p), version[p]), n \in Nat :
              HighestCandidate(page, version[p], n) /\ number'[p] = n + 1
        BY <1>3, <2>1, <3>1, ListTagsOutcome
      <3>3. PICK t \in page : t.version = version[p] /\ t.number = n
        BY <2>1, <3>2 DEF HighestCandidate, Candidates
      <3>4. t \in tags /\ t.repo = RepoOrder[p][1]
        BY <3>1, <3>3 DEF TagList, Matching, RepoAt
      <3>5. QED
        BY <3>2, <3>3, <3>4
    <2>2. UNCHANGED <<tags, version>>
          /\ \A o \in Pipelines : o # p => pc'[o] = pc[o] /\ number'[o] = number[o]
      BY <1>3, ListTagsEffect
    <2>3. PreviousExists'
      BY <2>1, <2>2 DEF PreviousExists
    <2>4. QED
      BY <1>1, <2>2, <2>3
  <1>4. ASSUME NEW p \in Pipelines, CreateTag(p)
        PROVE  CountParts'
    BY <1>4, CreateTagCount
  <1>5. ASSUME NEW p \in Pipelines, Fail(p)
        PROVE  CountParts'
    <2>1. PreviousExists' /\ tags' = tags
      BY <1>5 DEF Fail, End, TypeOK, PreviousExists
    <2>2. QED
      BY <1>1, <2>1
  <1>6. ASSUME UNCHANGED vars
        PROVE  CountParts'
    BY <1>1, <1>6 DEF PreviousExists
  <1>7. QED
    BY <1>2, <1>3, <1>4, <1>5, <1>6 DEF Next

(* In a repository of one pipeline every number below a candidate belongs  *)
(* to an earlier run, for any runs that fail and any lists that are cut    *)
(* off or answered with an error.                                          *)
THEOREM CandidatesNumberRuns == Spec => []CandidatesCountRuns
  <1>1. Init => CountParts
    BY DEF Init, CountParts, PreviousExists, OwnRepos, CandidatesCountRuns
  <1>2. NumberingInv /\ CountParts /\ [Next]_vars => CountParts'
    BY CountStep
  <1>3. CountParts => CandidatesCountRuns
    BY DEF CountParts
  <1>4. QED
    BY <1>1, <1>2, <1>3, NumberingInvariant, PTL DEF Spec

-----------------------------------------------------------------------------
(* A run that passes has tagged what it had checked out.                   *)

Tagged(p, i) ==
  \E t \in tags : /\ t.repo = RepoOrder[p][i] /\ t.version = version[p]
                  /\ t.number = number[p] /\ t.commit = gitCommits[p][i]

PutTags(p) == \E t \in tags : t.pipeline = p /\ t.run = runs[p]

(* A run has tagged the repositories it is past; if it passed without      *)
(* tagging all, it has tagged none.                                        *)
TaggedSoFar ==
  \A p \in Pipelines :
    /\ Active(p) => \A i \in DOMAIN RepoOrder[p] : i < at[p] => Tagged(p, i)
    /\ pc[p] = "passed" /\ PutTags(p) => \A i \in DOMAIN RepoOrder[p] : Tagged(p, i)

(* What a run has tagged stays tagged while others work.                   *)
LEMMA OthersKeepTags ==
  ASSUME TaggedSoFar, NEW o \in Pipelines,
         pc'[o] = pc[o], at'[o] = at[o], runs'[o] = runs[o], version'[o] = version[o],
         number'[o] = number[o], gitCommits'[o] = gitCommits[o],
         tags \subseteq tags', \A t \in tags' : t.pipeline = o => t \in tags
  PROVE  /\ Active(o)' => \A i \in DOMAIN RepoOrder[o] : i < at'[o] => Tagged(o, i)'
         /\ pc'[o] = "passed" /\ PutTags(o)' => \A i \in DOMAIN RepoOrder[o] : Tagged(o, i)'
  <1>1. \A i \in DOMAIN RepoOrder[o] : Tagged(o, i) => Tagged(o, i)'
    BY DEF Tagged
  <1>2. Active(o)' => Active(o)
    BY DEF Active
  <1>3. PutTags(o)' => PutTags(o)
    BY DEF PutTags
  <1>4. QED
    BY <1>1, <1>2, <1>3 DEF TaggedSoFar

LEMMA CreateTagTagged ==
  ASSUME TypeOK, TaggedSoFar, NEW p \in Pipelines, CreateTag(p)
  PROVE  TaggedSoFar'
  <1>1. /\ pc[p] = "create" /\ tags' = tags \cup {NewTag(p)}
        /\ UNCHANGED <<runs, version, gitCommits, number>>
        /\ \A o \in Pipelines : o # p => pc'[o] = pc[o] /\ at'[o] = at[o]
        /\ \/ pc'[p] \in {"passed", "failed"} /\ at' = at
           \/ at'[p] = at[p] + 1
    BY CreateTagEffect
  <1>2. /\ NewTag(p).repo = RepoOrder[p][at[p]] /\ NewTag(p).version = version[p]
        /\ NewTag(p).number = number[p] /\ NewTag(p).commit = gitCommits[p][at[p]]
        /\ NewTag(p).pipeline = p
    BY DEF NewTag, RepoAt, CommitAt
  <1>3. RepoOrder[p] \in Seq(Repos) /\ at[p] \in Nat
    BY DEF TypeOK
  <1>4. \A i \in DOMAIN RepoOrder[p] : i <= at[p] => Tagged(p, i)'
    <2>1. SUFFICES ASSUME NEW i \in DOMAIN RepoOrder[p], i <= at[p]
                   PROVE  Tagged(p, i)'
      OBVIOUS
    <2>2. CASE i = at[p]
      BY <1>1, <1>2, <2>2 DEF Tagged
    <2>3. CASE i < at[p]
      <3>1. Tagged(p, i)
        BY <1>1, <2>3 DEF TaggedSoFar, Active
      <3>2. QED
        BY <1>1, <3>1 DEF Tagged
    <2>4. QED
      BY <1>3, <2>1, <2>2, <2>3
  <1>5. pc'[p] = "passed" => at[p] = Len(RepoOrder[p])
    BY <1>1 DEF CreateTag, Proceed, End, TypeOK
  <1>6. /\ Active(p)' => \A i \in DOMAIN RepoOrder[p] : i < at'[p] => Tagged(p, i)'
        /\ pc'[p] = "passed" => \A i \in DOMAIN RepoOrder[p] : Tagged(p, i)'
    <2>1. Active(p)' => at'[p] = at[p] + 1
      BY <1>1 DEF Active
    <2>2. QED
      BY <1>3, <1>4, <1>5, <2>1
  <1>7. ASSUME NEW o \in Pipelines, o # p
        PROVE  /\ Active(o)' => \A i \in DOMAIN RepoOrder[o] : i < at'[o] => Tagged(o, i)'
               /\ pc'[o] = "passed" /\ PutTags(o)' =>
                    \A i \in DOMAIN RepoOrder[o] : Tagged(o, i)'
    BY <1>1, <1>2, <1>7, OthersKeepTags
  <1>8. QED
    BY <1>6, <1>7 DEF TaggedSoFar

LEMMA TaggedStep ==
  ASSUME NumberingInv, TaggedSoFar, [Next]_vars
  PROVE  TaggedSoFar'
  <1>1. TypeOK
    BY DEF NumberingInv
  <1>2. ASSUME NEW p \in Pipelines, StartRun(p)
        PROVE  TaggedSoFar'
    <2>1. tags' = tags /\ pc'[p] = "list" /\ at'[p] = 1
      BY <1>1, <1>2, StartRunEffect
    <2>2. RepoOrder[p] \in Seq(Repos)
      OBVIOUS
    <2>3. /\ Active(p)' => \A i \in DOMAIN RepoOrder[p] : i < at'[p] => Tagged(p, i)'
          /\ pc'[p] # "passed"
      BY <2>1, <2>2
    <2>4. ASSUME NEW o \in Pipelines, o # p
          PROVE  /\ Active(o)' => \A i \in DOMAIN RepoOrder[o] : i < at'[o] => Tagged(o, i)'
                 /\ pc'[o] = "passed" /\ PutTags(o)' =>
                      \A i \in DOMAIN RepoOrder[o] : Tagged(o, i)'
      BY <1>1, <1>2, <2>1, <2>4, StartRunEffect, OthersKeepTags
    <2>5. QED
      BY <2>3, <2>4 DEF TaggedSoFar
  <1>3. ASSUME NEW p \in Pipelines, ListTags(p)
        PROVE  TaggedSoFar'
    <2>1. /\ UNCHANGED <<tags, runs, version, gitCommits, at>>
          /\ pc[p] = "list" /\ (stage[p] # "qa" => number' = number)
          /\ \A o \in Pipelines : o # p => pc'[o] = pc[o] /\ number'[o] = number[o]
      BY <1>1, <1>3, ListTagsEffect
    <2>2. RepoOrder[p] \in Seq(Repos) /\ at[p] \in Nat \ {0}
      BY <1>1 DEF TypeOK
    <2>3. stage[p] = "qa" => at[p] = 1
      BY <2>1 DEF NumberingInv, NumberOfStage, Active
    <2>4. \A i \in DOMAIN RepoOrder[p] : i < at[p] => Tagged(p, i)'
      <3>1. SUFFICES ASSUME NEW i \in DOMAIN RepoOrder[p], i < at[p]
                     PROVE  Tagged(p, i)'
        OBVIOUS
      <3>2. number' = number
        BY <2>1, <2>2, <2>3, <3>1
      <3>3. Tagged(p, i)
        BY <2>1, <3>1 DEF TaggedSoFar, Active
      <3>4. QED
        BY <2>1, <3>2, <3>3 DEF Tagged
    <2>5. pc'[p] = "passed" => at[p] = 1
      BY <1>1, <1>3 DEF ListTags, AlreadyReleased, NextCandidate, RefuseProd, End,
                        CheckProdTagRequirements, TypeOK
    <2>6. at[p] = 1 => ~PutTags(p)
      BY <2>1 DEF PutTags, NumberingInv, NumberingParts, OwnTags, Active
    <2>7. pc'[p] = "passed" => ~PutTags(p)'
      BY <2>1, <2>5, <2>6 DEF PutTags
    <2>8. ASSUME NEW o \in Pipelines, o # p
          PROVE  /\ Active(o)' => \A i \in DOMAIN RepoOrder[o] : i < at'[o] => Tagged(o, i)'
                 /\ pc'[o] = "passed" /\ PutTags(o)' =>
                      \A i \in DOMAIN RepoOrder[o] : Tagged(o, i)'
      BY <2>1, <2>8, OthersKeepTags
    <2>9. QED
      BY <2>1, <2>4, <2>7, <2>8 DEF TaggedSoFar
  <1>4. ASSUME NEW p \in Pipelines, CreateTag(p)
        PROVE  TaggedSoFar'
    BY <1>1, <1>4, CreateTagTagged
  <1>5. ASSUME NEW p \in Pipelines, Fail(p)
        PROVE  TaggedSoFar'
    <2>1. /\ UNCHANGED <<tags, context, at, number>> /\ pc'[p] = "failed"
          /\ \A o \in Pipelines : o # p => pc'[o] = pc[o]
      BY <1>1, <1>5 DEF Fail, End, TypeOK
    <2>2. ~Active(p)' /\ pc'[p] # "passed"
      BY <2>1 DEF Active
    <2>3. ASSUME NEW o \in Pipelines, o # p
          PROVE  /\ Active(o)' => \A i \in DOMAIN RepoOrder[o] : i < at'[o] => Tagged(o, i)'
                 /\ pc'[o] = "passed" /\ PutTags(o)' =>
                      \A i \in DOMAIN RepoOrder[o] : Tagged(o, i)'
      BY <2>1, <2>3, OthersKeepTags
    <2>4. QED
      BY <2>2, <2>3 DEF TaggedSoFar
  <1>6. CASE UNCHANGED vars
    BY <1>6 DEF TaggedSoFar, Active, Tagged, PutTags
  <1>7. QED
    BY <1>2, <1>3, <1>4, <1>5, <1>6 DEF Next

(* The tag of a run that passed and put tags identifies, in every one of   *)
(* its repositories, the commit the run had checked out.                   *)
THEOREM ReleasesDownloadable == Spec => []ReleaseDownloadable
  <1>1. Init => TaggedSoFar
    BY DEF Init, TaggedSoFar, Active
  <1>2. NumberingInv /\ TaggedSoFar => ReleaseDownloadable
    <2>1. SUFFICES ASSUME NumberingInv, TaggedSoFar, NEW p \in Pipelines,
                          pc[p] = "passed", PutTags(p), NEW i \in DOMAIN RepoOrder[p]
                   PROVE  TagGet(RepoOrder[p][i], version[p], number[p]) = {gitCommits[p][i]}
      BY DEF ReleaseDownloadable, DownloadedCommits, PutTags
    <2>2. PICK t \in tags : /\ t.repo = RepoOrder[p][i] /\ t.version = version[p]
                            /\ t.number = number[p] /\ t.commit = gitCommits[p][i]
      BY <2>1 DEF TaggedSoFar, Tagged
    <2> DEFINE named(s) == /\ s.repo = RepoOrder[p][i] /\ s.version = version[p]
                           /\ s.number = number[p]
    <2>3. \A s \in tags : named(s) => s = t
      <3>1. NamesUnique
        BY <2>1 DEF NumberingInv, NumberingParts
      <3>2. QED
        BY <2>2, <3>1 DEF NamesUnique
    <2>4. QED
      BY <2>2, <2>3 DEF TagGet
  <1>3. NumberingInv /\ TaggedSoFar /\ [Next]_vars => TaggedSoFar'
    BY TaggedStep
  <1>4. QED
    BY <1>1, <1>2, <1>3, NumberingInvariant, PTL DEF Spec

=============================================================================
