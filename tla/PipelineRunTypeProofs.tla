------------------------ MODULE PipelineRunTypeProofs ------------------------
(***************************************************************************)
(* Type correctness of PipelineRun, for every value of its constants.  It  *)
(* rests on what is checked out when: a task after ods-start has commits   *)
(* in all its checkouts, and so has whatever has a manifest.               *)
(***************************************************************************)
EXTENDS PipelineRun, TLAPS

USE DEF run, checkout, builds, git, registry, cluster, counts, vars

Present(r, i) == head[r][Checkouts[r][i]] # NoCommit

CheckedOut ==
  \A r \in Repos :
    /\ pc[r] \in TaskPlaces \ {"clean", "checkout"} =>
         \A i \in DOMAIN Checkouts[r] : Present(r, i)
    /\ pc[r] = "checkout" =>
         \A i \in DOMAIN Checkouts[r] : i < job[r].at => Present(r, i)

Downloads ==
  \A r \in Repos :
    /\ \A q \in Repos : manifest[r][q] # NoManifest => head[r][q] # NoCommit
    /\ pc[r] = "upload" => manifest[r][Here(r)] # NoManifest

TypeInv == TypeOK /\ CheckedOut /\ Downloads

-----------------------------------------------------------------------------
(* Facts about the helpers. *)

Places == TaskPlaces \cup FinishPlaces \cup {"idle"}

(* The current checkout of a run is a repository, the first is its own.    *)
LEMMA HereType ==
  ASSUME RunsTyped, NEW r \in Repos
  PROVE  /\ Here(r) \in Repos
         /\ Len(Checkouts[r]) \in Nat \ {0}
         /\ DOMAIN Checkouts[r] = 1..Len(Checkouts[r])
         /\ job[r].at \in 1..Len(Checkouts[r])
         /\ Checkouts[r][1] = r
  <1>1. Checkouts[r] \in Seq(Repos) /\ Len(Checkouts[r]) > 0 /\ Checkouts[r][1] = r
    BY WorkspaceAssumption
  <1>2. DOMAIN Checkouts[r] = 1..Len(Checkouts[r]) /\ Len(Checkouts[r]) \in Nat
    BY <1>1
  <1>3. job[r].at \in 1..Len(Checkouts[r])
    BY <1>2 DEF RunsTyped
  <1>4. QED
    BY <1>1, <1>2, <1>3 DEF Here

(* The moves of a run keep its place and its job typed.                    *)
LEMMA GotoType ==
  ASSUME RunsTyped, NEW r \in Repos, NEW place \in Places, Goto(r, place), UNCHANGED job
  PROVE  RunsTyped'
  BY DEF RunsTyped, Goto, Places

LEMMA ProceedType ==
  ASSUME RunsTyped, NEW r \in Repos, NEW place \in Places, Proceed(r, place)
  PROVE  RunsTyped'
  <1>1. 1 \in DOMAIN Checkouts[r]
    BY HereType
  <1>2. QED
    BY <1>1 DEF RunsTyped, Proceed, Goto, Places, Job

LEMMA FatalType ==
  ASSUME RunsTyped, NEW r \in Repos, Fatal(r)
  PROVE  RunsTyped'
  <1>1. 1 \in DOMAIN Checkouts[r]
    BY HereType
  <1>2. JobOf(job[r].id, FALSE, job[r].stage) \in Job
    BY DEF RunsTyped, JobOf, Job
  <1>3. QED
    BY <1>1, <1>2 DEF RunsTyped, Fatal, JobOf, FinishPlaces

LEMMA EndRunType ==
  ASSUME RunsTyped, NEW r \in Repos, EndRun(r)
  PROVE  RunsTyped'
  <1>1. 1 \in DOMAIN Checkouts[r]
    BY HereType
  <1>2. QED
    BY <1>1 DEF RunsTyped, EndRun, Goto, NoJob, JobOf, Job

LEMMA NextCheckoutType ==
  ASSUME RunsTyped, NEW r \in Repos, NEW place \in Places, ~ LastHere(r),
         job' = [job EXCEPT ![r].at = @ + 1], pc' = [pc EXCEPT ![r] = place]
  PROVE  RunsTyped'
  <1>1. job[r].at + 1 \in DOMAIN Checkouts[r]
    BY HereType DEF LastHere
  <1>2. job[r].at + 1 \in Nat \ {0}
    BY HereType
  <1>3. QED
    BY <1>1, <1>2 DEF RunsTyped, Places, Job

LEMMA StayType ==
  ASSUME RunsTyped, NEW r \in Repos, pc' = pc
  PROVE  pc' = [pc EXCEPT ![r] = pc[r]] /\ pc[r] \in Places
  BY DEF RunsTyped, Places

(* Where the tasks of a run lead is a place.                               *)
LEMMA AfterTypes ==
  ASSUME NEW r \in Repos
  PROVE  AfterStart(r) \in Places /\ AfterBuild(r) \in Places /\ AfterPackage(r) \in Places
  BY DEF AfterStart, AfterBuild, AfterPackage, Places, TaskPlaces, FinishPlaces

(* Writing artifacts, and caching a build, keep the workspaces typed.      *)
LEMMA WrittenType ==
  ASSUME NEW F \in SUBSET Artifact, NEW new \in SUBSET Artifact
  PROVE  Written(F, new) \in SUBSET Artifact
  BY DEF Written

LEMMA WriteType ==
  ASSUME NEW r \in Repos, NEW new \in SUBSET Artifact, Write(r, new),
         files \in [Repos -> [Repos -> SUBSET Artifact]]
  PROVE  files' \in [Repos -> [Repos -> SUBSET Artifact]]
  <1>1. Written(files[r][r], new) \in SUBSET Artifact
    BY WrittenType
  <1>2. QED
    BY <1>1 DEF Write

LEMMA FileType ==
  ASSUME NEW kind \in Kinds, NEW name \in Nat, NEW value \in Nat
  PROVE  File(kind, name, value) \in Artifact
  BY DEF File, Artifact

-----------------------------------------------------------------------------
(* Frames: what a step keeps typed by what it leaves alone. *)

LEMMA SameWorkspaces ==
  ASSUME WorkspacesTyped, UNCHANGED <<head, files, manifest, built, cache>>
  PROVE  WorkspacesTyped'
  BY DEF WorkspacesTyped

LEMMA FilesOnly ==
  ASSUME WorkspacesTyped, UNCHANGED <<head, manifest, built, cache>>,
         files' \in [Repos -> [Repos -> SUBSET Artifact]]
  PROVE  WorkspacesTyped'
  BY DEF WorkspacesTyped

LEMMA SameServers ==
  ASSUME ServersTyped,
         UNCHANGED <<tip, status, assets, image, sonar, spaces, release, runs, succeeded, misread>>,
         \/ UNCHANGED faults
         \/ Fault
  PROVE  ServersTyped'
  BY DEF ServersTyped, Fault

(* The ways in which a step moves a run to a place.                        *)
Moves(r, place) ==
  \/ Goto(r, place) /\ UNCHANGED job
  \/ Proceed(r, place)
  \/ Fatal(r) /\ place = "finish"
  \/ EndRun(r) /\ place = "idle"

LEMMA MovesType ==
  ASSUME RunsTyped, NEW r \in Repos, NEW place \in Places, Moves(r, place)
  PROVE  /\ RunsTyped'
         /\ pc' = [pc EXCEPT ![r] = place]
         /\ pc'[r] = place
         /\ \A q \in Repos \ {r} : pc'[q] = pc[q] /\ job'[q] = job[q]
  <1> pc \in [Repos -> Places]
    BY DEF RunsTyped, Places
  <1>1. CASE Goto(r, place) /\ UNCHANGED job
    BY <1>1, GotoType DEF Goto
  <1>2. CASE Proceed(r, place)
    BY <1>2, ProceedType DEF Proceed, Goto, RunsTyped
  <1>3. CASE Fatal(r) /\ place = "finish"
    BY <1>3, FatalType DEF Fatal, RunsTyped
  <1>4. CASE EndRun(r) /\ place = "idle"
    BY <1>4, EndRunType DEF EndRun, Goto, RunsTyped
  <1>5. QED
    BY <1>1, <1>2, <1>3, <1>4 DEF Moves

(* A run that moves on with its checkouts, or gives up.                    *)
LEMMA MoveOn ==
  ASSUME TypeInv, NEW r \in Repos, NEW place \in Places \ {"checkout", "upload"},
         Moves(r, place), UNCHANGED <<head, manifest>>,
         \/ pc[r] \in TaskPlaces \ {"clean", "checkout"}
         \/ place \in FinishPlaces \cup {"idle", "clean"}
  PROVE  RunsTyped' /\ CheckedOut' /\ Downloads'
  <1>1. /\ RunsTyped'
        /\ \A q \in Repos \ {r} : job'[q] = job[q]
    BY MovesType DEF TypeInv, TypeOK
  <1>2. pc \in [Repos -> Places] /\ pc'[r] = place /\ \A q \in Repos \ {r} : pc'[q] = pc[q]
    BY MovesType DEF TypeInv, TypeOK, RunsTyped, Places
  <1>3. ASSUME NEW q \in Repos, q # r
        PROVE  Here(q)' = Here(q)
    BY <1>1, <1>3 DEF Here
  <1>4. Downloads'
    BY <1>2, <1>3 DEF TypeInv, Downloads
  <1>5. CheckedOut'
    <2>1. ASSUME NEW q \in Repos, q # r
          PROVE  /\ pc'[q] = pc[q] /\ job'[q] = job[q]
                 /\ \A i \in DOMAIN Checkouts[q] : Present(q, i)' = Present(q, i)
      BY <1>1, <1>2, <2>1 DEF Present
    <2>2. pc'[r] \in TaskPlaces \ {"clean", "checkout"} =>
            \A i \in DOMAIN Checkouts[r] : Present(r, i)'
      BY <1>2 DEF TypeInv, CheckedOut, Present, TaskPlaces, FinishPlaces
    <2>3. QED
      BY <1>2, <2>1, <2>2 DEF TypeInv, CheckedOut
  <1>6. QED
    BY <1>1, <1>4, <1>5

-----------------------------------------------------------------------------
(* ods-start. *)

LEMMA CleanType ==
  ASSUME TypeInv, NEW r \in Repos, Clean(r)
  PROVE  TypeInv'
  <1> USE DEF TypeInv, TypeOK
  <1>1. /\ RunsTyped' /\ pc'[r] = "checkout"
        /\ \A q \in Repos \ {r} : pc'[q] = pc[q] /\ job'[q] = job[q]
    BY MovesType DEF Clean, Moves, Places, TaskPlaces
  <1>2. /\ pc'[r] = "checkout" /\ \A q \in Repos \ {r} : pc'[q] = pc[q]
        /\ job'[r].at = 1
    BY <1>1 DEF RunsTyped, Clean, Proceed, Job
  <1>3. \E kept \in SUBSET cache[r] : cache' = [cache EXCEPT ![r] = kept]
    BY DEF Clean, CleanCache, RecentlyUsed
  <1>4. /\ head' = [head EXCEPT ![r] = [q \in Repos |-> NoCommit]]
        /\ files' = [files EXCEPT ![r] = [q \in Repos |-> {}]]
        /\ manifest' = [manifest EXCEPT ![r] = [q \in Repos |-> NoManifest]]
        /\ built' = [built EXCEPT ![r] = {}]
    BY DEF Clean, DeleteDirectoryContentsSpareCache
  <1>5. \A q \in Repos \ {r} : head'[q] = head[q] /\ manifest'[q] = manifest[q]
    BY <1>4 DEF WorkspacesTyped
  <1>6. WorkspacesTyped'
    <2>1. cache' \in [Repos -> SUBSET [tree : Trees, whole : BOOLEAN, stamped : BOOLEAN]]
      BY <1>3 DEF WorkspacesTyped
    <2>2. /\ head' \in [Repos -> [Repos -> Commits \cup {NoCommit}]]
          /\ \A o, q \in Repos : head'[o][q] # NoCommit => RepoOf[head'[o][q]] = q
      BY <1>4 DEF WorkspacesTyped
    <2>3. NoManifest \in [store : Stores \cup {"none", "absent"}, ids : SUBSET (Kinds \X Nat)]
      BY DEF NoManifest
    <2>4. manifest' \in [Repos -> [Repos -> [store : Stores \cup {"none", "absent"},
                                           ids : SUBSET (Kinds \X Nat)]]]
      BY <1>4, <2>3 DEF WorkspacesTyped
    <2>5. QED
      BY <1>4, <2>1, <2>2, <2>4 DEF WorkspacesTyped
  <1>7. ServersTyped'
    BY SameServers DEF Clean
  <1>8. CheckedOut'
    <2>1. ASSUME NEW q \in Repos \ {r}
          PROVE  /\ pc'[q] = pc[q] /\ job'[q] = job[q]
                 /\ \A i \in DOMAIN Checkouts[q] : Present(q, i)' = Present(q, i)
      BY <1>1, <1>2, <1>5 DEF Present
    <2>2. \A i \in DOMAIN Checkouts[r] : ~ (i < job'[r].at)
      BY <1>2, HereType
    <2>3. QED
      BY <1>2, <2>1, <2>2 DEF CheckedOut
  <1>9. Downloads'
    <2>1. ASSUME NEW q \in Repos \ {r} PROVE Here(q)' = Here(q)
      BY <1>1, <2>1 DEF Here
    <2>2. \A q \in Repos : manifest'[r][q] = NoManifest
      BY <1>4 DEF WorkspacesTyped
    <2>3. QED
      BY <1>2, <1>5, <2>1, <2>2 DEF Downloads
  <1>10. QED
    BY <1>1, <1>6, <1>7, <1>8, <1>9

LEMMA CheckoutType ==
  ASSUME TypeInv, NEW r \in Repos, CheckoutAndAssembleContext(r)
  PROVE  TypeInv'
  <1> USE DEF TypeInv, TypeOK
  <1> DEFINE q0 == Here(r)
  <1>1. q0 \in Repos /\ tip[q0] \in Commits /\ RepoOf[tip[q0]] = q0 /\ tip[q0] # NoCommit
    BY HereType, WorkspaceAssumption DEF ServersTyped
  <1>2. head' = [head EXCEPT ![r][q0] = tip[q0]]
    BY DEF CheckoutAndAssembleContext, Revision
  <1>3. /\ head'[r][q0] = tip[q0]
        /\ \A o, q \in Repos : o # r \/ q # q0 => head'[o][q] = head[o][q]
        /\ head' \in [Repos -> [Repos -> Commits \cup {NoCommit}]]
    BY <1>1, <1>2 DEF WorkspacesTyped
  <1>4. WorkspacesTyped'
    <2>1. ASSUME NEW o \in Repos, NEW q \in Repos, head'[o][q] # NoCommit
          PROVE  RepoOf[head'[o][q]] = q
      <3>1. CASE o = r /\ q = q0
        BY <1>1, <1>3, <3>1
      <3>2. CASE o # r \/ q # q0
        <4>1. head'[o][q] = head[o][q]
          BY <1>3, <3>2
        <4>2. QED
          BY <2>1, <4>1 DEF WorkspacesTyped
      <3>3. QED
        BY <3>1, <3>2
    <2>2. UNCHANGED <<files, manifest, built, cache>>
      BY DEF CheckoutAndAssembleContext
    <2>3. QED
      BY <1>3, <2>1, <2>2 DEF WorkspacesTyped
  <1>5. ServersTyped'
    BY DEF CheckoutAndAssembleContext, ServersTyped, BuildStatusCreate
  <1>6. /\ RunsTyped'
        /\ \A q \in Repos \ {r} : pc'[q] = pc[q] /\ job'[q] = job[q]
        /\ \/ LastHere(r) /\ pc'[r] = "download"
           \/ ~ LastHere(r) /\ pc'[r] = "checkout" /\ job'[r].at = job[r].at + 1
    <2>1. CASE LastHere(r)
      BY <2>1, MovesType DEF CheckoutAndAssembleContext, Moves, Places, TaskPlaces, RunsTyped
    <2>2. CASE ~ LastHere(r)
      <3>1. job' = [job EXCEPT ![r].at = @ + 1] /\ pc' = pc /\ pc[r] = "checkout"
        BY <2>2 DEF CheckoutAndAssembleContext, At
      <3>2. RunsTyped'
        BY <2>2, <3>1, StayType, NextCheckoutType
      <3>3. QED
        BY <2>2, <3>1, <3>2 DEF RunsTyped, Job
    <2>3. QED
      BY <2>1, <2>2
  <1>7. \A i \in DOMAIN Checkouts[r] : i < job[r].at \/ i = job[r].at => Present(r, i)'
    <2>1. \A i \in DOMAIN Checkouts[r] : Checkouts[r][i] \in Repos
      BY HereType, WorkspaceAssumption
    <2>2. pc[r] = "checkout"
      BY DEF CheckoutAndAssembleContext, At
    <2>3. ASSUME NEW i \in DOMAIN Checkouts[r], i < job[r].at PROVE Present(r, i)'
      <3>1. head[r][Checkouts[r][i]] # NoCommit
        BY <2>2, <2>3 DEF CheckedOut, Present
      <3>2. CASE Checkouts[r][i] = q0
        BY <1>1, <1>3, <3>2 DEF Present
      <3>3. CASE Checkouts[r][i] # q0
        <4>1. head'[r][Checkouts[r][i]] = head[r][Checkouts[r][i]]
          BY <1>3, <2>1, <3>3
        <4>2. QED
          BY <3>1, <4>1 DEF Present
      <3>4. QED
        BY <3>2, <3>3
    <2>4. ASSUME NEW i \in DOMAIN Checkouts[r], i = job[r].at PROVE Present(r, i)'
      <3>1. Checkouts[r][i] = q0
        BY <2>4 DEF Here
      <3>2. QED
        BY <1>1, <1>3, <3>1 DEF Present
    <2>5. QED
      BY <2>3, <2>4
  <1>8. CheckedOut'
    <2>1. ASSUME NEW q \in Repos \ {r}
          PROVE  \A i \in DOMAIN Checkouts[q] : Present(q, i)' = Present(q, i)
      <3>1. \A i \in DOMAIN Checkouts[q] : Checkouts[q][i] \in Repos
        BY HereType, WorkspaceAssumption
      <3>2. QED
        BY <1>3, <3>1 DEF Present
    <2>2. \A i \in DOMAIN Checkouts[r] : i <= job[r].at => Present(r, i)'
      BY <1>7, HereType
    <2>3. CASE LastHere(r)
      BY <1>6, <2>1, <2>2, <2>3, HereType DEF CheckedOut, LastHere
    <2>4. CASE ~ LastHere(r)
      BY <1>6, <2>1, <2>2, <2>4, HereType DEF CheckedOut
    <2>5. QED
      BY <2>3, <2>4
  <1>9. Downloads'
    <2>1. ASSUME NEW q \in Repos \ {r} PROVE Here(q)' = Here(q)
      BY <1>6, <2>1 DEF Here
    <2>2. manifest' = manifest /\ pc'[r] # "upload"
      BY <1>6 DEF CheckoutAndAssembleContext
    <2>3. \A o, q \in Repos : head[o][q] # NoCommit => head'[o][q] # NoCommit
      BY <1>1, <1>3
    <2>4. QED
      BY <1>6, <2>1, <2>2, <2>3 DEF Downloads
  <1>10. QED
    BY <1>4, <1>5, <1>6, <1>8, <1>9

LEMMA DownloadGroupType ==
  ASSUME ServersTyped, NEW c
  PROVE  /\ DownloadGroup(c) \in SUBSET Artifact
         /\ SourceRepository(c) \in Stores \cup {"none"}
  <1>1. \A a \in assets : a.file \in Artifact
    BY DEF ServersTyped, Asset
  <1>2. DownloadGroup(c) \in SUBSET Artifact
    BY <1>1 DEF DownloadGroup, Found
  <1>3. SourceRepository(c) \in Stores \cup {"none"}
    BY DEF SourceRepository, Stores
  <1>4. QED
    BY <1>2, <1>3

LEMMA IdsType ==
  ASSUME NEW F \in SUBSET Artifact
  PROVE  Ids(F) \in SUBSET (Kinds \X Nat)
  BY DEF Ids, Id, Artifact

LEMMA DownloadedType ==
  ASSUME TypeInv, NEW r \in Repos, At(r, "download"), NEW F \in SUBSET Artifact,
         Downloaded(r, Here(r), F), UNCHANGED faults \/ Fault
  PROVE  TypeInv'
  <1> USE DEF TypeInv, TypeOK
  <1> DEFINE q0 == Here(r)
             m  == [store |-> SourceRepository(head[r][q0]), ids |-> Ids(F)]
  <1>1. /\ m \in [store : Stores \cup {"none", "absent"}, ids : SUBSET (Kinds \X Nat)]
        /\ m # NoManifest
    <2>1. /\ SourceRepository(head[r][q0]) \in Stores \cup {"none"}
          /\ Ids(F) \in SUBSET (Kinds \X Nat)
      BY DownloadGroupType, IdsType
    <2>2. QED
      BY <2>1 DEF NoManifest, Stores
  <1>2. /\ files' = [files EXCEPT ![r][q0] = F]
        /\ manifest' = [manifest EXCEPT ![r][q0] = m]
        /\ UNCHANGED <<head, built, cache>>
    BY DEF Downloaded
  <1>3. q0 \in Repos /\ head[r][q0] # NoCommit
    <2>1. q0 \in Repos /\ job[r].at \in DOMAIN Checkouts[r]
      BY HereType
    <2>2. QED
      BY <2>1 DEF At, CheckedOut, Present, Here, TaskPlaces
  <1>4. /\ manifest'[r][q0] = m
        /\ \A o, q \in Repos : o # r \/ q # q0 => manifest'[o][q] = manifest[o][q]
    BY <1>2, <1>3 DEF WorkspacesTyped
  <1>5. WorkspacesTyped'
    <2>1. /\ files' \in [Repos -> [Repos -> SUBSET Artifact]]
          /\ manifest' \in [Repos -> [Repos -> [store : Stores \cup {"none", "absent"},
                                             ids : SUBSET (Kinds \X Nat)]]]
      BY <1>1, <1>2 DEF WorkspacesTyped
    <2>2. QED
      BY <1>2, <2>1 DEF WorkspacesTyped
  <1>6. ServersTyped'
    BY SameServers DEF Downloaded
  <1>7. /\ RunsTyped'
        /\ \A q \in Repos \ {r} : pc'[q] = pc[q] /\ job'[q] = job[q]
        /\ pc'[r] \in Places \ {"checkout", "upload"}
    <2>1. CASE ~ PipelineRunExists(r, q0, F)
      <3>1. Fatal(r)
        BY <2>1 DEF Downloaded
      <3>2. "finish" \in Places
        BY DEF Places, FinishPlaces
      <3>3. QED
        BY <3>1, <3>2, MovesType DEF Moves
    <2>2. CASE PipelineRunExists(r, q0, F) /\ LastHere(r)
      <3>1. Proceed(r, AfterStart(r)) /\ AfterStart(r) \in Places
        BY <2>2, AfterTypes DEF Downloaded
      <3>2. AfterStart(r) \notin {"checkout", "upload"}
        BY DEF AfterStart, AfterBuild, AfterPackage
      <3>3. QED
        BY <3>1, <3>2, MovesType DEF Moves
    <2>3. CASE PipelineRunExists(r, q0, F) /\ ~ LastHere(r)
      <3>1. job' = [job EXCEPT ![r].at = @ + 1] /\ pc' = pc /\ pc[r] = "download"
        BY <2>3 DEF Downloaded, At
      <3>2. RunsTyped'
        BY <2>3, <3>1, StayType, NextCheckoutType
      <3>3. QED
        BY <3>1, <3>2 DEF RunsTyped, Places, TaskPlaces
    <2>4. QED
      BY <2>1, <2>2, <2>3
  <1>8. CheckedOut'
    <2>1. \A i \in DOMAIN Checkouts[r] : Present(r, i)'
      BY <1>2 DEF At, CheckedOut, Present, TaskPlaces
    <2>2. \A q \in Repos : \A i \in DOMAIN Checkouts[q] : Present(q, i)' = Present(q, i)
      BY <1>2 DEF Present
    <2>3. QED
      BY <1>7, <2>1, <2>2 DEF CheckedOut
  <1>9. Downloads'
    <2>1. ASSUME NEW q \in Repos \ {r}
          PROVE  Here(q)' = Here(q) /\ Here(q) \in Repos
      BY <1>7, <2>1, HereType DEF Here
    <2>2. QED
      BY <1>2, <1>3, <1>4, <1>7, <2>1 DEF Downloads
  <1>10. QED
    BY <1>5, <1>6, <1>7, <1>8, <1>9

LEMMA StartType ==
  ASSUME TypeInv, NEW r \in Repos, StartStep(r)
  PROVE  TypeInv'
  <1>1. CASE DownloadArtifacts(r)
    <2>1. DownloadGroup(head[r][Here(r)]) \in SUBSET Artifact
      BY DownloadGroupType DEF TypeInv, TypeOK
    <2>2. QED
      BY <1>1, <2>1, DownloadedType DEF DownloadArtifacts
  <1>2. CASE DownloadGarbled(r)
    <2>1. DownloadGroup(head[r][Here(r)]) \in SUBSET Artifact
      BY DownloadGroupType DEF TypeInv, TypeOK
    <2>2. \A f \in Artifact : ErrorPage(f) \in Artifact
      BY DEF ErrorPage, Artifact
    <2>3. PICK f \in DownloadGroup(head[r][Here(r)]) :
            Downloaded(r, Here(r), Written(DownloadGroup(head[r][Here(r)]), {ErrorPage(f)}))
      BY <1>2 DEF DownloadGarbled
    <2>4. Written(DownloadGroup(head[r][Here(r)]), {ErrorPage(f)}) \in SUBSET Artifact
      BY <2>1, <2>2, <2>3, WrittenType
    <2>5. QED
      BY <1>2, <2>3, <2>4, DownloadedType DEF DownloadGarbled
  <1>3. QED
    BY <1>1, <1>2, CleanType, CheckoutType DEF StartStep

-----------------------------------------------------------------------------
(* The tasks.  A step of a task that leaves the servers alone, and of the  *)
(* workspaces changes at most the artifacts.                               *)

LEMMA FilesStep ==
  ASSUME TypeInv, NEW r \in Repos, NEW place \in Places \ {"checkout", "upload"},
         Moves(r, place), UNCHANGED <<checkout, built, cache>>,
         files' \in [Repos -> [Repos -> SUBSET Artifact]],
         \/ pc[r] \in TaskPlaces \ {"clean", "checkout"}
         \/ place \in FinishPlaces \cup {"idle", "clean"}
  PROVE  RunsTyped' /\ CheckedOut' /\ Downloads' /\ WorkspacesTyped'
  <1>1. RunsTyped' /\ CheckedOut' /\ Downloads'
    BY MoveOn
  <1>2. WorkspacesTyped'
    BY FilesOnly DEF TypeInv, TypeOK
  <1>3. QED
    BY <1>1, <1>2

(* Of a step that leaves the files alone as well.                          *)
LEMMA PlainStep ==
  ASSUME TypeInv, NEW r \in Repos, NEW place \in Places \ {"checkout", "upload"},
         Moves(r, place), UNCHANGED <<checkout, files, built, cache>>,
         \/ pc[r] \in TaskPlaces \ {"clean", "checkout"}
         \/ place \in FinishPlaces \cup {"idle", "clean"}
  PROVE  RunsTyped' /\ CheckedOut' /\ Downloads' /\ WorkspacesTyped'
  <1>1. files' \in [Repos -> [Repos -> SUBSET Artifact]]
    BY DEF TypeInv, TypeOK, WorkspacesTyped
  <1>2. QED
    BY <1>1, FilesStep

(* The places that the steps below lead to.                                *)
Onward == Places \ {"checkout", "upload"}

LEMMA OnwardPlaces ==
  /\ {"save", "stamp", "scan", "analysis", "gate", "push", "aqua", "diff", "upgrade",
      "finish", "archive", "collect", "idle", "clean"} \subseteq Onward
  /\ \A r \in Repos : {AfterStart(r), AfterBuild(r), AfterPackage(r)} \subseteq Onward
  BY DEF Onward, Places, TaskPlaces, FinishPlaces, AfterStart, AfterBuild, AfterPackage

LEMMA FilesWritten ==
  ASSUME TypeInv, NEW r \in Repos, NEW new \in SUBSET Artifact, Write(r, new)
  PROVE  files' \in [Repos -> [Repos -> SUBSET Artifact]]
  BY WriteType DEF TypeInv, TypeOK, WorkspacesTyped

(* Within the tasks the own commit is checked out.                         *)
LEMMA OwnCommitType ==
  ASSUME TypeInv, NEW r \in Repos, pc[r] \in TaskPlaces \ {"clean", "checkout"}
  PROVE  OwnCommit(r) \in Commits /\ RepoOf[OwnCommit(r)] = r /\ Tree(r) \in Trees
  <1>1. 1 \in DOMAIN Checkouts[r] /\ Checkouts[r][1] = r
    BY HereType DEF TypeInv, TypeOK
  <1>2. head[r][r] \in Commits \cup {NoCommit} /\ head[r][r] # NoCommit
    BY <1>1 DEF TypeInv, TypeOK, WorkspacesTyped, CheckedOut, Present
  <1>3. RepoOf[head[r][r]] = r
    BY <1>2 DEF TypeInv, TypeOK, WorkspacesTyped
  <1>4. QED
    BY <1>2, <1>3, WorkspaceAssumption DEF OwnCommit, Tree

LEMMA BuiltType ==
  ASSUME TypeInv, NEW r \in Repos, NEW t \in Trees, NEW w \in BOOLEAN,
         built' = [built EXCEPT ![r] = {[tree |-> t, whole |-> w]}]
  PROVE  built' \in [Repos -> SUBSET [tree : Trees, whole : BOOLEAN]]
  BY DEF TypeInv, TypeOK, WorkspacesTyped

LEMMA CachedType ==
  ASSUME TypeInv, NEW r \in Repos, NEW e \in [tree : Trees, whole : BOOLEAN, stamped : BOOLEAN],
         Cached(r, e)
  PROVE  cache' \in [Repos -> SUBSET [tree : Trees, whole : BOOLEAN, stamped : BOOLEAN]]
  BY DEF TypeInv, TypeOK, WorkspacesTyped, Cached

LEMMA ReportType == Report \in Artifact /\ {Report} \subseteq Artifact
  BY FileType DEF Report, Kinds

(* The queue and the gate of a project.                                    *)
Gate    == [run : Nat, status : {"NONE", "OK", "ERROR"}]
Project == [queue : Seq(Nat), gate : Gate, failed : SUBSET Nat]

LEMMA ScannedType ==
  ASSUME ServersTyped, NEW r \in Repos, NEW n \in Nat,
         sonar' = [sonar EXCEPT ![r].queue = Append(@, n)]
  PROVE  sonar' \in [Repos -> Project]
  <1>1. sonar \in [Repos -> Project]
    BY DEF ServersTyped, Project, Gate
  <1>2. Append(sonar[r].queue, n) \in Seq(Nat)
    BY <1>1 DEF Project
  <1>3. [sonar[r] EXCEPT !.queue = Append(@, n)] \in Project
    BY <1>1, <1>2 DEF Project
  <1>4. QED
    BY <1>1, <1>3

LEMMA BuildType ==
  ASSUME TypeInv, NEW r \in Repos, BuildStep(r)
  PROVE  TypeInv'
  <1> USE DEF TypeInv, TypeOK
  <1>1. CASE CopyBuildIfCached(r)
    <2>1. Moves(r, "scan") /\ "scan" \in Onward /\ pc[r] = "build"
      BY <1>1, OnwardPlaces DEF CopyBuildIfCached, Moves, At
    <2>2. RunsTyped' /\ CheckedOut' /\ Downloads'
      BY <1>1, <2>1, MoveOn DEF CopyBuildIfCached, Onward, TaskPlaces
    <2>3. PICK e \in cache[r] :
            /\ e.tree = Tree(r)
            /\ built' = [built EXCEPT ![r] = {[tree |-> e.tree, whole |-> e.whole]}]
            /\ Cached(r, Entry(r, e.whole, TRUE))
      BY <1>1 DEF CopyBuildIfCached
    <2>4. e.tree \in Trees /\ e.whole \in BOOLEAN
      BY <2>3 DEF WorkspacesTyped
    <2>5. built' \in [Repos -> SUBSET [tree : Trees, whole : BOOLEAN]]
      BY <2>3, <2>4, BuiltType
    <2>6. cache' \in [Repos -> SUBSET [tree : Trees, whole : BOOLEAN, stamped : BOOLEAN]]
      BY <2>3, <2>4, CachedType DEF Entry
    <2>7. files' \in [Repos -> [Repos -> SUBSET Artifact]]
      BY <1>1, FilesWritten, ReportType DEF CopyBuildIfCached, CopyArtifacts
    <2>8. WorkspacesTyped'
      BY <1>1, <2>5, <2>6, <2>7 DEF CopyBuildIfCached, WorkspacesTyped
    <2>9. ServersTyped'
      BY <1>1, SameServers DEF CopyBuildIfCached
    <2>10. QED
      BY <2>2, <2>8, <2>9
  <1>2. CASE Build(r)
    <2>1. Moves(r, "save") /\ "save" \in Onward /\ pc[r] = "build"
      BY <1>2, OnwardPlaces DEF Build, Moves, At
    <2>2. RunsTyped' /\ CheckedOut' /\ Downloads'
      BY <1>2, <2>1, MoveOn DEF Build, Onward, TaskPlaces
    <2>3. Tree(r) \in Trees
      BY <2>1, OwnCommitType DEF TaskPlaces
    <2>4. built' \in [Repos -> SUBSET [tree : Trees, whole : BOOLEAN]]
      BY <1>2, <2>3, BuiltType DEF Build
    <2>5. files' \in [Repos -> [Repos -> SUBSET Artifact]]
      BY <1>2, FilesWritten, ReportType DEF Build, CopyArtifacts
    <2>6. WorkspacesTyped'
      BY <1>2, <2>4, <2>5 DEF Build, WorkspacesTyped
    <2>7. ServersTyped'
      BY <1>2, SameServers DEF Build
    <2>8. QED
      BY <2>2, <2>6, <2>7
  <1>3. CASE BuildFails(r)
    <2>1. Moves(r, "finish") /\ "finish" \in Onward /\ pc[r] = "build"
      BY <1>3, OnwardPlaces DEF BuildFails, Moves, At
    <2>2. files' \in [Repos -> [Repos -> SUBSET Artifact]]
      BY <1>3, FilesWritten, ReportType DEF BuildFails, CopyArtifacts
    <2>3. RunsTyped' /\ CheckedOut' /\ Downloads' /\ WorkspacesTyped'
      BY <1>3, <2>1, <2>2, FilesStep DEF BuildFails, Onward, TaskPlaces
    <2>4. ServersTyped'
      BY <1>3, SameServers DEF BuildFails
    <2>5. QED
      BY <2>3, <2>4
  <1>4. CASE BeginCacheBuild(r)
    <2>1. Moves(r, "stamp") /\ "stamp" \in Onward /\ pc[r] = "save"
      BY <1>4, OnwardPlaces DEF BeginCacheBuild, Moves, At
    <2>2. RunsTyped' /\ CheckedOut' /\ Downloads'
      BY <1>4, <2>1, MoveOn DEF BeginCacheBuild, Onward, TaskPlaces
    <2>3. Tree(r) \in Trees
      BY <2>1, OwnCommitType DEF TaskPlaces
    <2>4. cache' \in [Repos -> SUBSET [tree : Trees, whole : BOOLEAN, stamped : BOOLEAN]]
      BY <1>4, <2>3, CachedType DEF BeginCacheBuild, Entry
    <2>5. WorkspacesTyped'
      BY <1>4, <2>4 DEF BeginCacheBuild, WorkspacesTyped
    <2>6. ServersTyped'
      BY <1>4, SameServers DEF BeginCacheBuild
    <2>7. QED
      BY <2>2, <2>5, <2>6
  <1>5. CASE EndCacheBuild(r)
    <2>1. Moves(r, "scan") /\ "scan" \in Onward /\ pc[r] = "stamp"
      BY <1>5, OnwardPlaces DEF EndCacheBuild, Moves, At
    <2>2. RunsTyped' /\ CheckedOut' /\ Downloads'
      BY <1>5, <2>1, MoveOn DEF EndCacheBuild, Onward, TaskPlaces
    <2>3. Tree(r) \in Trees
      BY <2>1, OwnCommitType DEF TaskPlaces
    <2>4. cache' \in [Repos -> SUBSET [tree : Trees, whole : BOOLEAN, stamped : BOOLEAN]]
      BY <1>5, <2>3, CachedType DEF EndCacheBuild, Entry
    <2>5. WorkspacesTyped'
      BY <1>5, <2>4 DEF EndCacheBuild, WorkspacesTyped
    <2>6. ServersTyped'
      BY <1>5, SameServers DEF EndCacheBuild
    <2>7. QED
      BY <2>2, <2>5, <2>6
  <1>6. CASE Scan(r)
    <2>1. Moves(r, "analysis") /\ "analysis" \in Onward /\ pc[r] = "scan"
      BY <1>6, OnwardPlaces DEF Scan, Moves, At
    <2>2. RunsTyped' /\ CheckedOut' /\ Downloads' /\ WorkspacesTyped'
      BY <1>6, <2>1, PlainStep DEF Scan, Onward, TaskPlaces
    <2>3. ComputeEngineTaskID(r) \in Nat
      BY DEF ComputeEngineTaskID, RunsTyped, Job
    <2>4. sonar' \in [Repos -> Project]
      BY <1>6, <2>3, ScannedType DEF Scan
    <2>5. ServersTyped'
      BY <1>6, <2>4 DEF Scan, ServersTyped, Project, Gate
    <2>6. QED
      BY <2>2, <2>5
  <1>7. CASE AwaitComputeEngineTask(r)
    <2>1. PICK place \in Onward : Moves(r, place)
      BY <1>7, OnwardPlaces DEF AwaitComputeEngineTask, Moves
    <2>2. files' \in [Repos -> [Repos -> SUBSET Artifact]]
      BY <1>7, FilesWritten, ReportType
      DEF AwaitComputeEngineTask, GenerateReports, WorkspacesTyped
    <2>3. RunsTyped' /\ CheckedOut' /\ Downloads' /\ WorkspacesTyped'
      BY <1>7, <2>1, <2>2, FilesStep DEF AwaitComputeEngineTask, At, Onward, TaskPlaces
    <2>4. ServersTyped'
      BY <1>7, SameServers DEF AwaitComputeEngineTask
    <2>5. QED
      BY <2>3, <2>4
  <1>8. CASE CheckQualityGate(r)
    <2>1. PICK place \in Onward : Moves(r, place)
      BY <1>8, OnwardPlaces DEF CheckQualityGate, Moves
    <2>2. files' \in [Repos -> [Repos -> SUBSET Artifact]]
      BY <1>8, FilesWritten, ReportType DEF CheckQualityGate, GenerateReports
    <2>3. RunsTyped' /\ CheckedOut' /\ Downloads' /\ WorkspacesTyped'
      BY <1>8, <2>1, <2>2, FilesStep DEF CheckQualityGate, At, Onward, TaskPlaces
    <2>4. ServersTyped'
      BY <1>8, SameServers DEF CheckQualityGate
    <2>5. QED
      BY <2>3, <2>4
  <1>9. QED
    BY <1>1, <1>2, <1>3, <1>4, <1>5, <1>6, <1>7, <1>8 DEF BuildStep

LEMMA PackageType ==
  ASSUME TypeInv, NEW r \in Repos, PackageStep(r)
  PROVE  TypeInv'
  <1> USE DEF TypeInv, TypeOK
  <1>1. /\ pc[r] \in {"package", "push", "aqua"}
        /\ {"package", "push", "aqua"} \subseteq TaskPlaces \ {"clean", "checkout"}
    BY DEF PackageStep, ReuseImage, NoImage, InspectionFails, BuildAndPush, AquaScan,
           AquaScanFails, At, TaskPlaces
  <1>2. OwnCommit(r) \in Commits /\ job[r].id \in Nat
    BY <1>1, OwnCommitType DEF RunsTyped, Job
  <1>3. ASSUME NEW d \in Nat
        PROVE  {ImageArtifact(d)} \subseteq Artifact
    BY <1>3, FileType DEF ImageArtifact, Kinds
  <1>4. CASE ReuseImage(r)
    <2>1. Moves(r, AfterPackage(r)) /\ AfterPackage(r) \in Onward
      BY <1>4, OnwardPlaces DEF ReuseImage, Moves
    <2>2. DigestFromRegistry(r) \in Nat
      BY <1>2 DEF DigestFromRegistry, ServersTyped, Digests
    <2>3. files' \in [Repos -> [Repos -> SUBSET Artifact]]
      BY <1>3, <1>4, <2>2, FilesWritten DEF ReuseImage
    <2>4. RunsTyped' /\ CheckedOut' /\ Downloads' /\ WorkspacesTyped'
      BY <1>1, <1>4, <2>1, <2>3, FilesStep DEF ReuseImage, Onward
    <2>5. ServersTyped'
      BY <1>4, SameServers DEF ReuseImage
    <2>6. QED
      BY <2>4, <2>5
  <1>5. CASE NoImage(r)
    <2>1. Moves(r, "push") /\ "push" \in Onward
      BY <1>5, OnwardPlaces DEF NoImage, Moves
    <2>2. RunsTyped' /\ CheckedOut' /\ Downloads' /\ WorkspacesTyped'
      BY <1>1, <1>5, <2>1, PlainStep DEF NoImage, Onward
    <2>3. ServersTyped'
      BY <1>5, SameServers DEF NoImage
    <2>4. QED
      BY <2>2, <2>3
  <1>6. CASE InspectionFails(r)
    <2>1. Moves(r, "push") /\ "push" \in Onward
      BY <1>6, OnwardPlaces DEF InspectionFails, Moves
    <2>2. RunsTyped' /\ CheckedOut' /\ Downloads' /\ WorkspacesTyped'
      BY <1>1, <1>6, <2>1, PlainStep DEF InspectionFails, Onward
    <2>3. misread' \in SUBSET Commits /\ faults' \in Nat
      BY <1>2, <1>6 DEF InspectionFails, ServersTyped, Fault
    <2>4. ServersTyped'
      BY <1>6, <2>3 DEF InspectionFails, ServersTyped
    <2>5. QED
      BY <2>2, <2>4
  <1>7. CASE BuildAndPush(r)
    <2>1. Moves(r, "aqua") /\ "aqua" \in Onward
      BY <1>7, OnwardPlaces DEF BuildAndPush, Moves
    <2>2. RunsTyped' /\ CheckedOut' /\ Downloads' /\ WorkspacesTyped'
      BY <1>1, <1>7, <2>1, PlainStep DEF BuildAndPush, Onward
    <2>3. image' \in [Commits -> Digests]
      BY <1>2, <1>7 DEF BuildAndPush, BuildahPush, BuildahBuild, ServersTyped, Digests
    <2>4. ServersTyped'
      BY <1>7, <2>3 DEF BuildAndPush, ServersTyped
    <2>5. QED
      BY <2>2, <2>4
  <1>8. CASE AquaScan(r)
    <2>1. Moves(r, AfterPackage(r)) /\ AfterPackage(r) \in Onward
      BY <1>8, OnwardPlaces DEF AquaScan, Moves
    <2>2. {ImageArtifact(BuildahBuild(r)), File("report", 0, 0)} \subseteq Artifact
      BY <1>2, FileType DEF BuildahBuild, ImageArtifact, Kinds
    <2>3. files' \in [Repos -> [Repos -> SUBSET Artifact]]
      BY <1>8, <2>2, FilesWritten DEF AquaScan
    <2>4. RunsTyped' /\ CheckedOut' /\ Downloads' /\ WorkspacesTyped'
      BY <1>1, <1>8, <2>1, <2>3, FilesStep DEF AquaScan, Onward
    <2>5. ServersTyped'
      BY <1>8, SameServers DEF AquaScan
    <2>6. QED
      BY <2>4, <2>5
  <1>9. CASE AquaScanFails(r)
    <2>1. Moves(r, "finish") /\ "finish" \in Onward
      BY <1>9, OnwardPlaces DEF AquaScanFails, Moves
    <2>2. RunsTyped' /\ CheckedOut' /\ Downloads' /\ WorkspacesTyped'
      BY <1>1, <1>9, <2>1, PlainStep DEF AquaScanFails, Onward
    <2>3. ServersTyped'
      BY <1>9, SameServers DEF AquaScanFails
    <2>4. QED
      BY <2>2, <2>3
  <1>10. QED
    BY <1>4, <1>5, <1>6, <1>7, <1>8, <1>9 DEF PackageStep

(* A checkout is left for the next within the tasks.                       *)
LEMMA NextCheckout ==
  ASSUME TypeInv, NEW r \in Repos, pc[r] \in TaskPlaces \ {"clean", "checkout"}, ~ LastHere(r),
         job' = [job EXCEPT ![r].at = @ + 1], UNCHANGED <<pc, head, manifest>>
  PROVE  RunsTyped' /\ CheckedOut' /\ Downloads'
  <1> USE DEF TypeInv, TypeOK
  <1>1. RunsTyped'
    BY StayType, NextCheckoutType
  <1>2. \A q \in Repos \ {r} : job'[q] = job[q]
    BY DEF RunsTyped
  <1>3. \A q \in Repos : \A i \in DOMAIN Checkouts[q] : Present(q, i)' = Present(q, i)
    BY DEF Present
  <1>4. CheckedOut'
    BY <1>2, <1>3 DEF CheckedOut
  <1>5. Downloads'
    <2>1. \A q \in Repos \ {r} : Here(q)' = Here(q)
      BY <1>2 DEF Here
    <2>2. pc[r] # "upload"
      BY DEF TaskPlaces
    <2>3. QED
      BY <2>1, <2>2 DEF Downloads
  <1>6. QED
    BY <1>1, <1>4, <1>5

LEMMA ReleaseType ==
  ASSUME TypeInv, NEW r \in Repos, NEW deployed \in BOOLEAN, Release(r, deployed)
  PROVE  release' \in [Repos -> [Environments -> [chart : [Repos -> Commits \cup {NoCommit}],
                                                 deployed : BOOLEAN]]]
  <1>1. Chart(r) \in [Repos -> Commits \cup {NoCommit}]
    BY DEF Chart, PackagedChart, TypeInv, TypeOK, WorkspacesTyped
  <1>2. [chart |-> Chart(r), deployed |-> deployed]
          \in [chart : [Repos -> Commits \cup {NoCommit}], deployed : BOOLEAN]
    BY <1>1
  <1>3. QED
    BY <1>2 DEF Release, TypeInv, TypeOK, ServersTyped

LEMMA DeployType ==
  ASSUME TypeInv, NEW r \in Repos, DeployStep(r)
  PROVE  TypeInv'
  <1> USE DEF TypeInv, TypeOK
  <1>1. /\ pc[r] \in {"deploy", "diff", "upgrade"}
        /\ {"deploy", "diff", "upgrade"} \subseteq TaskPlaces \ {"clean", "checkout"}
    BY DEF DeployStep, SkipDeployment, CopyImages, HelmDiff, HelmDiffFails, HelmUpgrade,
           HelmUpgradeFails, At, TaskPlaces
  <1>2. {File("deployment", 0, 0)} \subseteq Artifact
    BY FileType DEF Kinds
  <1>3. CASE SkipDeployment(r)
    <2>1. Moves(r, "finish") /\ "finish" \in Onward
      BY <1>3, OnwardPlaces DEF SkipDeployment, Moves
    <2>2. RunsTyped' /\ CheckedOut' /\ Downloads' /\ WorkspacesTyped'
      BY <1>1, <1>3, <2>1, PlainStep DEF SkipDeployment, Onward
    <2>3. ServersTyped'
      BY <1>3, SameServers DEF SkipDeployment
    <2>4. QED
      BY <2>2, <2>3
  <1>4. CASE CopyImages(r)
    <2> DEFINE c == head[r][Here(r)]
               unreadable == \E f \in CollectImageDigests(r) : f.value = Garbled \/ image[c] = 0
    <2>1. c \in Commits
      <3>1. Here(r) \in Repos /\ job[r].at \in DOMAIN Checkouts[r]
        BY HereType
      <3>2. c # NoCommit
        BY <1>1, <3>1 DEF CheckedOut, Present, Here
      <3>3. c \in Commits \cup {NoCommit}
        BY <3>1 DEF WorkspacesTyped
      <3>4. QED
        BY <3>2, <3>3
    <2>2. spaces' \in [Environments -> [Destinations -> Digests]]
      <3>1. spaces \in [Environments -> [Destinations -> Digests]] /\ image[c] \in Digests
        BY <2>1 DEF ServersTyped
      <3>2. spaces' = spaces \/ spaces' = [spaces EXCEPT ![Stage(r)][Destination(r)] = image[c]]
        BY <1>4 DEF CopyImages
      <3>3. Destination(r) \in Destinations
        BY <2>1, HereType DEF Destination, Destinations
      <3>4. CASE spaces' = spaces
        BY <3>1, <3>4
      <3>5. CASE spaces' = [spaces EXCEPT ![Stage(r)][Destination(r)] = image[c]]
        BY <3>1, <3>3, <3>5
      <3>6. QED
        BY <3>2, <3>4, <3>5
    <2>3. ServersTyped'
      BY <1>4, <2>2 DEF CopyImages, ServersTyped
    <2>4. WorkspacesTyped'
      BY <1>4, SameWorkspaces DEF CopyImages
    <2>5. RunsTyped' /\ CheckedOut' /\ Downloads'
      <3>1. CASE unreadable
        <4>1. Moves(r, "finish") /\ "finish" \in Onward
          BY <1>4, <3>1, OnwardPlaces DEF CopyImages, Moves
        <4>2. QED
          BY <1>1, <1>4, <4>1, MoveOn DEF CopyImages, Onward
      <3>2. CASE ~ unreadable /\ LastHere(r)
        <4>1. Moves(r, "diff") /\ "diff" \in Onward
          BY <1>4, <3>2, OnwardPlaces DEF CopyImages, Moves
        <4>2. QED
          BY <1>1, <1>4, <4>1, MoveOn DEF CopyImages, Onward
      <3>3. CASE ~ unreadable /\ ~ LastHere(r)
        BY <1>1, <1>4, <3>3, NextCheckout DEF CopyImages
      <3>4. QED
        BY <3>1, <3>2, <3>3
    <2>6. QED
      BY <2>3, <2>4, <2>5
  <1>5. CASE HelmDiff(r)
    <2>1. PICK place \in Onward : Moves(r, place)
      BY <1>5, OnwardPlaces DEF HelmDiff, Moves
    <2>2. files' \in [Repos -> [Repos -> SUBSET Artifact]]
      BY <1>2, <1>5, FilesWritten DEF HelmDiff, WriteDeploymentArtifact, WorkspacesTyped
    <2>3. RunsTyped' /\ CheckedOut' /\ Downloads' /\ WorkspacesTyped'
      BY <1>1, <1>5, <2>1, <2>2, FilesStep DEF HelmDiff, Onward
    <2>4. ServersTyped'
      BY <1>5, SameServers DEF HelmDiff
    <2>5. QED
      BY <2>3, <2>4
  <1>6. CASE HelmDiffFails(r)
    <2>1. Moves(r, "upgrade") /\ "upgrade" \in Onward
      BY <1>6, OnwardPlaces DEF HelmDiffFails, Moves
    <2>2. files' \in [Repos -> [Repos -> SUBSET Artifact]]
      BY <1>2, <1>6, FilesWritten DEF HelmDiffFails, WriteDeploymentArtifact
    <2>3. RunsTyped' /\ CheckedOut' /\ Downloads' /\ WorkspacesTyped'
      BY <1>1, <1>6, <2>1, <2>2, FilesStep DEF HelmDiffFails, Onward
    <2>4. ServersTyped'
      BY <1>6, SameServers DEF HelmDiffFails
    <2>5. QED
      BY <2>3, <2>4
  <1>7. CASE HelmUpgrade(r)
    <2>1. Moves(r, "finish") /\ "finish" \in Onward
      BY <1>7, OnwardPlaces DEF HelmUpgrade, Moves
    <2>2. files' \in [Repos -> [Repos -> SUBSET Artifact]]
      BY <1>2, <1>7, FilesWritten DEF HelmUpgrade, WriteDeploymentArtifact
    <2>3. RunsTyped' /\ CheckedOut' /\ Downloads' /\ WorkspacesTyped'
      BY <1>1, <1>7, <2>1, <2>2, FilesStep DEF HelmUpgrade, Onward
    <2>4. ServersTyped'
      BY <1>7, ReleaseType DEF HelmUpgrade, ServersTyped
    <2>5. QED
      BY <2>3, <2>4
  <1>8. CASE HelmUpgradeFails(r)
    <2>1. Moves(r, "finish") /\ "finish" \in Onward
      BY <1>8, OnwardPlaces DEF HelmUpgradeFails, Moves
    <2>2. RunsTyped' /\ CheckedOut' /\ Downloads' /\ WorkspacesTyped'
      BY <1>1, <1>8, <2>1, PlainStep DEF HelmUpgradeFails, Onward
    <2>3. Release(r, FALSE) /\ faults' = faults + 1
      BY <1>8 DEF HelmUpgradeFails, Fault
    <2>4. release' \in [Repos -> [Environments -> [chart : [Repos -> Commits \cup {NoCommit}],
                                                   deployed : BOOLEAN]]]
      BY <2>3, ReleaseType
    <2>5. faults' \in Nat
      BY <2>3 DEF ServersTyped
    <2>6. UNCHANGED <<tip, status, assets, image, sonar, spaces, runs, succeeded, misread>>
      BY <1>8 DEF HelmUpgradeFails
    <2>7. ServersTyped'
      BY <2>4, <2>5, <2>6 DEF ServersTyped
    <2>8. QED
      BY <2>2, <2>7
  <1>9. QED
    BY <1>3, <1>4, <1>5, <1>6, <1>7, <1>8 DEF DeployStep

-----------------------------------------------------------------------------
(* ods-finish, and what happens around the tasks. *)

(* An upload goes to a commit: there is a manifest only of what is checked *)
(* out.                                                                    *)
LEMMA UploadType ==
  ASSUME TypeInv, NEW r \in Repos, UploadArtifact(r)
  PROVE  TypeInv'
  <1> USE DEF TypeInv, TypeOK
  <1>1. At(r, "upload") /\ Here(r) \in Repos
    BY HereType DEF UploadArtifact
  <1>2. head[r][Here(r)] # NoCommit /\ head[r][Here(r)] \in Commits
    <2>1. manifest[r][Here(r)] # NoManifest
      BY <1>1 DEF Downloads, At
    <2>2. head[r][Here(r)] \in Commits \cup {NoCommit}
      BY <1>1 DEF WorkspacesTyped
    <2>3. QED
      BY <1>1, <2>1, <2>2 DEF Downloads
  <1>3. PICK f \in job[r].todo :
          /\ Upload([store |-> TargetRepository(r), commit |-> head[r][Here(r)],
                     folder |-> ArtifactFolder(r), file |-> f])
          /\ job' = [job EXCEPT ![r].todo = @ \ {f}]
    BY DEF UploadArtifact
  <1>4. f \in Artifact
    BY <1>3 DEF RunsTyped, Job
  <1>5. assets' \in SUBSET Asset
    <2>1. TargetRepository(r) \in Stores /\ ArtifactFolder(r) \in Nat
      BY DEF TargetRepository, Stores, ArtifactFolder, RunsTyped, Job
    <2>2. [store |-> TargetRepository(r), commit |-> head[r][Here(r)],
           folder |-> ArtifactFolder(r), file |-> f] \in Asset
      BY <1>2, <1>4, <2>1 DEF Asset
    <2>3. QED
      BY <1>3, <2>2 DEF Upload, ServersTyped
  <1>6. RunsTyped'
    <2>1. job[r].todo \ {f} \in SUBSET Artifact
      BY DEF RunsTyped, Job
    <2>2. [job[r] EXCEPT !.todo = job[r].todo \ {f}] \in Job
      BY <2>1 DEF RunsTyped, Job
    <2>3. job' \in [Repos -> Job] /\ \A q \in Repos : job'[q].at = job[q].at
      BY <1>3, <2>2 DEF RunsTyped
    <2>4. QED
      BY <2>3 DEF UploadArtifact, RunsTyped
  <1>7. ServersTyped'
    BY <1>5 DEF UploadArtifact, ServersTyped
  <1>8. WorkspacesTyped'
    BY SameWorkspaces DEF UploadArtifact
  <1>9. \A q \in Repos : job'[q].at = job[q].at
    BY <1>3 DEF RunsTyped
  <1>10. CheckedOut'
    BY <1>9 DEF UploadArtifact, CheckedOut, Present
  <1>11. Downloads'
    BY <1>9 DEF UploadArtifact, Downloads, Here
  <1>12. QED
    BY <1>6, <1>7, <1>8, <1>10, <1>11

(* A list of files to upload is of artifacts of a checkout with a manifest.*)
LEMMA CollectType ==
  ASSUME TypeInv, NEW r \in Repos, CollectArtifacts(r), manifest[r][Here(r)] # NoManifest
  PROVE  TypeInv'
  <1> USE DEF TypeInv, TypeOK
  <1>1. PICK todo \in SUBSET files[r][Here(r)] :
          job' = [job EXCEPT ![r].todo = todo] /\ Goto(r, "upload")
    BY DEF CollectArtifacts
  <1>2. RunsTyped'
    <2>1. todo \in SUBSET Artifact
      BY HereType DEF WorkspacesTyped
    <2>2. [job[r] EXCEPT !.todo = todo] \in Job
      BY <2>1 DEF RunsTyped, Job
    <2>3. QED
      BY <1>1, <2>2 DEF Goto, RunsTyped, FinishPlaces
  <1>3. /\ \A q \in Repos : job'[q].at = job[q].at
        /\ pc'[r] = "upload" /\ \A q \in Repos \ {r} : pc'[q] = pc[q]
    BY <1>1 DEF Goto, RunsTyped
  <1>4. ServersTyped'
    BY SameServers DEF CollectArtifacts
  <1>5. WorkspacesTyped'
    BY SameWorkspaces DEF CollectArtifacts
  <1>6. UNCHANGED <<head, manifest>>
    BY DEF CollectArtifacts
  <1>7. CheckedOut'
    <2>1. "upload" \notin TaskPlaces /\ "upload" # "checkout"
      BY DEF TaskPlaces
    <2>2. QED
      BY <1>3, <1>6, <2>1 DEF CheckedOut, Present
  <1>8. Downloads'
    BY <1>3, <1>6 DEF Downloads, Here
  <1>9. QED
    BY <1>2, <1>4, <1>5, <1>7, <1>8

LEMMA FinishType ==
  ASSUME TypeInv, NEW r \in Repos, FinishStep(r)
  PROVE  TypeInv'
  <1> USE DEF TypeInv, TypeOK
  <1> {"finish", "archive", "collect", "idle"} \subseteq FinishPlaces \cup {"idle", "clean"}
    BY DEF FinishPlaces
  <1>1. CASE NoContext(r)
    <2>1. Moves(r, "idle") /\ "idle" \in Onward
      BY <1>1, OnwardPlaces DEF NoContext, Moves
    <2>2. RunsTyped' /\ CheckedOut' /\ Downloads' /\ WorkspacesTyped'
      BY <1>1, <2>1, PlainStep DEF NoContext, Onward
    <2>3. ServersTyped'
      BY <1>1, SameServers DEF NoContext
    <2>4. QED
      BY <2>2, <2>3
  <1>2. CASE SetBuildStatus(r)
    <2>1. Moves(r, "archive") /\ "archive" \in Onward
      BY <1>2, OnwardPlaces DEF SetBuildStatus, Moves
    <2>2. RunsTyped' /\ CheckedOut' /\ Downloads' /\ WorkspacesTyped'
      BY <1>2, <2>1, PlainStep DEF SetBuildStatus, Onward
    <2>3. OwnCommit(r) \in Commits
      BY <1>2 DEF SetBuildStatus, OwnCommit, WorkspacesTyped
    <2>4. status' \in [Commits -> {"none", "INPROGRESS", "SUCCESSFUL", "FAILED"}]
      BY <1>2, <2>3 DEF SetBuildStatus, BuildStatusCreate, BitbucketBuildStatus, ServersTyped
    <2>5. succeeded' \in SUBSET Commits
      BY <1>2, <2>3 DEF SetBuildStatus, ServersTyped
    <2>6. ServersTyped'
      BY <1>2, <2>4, <2>5 DEF SetBuildStatus, ServersTyped
    <2>7. QED
      BY <2>2, <2>6
  <1>3. CASE CreatePipelineRunArtifact(r)
    <2>1. Moves(r, "collect") /\ "collect" \in Onward
      BY <1>3, OnwardPlaces DEF CreatePipelineRunArtifact, Moves
    <2>2. PICK value \in {Success, Failure} : Write(r, {File("run", job[r].id, value)})
      BY <1>3 DEF CreatePipelineRunArtifact
    <2>3. {File("run", job[r].id, value)} \subseteq Artifact
      BY FileType DEF RunsTyped, Job, Kinds, Success, Failure
    <2>4. files' \in [Repos -> [Repos -> SUBSET Artifact]]
      BY <2>2, <2>3, FilesWritten
    <2>5. RunsTyped' /\ CheckedOut' /\ Downloads' /\ WorkspacesTyped'
      BY <1>3, <2>1, <2>4, FilesStep DEF CreatePipelineRunArtifact, Onward
    <2>6. ServersTyped'
      BY <1>3, SameServers DEF CreatePipelineRunArtifact
    <2>7. QED
      BY <2>5, <2>6
  <1>4. CASE CollectArtifacts(r)
    <2>1. CASE manifest[r][Here(r)] # NoManifest
      BY <1>4, <2>1, CollectType
    <2>2. CASE manifest[r][Here(r)] = NoManifest
      <3>1. Moves(r, "idle") /\ "idle" \in Onward
        BY <1>4, <2>2, OnwardPlaces DEF CollectArtifacts, Moves
      <3>2. RunsTyped' /\ CheckedOut' /\ Downloads' /\ WorkspacesTyped'
        BY <1>4, <3>1, PlainStep DEF CollectArtifacts, Onward
      <3>3. ServersTyped'
        BY <1>4, SameServers DEF CollectArtifacts
      <3>4. QED
        BY <3>2, <3>3
    <2>3. QED
      BY <2>1, <2>2
  <1>5. CASE UploadArtifact(r)
    BY <1>5, UploadType
  <1>6. CASE UploadsDone(r)
    <2>1. WorkspacesTyped' /\ ServersTyped' /\ UNCHANGED <<head, manifest>>
      BY <1>6, SameWorkspaces, SameServers DEF UploadsDone
    <2>2. CASE LastHere(r)
      <3>1. Moves(r, "idle") /\ "idle" \in Onward
        BY <1>6, <2>2, OnwardPlaces DEF UploadsDone, Moves
      <3>2. QED
        BY <2>1, <3>1, MoveOn DEF Onward
    <2>3. CASE ~ LastHere(r)
      <3>1. job' = [job EXCEPT ![r].at = @ + 1] /\ pc' = [pc EXCEPT ![r] = "collect"]
        BY <1>6, <2>3 DEF UploadsDone, Goto
      <3>2. RunsTyped'
        BY <2>3, <3>1, NextCheckoutType DEF Places
      <3>3. pc'[r] = "collect" /\ \A q \in Repos \ {r} : pc'[q] = pc[q] /\ job'[q] = job[q]
        BY <3>1 DEF RunsTyped
      <3>4. CheckedOut'
        <4>1. "collect" \notin TaskPlaces
          BY DEF TaskPlaces
        <4>2. QED
          BY <2>1, <3>3, <4>1 DEF CheckedOut, Present
      <3>5. Downloads'
        BY <2>1, <3>3 DEF Downloads, Here
      <3>6. QED
        BY <2>1, <3>2, <3>4, <3>5
    <2>4. QED
      BY <2>2, <2>3
  <1>7. QED
    BY <1>1, <1>2, <1>3, <1>4, <1>5, <1>6 DEF FinishStep

LEMMA TriggerType ==
  ASSUME TypeInv, NEW r \in Repos, NEW s \in Stages[r], Trigger(r, s)
  PROVE  TypeInv'
  <1> USE DEF TypeInv, TypeOK
  <1>1. /\ pc' = [pc EXCEPT ![r] = "clean"]
        /\ job' = [job EXCEPT ![r] = JobOf(runs + 1, TRUE, s)]
        /\ UNCHANGED <<head, manifest>>
    BY DEF Trigger, Goto
  <1>2. pc'[r] = "clean" /\ \A q \in Repos \ {r} : pc'[q] = pc[q] /\ job'[q] = job[q]
    BY <1>1 DEF RunsTyped
  <1>3. RunsTyped'
    <2>1. s \in Environments \cup {"none"}
      BY WorkspaceAssumption DEF Environments
    <2>2. JobOf(runs + 1, TRUE, s) \in Job
      BY <2>1 DEF JobOf, Job, ServersTyped
    <2>3. 1 \in DOMAIN Checkouts[r]
      BY HereType
    <2>4. JobOf(runs + 1, TRUE, s).at = 1
      BY DEF JobOf
    <2>5. QED
      BY <1>1, <2>2, <2>3, <2>4 DEF RunsTyped, TaskPlaces
  <1>4. WorkspacesTyped'
    BY SameWorkspaces DEF Trigger
  <1>5. ServersTyped'
    BY DEF Trigger, ServersTyped
  <1>6. CheckedOut'
    BY <1>1, <1>2 DEF CheckedOut, Present
  <1>7. Downloads'
    BY <1>1, <1>2 DEF Downloads, Here
  <1>8. QED
    BY <1>3, <1>4, <1>5, <1>6, <1>7

LEMMA StopType ==
  ASSUME TypeInv, NEW r \in Repos, TaskFails(r) \/ RunStops(r)
  PROVE  TypeInv'
  <1> USE DEF TypeInv, TypeOK
  <1>1. PICK place \in {"finish", "idle"} : Moves(r, place)
    BY DEF TaskFails, RunStops, Moves
  <1>2. place \in Onward /\ place \in FinishPlaces \cup {"idle", "clean"}
    BY <1>1, OnwardPlaces DEF FinishPlaces
  <1>3. UNCHANGED <<checkout, files, built, cache>>
    BY DEF TaskFails, RunStops
  <1>4. RunsTyped' /\ CheckedOut' /\ Downloads' /\ WorkspacesTyped'
    BY <1>1, <1>2, <1>3, PlainStep DEF Onward
  <1>5. ServersTyped'
    BY SameServers DEF TaskFails, RunStops
  <1>6. QED
    BY <1>4, <1>5

(* The server works on an analysis: it changes nothing of the runs.        *)
LEMMA AnalysisType ==
  ASSUME TypeInv, NEW r \in Repos, AnalysisPasses(r) \/ AnalysisFails(r)
  PROVE  TypeInv'
  <1> USE DEF TypeInv, TypeOK
  <1>1. PICK result \in {"OK", "ERROR", "FAILED"} : Analysed(r, result)
    BY DEF AnalysisPasses, AnalysisFails
  <1>2. faults' \in Nat
    BY DEF AnalysisPasses, AnalysisFails, Fault, ServersTyped
  <1> DEFINE old == sonar[r]
             n   == Head(old.queue)
             gate   == IF result = "FAILED" THEN old.gate ELSE [run |-> n, status |-> result]
             failed == IF result = "FAILED" THEN old.failed \cup {n} ELSE old.failed
  <1>3. old \in Project
    BY DEF ServersTyped, Project, Gate
  <1>4. old.queue # << >> /\ sonar' = [sonar EXCEPT ![r] =
                                        [queue |-> Tail(old.queue), gate |-> gate, failed |-> failed]]
    BY <1>1 DEF Analysed
  <1>5. n \in Nat /\ Tail(old.queue) \in Seq(Nat)
    BY <1>3, <1>4 DEF Project
  <1>6. gate \in Gate /\ failed \in SUBSET Nat
    BY <1>1, <1>3, <1>5 DEF Project, Gate
  <1>7. sonar' \in [Repos -> Project]
    <2> HIDE DEF gate, failed
    <2>1. [queue |-> Tail(old.queue), gate |-> gate, failed |-> failed] \in Project
      BY <1>5, <1>6 DEF Project
    <2> HIDE DEF old
    <2>2. QED
      BY <1>4, <2>1 DEF ServersTyped, Project, Gate
  <1>8. UNCHANGED <<run, checkout, files, built, cache, git, assets, registry, cluster, runs,
                    succeeded>>
    BY <1>1 DEF Analysed
  <1>9. RunsTyped' /\ WorkspacesTyped' /\ CheckedOut' /\ Downloads'
    BY <1>8, SameWorkspaces DEF RunsTyped, CheckedOut, Downloads, Present, Here
  <1>10. ServersTyped'
    BY <1>2, <1>7, <1>8 DEF ServersTyped, Project, Gate
  <1>11. QED
    BY <1>9, <1>10

LEMMA BranchType ==
  ASSUME TypeInv, NEW c \in Commits, MoveBranch(c)
  PROVE  TypeInv'
  <1> USE DEF TypeInv, TypeOK
  <1>1. UNCHANGED <<run, checkout, files, builds, status, assets, registry, cluster, counts,
                    succeeded>>
    BY DEF MoveBranch
  <1>2. RunsTyped' /\ WorkspacesTyped' /\ CheckedOut' /\ Downloads'
    BY <1>1, SameWorkspaces DEF RunsTyped, CheckedOut, Downloads, Present, Here
  <1>3. tip' \in [Repos -> Commits] /\ \A q \in Repos : RepoOf[tip'[q]] = q
    BY DEF MoveBranch, ServersTyped
  <1>4. ServersTyped'
    BY <1>1, <1>3 DEF ServersTyped
  <1>5. QED
    BY <1>2, <1>4

-----------------------------------------------------------------------------
LEMMA TypeInit == Init => TypeInv
  <1> SUFFICES ASSUME Init PROVE TypeInv
    OBVIOUS
  <1>1. NoJob \in Job /\ NoJob.at = 1
    BY DEF NoJob, JobOf, Job
  <1>2. \A r \in Repos : 1 \in DOMAIN Checkouts[r]
    BY WorkspaceAssumption
  <1>3. RunsTyped
    BY <1>1, <1>2 DEF Init, RunsTyped
  <1>4. WorkspacesTyped
    BY DEF Init, WorkspacesTyped, NoManifest
  <1>5. ServersTyped
    <2>1. tip \in [Repos -> Commits] /\ \A q \in Repos : RepoOf[tip[q]] = q
      BY DEF Init
    <2>2. sonar \in [Repos -> Project]
      <3>1. << >> \in Seq(Nat)
        OBVIOUS
      <3>2. QED
        BY <3>1 DEF Init, Project, Gate
    <2>3. release \in [Repos -> [Environments -> [chart : [Repos -> Commits \cup {NoCommit}],
                                                  deployed : BOOLEAN]]]
      BY DEF Init, NoChart
    <2>4. QED
      BY <2>1, <2>2, <2>3 DEF Init, ServersTyped, Project, Gate, Digests
  <1>6. CheckedOut /\ Downloads
    BY DEF Init, CheckedOut, Downloads, NoManifest, TaskPlaces
  <1>7. QED
    BY <1>3, <1>4, <1>5, <1>6 DEF TypeInv, TypeOK

LEMMA TypeNext == TypeInv /\ [Next]_vars => TypeInv'
  <1> SUFFICES ASSUME TypeInv, [Next]_vars PROVE TypeInv'
    OBVIOUS
  <1>1. ASSUME NEW r \in Repos, Step(r) PROVE TypeInv'
    BY <1>1, StartType, BuildType, PackageType, DeployType, FinishType DEF Step
  <1>2. ASSUME NEW r \in Repos, TaskFails(r) \/ RunStops(r) PROVE TypeInv'
    BY <1>2, StopType
  <1>3. ASSUME NEW r \in Repos, AnalysisPasses(r) \/ AnalysisFails(r) PROVE TypeInv'
    BY <1>3, AnalysisType
  <1>4. ASSUME NEW r \in Repos, NEW s \in Stages[r], Trigger(r, s) PROVE TypeInv'
    BY <1>4, TriggerType
  <1>5. ASSUME NEW c \in Commits, MoveBranch(c) PROVE TypeInv'
    BY <1>5, BranchType
  <1>6. CASE UNCHANGED vars
    BY <1>6, SameWorkspaces, SameServers
    DEF TypeInv, TypeOK, RunsTyped, CheckedOut, Downloads, Present, Here
  <1>7. QED
    BY <1>1, <1>2, <1>3, <1>4, <1>5, <1>6 DEF Next

(* Whatever the repositories and their subrepositories, the state of the   *)
(* runs, of their workspaces and of the servers stays within its types:    *)
(* artifacts are filed under commits, images under tags that are commits,  *)
(* and no task works on a checkout that is missing.                        *)
THEOREM TypeCorrect == Spec => []TypeOK
  <1>1. Spec => []TypeInv
    BY TypeInit, TypeNext, PTL DEF Spec
  <1>2. TypeInv => TypeOK
    BY DEF TypeInv
  <1>3. QED
    BY <1>1, <1>2, PTL
=============================================================================
