------------------------------ MODULE DeployHelm ------------------------------
(***************************************************************************)
(* Task ods-deploy-helm (cmd/deploy-with-helm): the images named by the    *)
(* artifacts of all checkouts are copied into the namespace of the         *)
(* environment, then the release is upgraded if it differs.                *)
(***************************************************************************)
EXTENDS Workspace

Images(r, q) == {f \in files[r][q] : f.kind = "image"}
Stage(r)     == job[r].stage

SkipDeployment(r) ==
  /\ At(r, "deploy") /\ Stage(r) = "none"
  /\ Proceed(r, "finish")
  /\ UNCHANGED <<checkout, files, builds, git, assets, registry, cluster, counts, succeeded>>

\* Mutant: the images of subrepositories are not collected.
CollectImageDigestsOwn(r) == IF Here(r) = r THEN Images(r, r) ELSE {}

CollectImageDigests(r) == Images(r, Here(r))

(***************************************************************************)
(* Where an image goes: with a registryHost, to host, namespace and image  *)
(* stream without a tag; otherwise its own reference, the tag included,    *)
(* with the namespace replaced.                                            *)
(***************************************************************************)
Destination(r) ==
  IF Stage(r) \in RegistryHosts THEN Here(r) ELSE head[r][Here(r)]

(***************************************************************************)
(* Images are copied by tag, checkout by checkout; the digest in the       *)
(* artifact is not looked at.  What cannot be read or copied ends the task.*)
(***************************************************************************)
CopyImages(r) ==
  /\ At(r, "deploy") /\ Stage(r) # "none"
  /\ LET c == head[r][Here(r)]
     IN  IF \E f \in CollectImageDigests(r) : f.value = Garbled \/ image[c] = 0
           THEN Fatal(r) /\ UNCHANGED spaces
           ELSE /\ spaces' = IF CollectImageDigests(r) = {} THEN spaces
                             ELSE [spaces EXCEPT ![Stage(r)][Destination(r)] = image[c]]
                /\ IF LastHere(r) THEN Proceed(r, "diff")
                   ELSE job' = [job EXCEPT ![r].at = @ + 1] /\ UNCHANGED pc
  /\ UNCHANGED <<checkout, files, builds, git, assets, registry, release, counts, succeeded>>

(***************************************************************************)
(* The charts of the subrepositories are packaged, with their commits as   *)
(* version and image tag, and become charts within that of the umbrella.   *)
(***************************************************************************)
PackagedChart(r, q) == head[r][q]
Chart(r) == [q \in Repos |-> PackagedChart(r, q)]
WriteDeploymentArtifact(r) == Write(r, {File("deployment", 0, 0)})

NoDiff(r) == release[r][Stage(r)].chart = Chart(r)

\* No difference ends the task; a diff that fails is read as a difference.
HelmDiff(r) ==
  /\ At(r, "diff")
  /\ \/ NoDiff(r) /\ Proceed(r, "finish") /\ UNCHANGED files
     \/ ~ NoDiff(r) /\ WriteDeploymentArtifact(r) /\ Proceed(r, "upgrade")
  /\ UNCHANGED <<checkout, builds, git, assets, registry, cluster, counts, succeeded>>

\* Mutant: a diff that fails is read as no difference.
HelmDiffFailsEnds(r) ==
  /\ At(r, "diff") /\ Fault
  /\ Proceed(r, "finish")
  /\ UNCHANGED <<checkout, files, builds, git, assets, registry, cluster, runs, succeeded>>

HelmDiffFails(r) ==
  /\ At(r, "diff") /\ Fault
  /\ WriteDeploymentArtifact(r)
  /\ Proceed(r, "upgrade")
  /\ UNCHANGED <<checkout, builds, git, assets, registry, cluster, runs, succeeded>>

\* The last revision of the release, failed ones included.
Release(r, deployed) ==
  release' = [release EXCEPT ![r][Stage(r)] = [chart |-> Chart(r), deployed |-> deployed]]

HelmUpgrade(r) ==
  /\ At(r, "upgrade")
  /\ Release(r, TRUE)
  /\ WriteDeploymentArtifact(r)
  /\ Proceed(r, "finish")
  /\ UNCHANGED <<checkout, builds, git, assets, registry, spaces, counts, succeeded>>

\* An upgrade that fails may leave its release behind.
HelmUpgradeFails(r) ==
  /\ At(r, "upgrade") /\ Fault
  /\ Release(r, FALSE)
  /\ Fatal(r)
  /\ UNCHANGED <<checkout, files, builds, git, assets, registry, spaces, runs, succeeded>>

DeployStep(r) ==
  \/ SkipDeployment(r) \/ CopyImages(r) \/ HelmDiff(r) \/ HelmDiffFails(r)
  \/ HelmUpgrade(r) \/ HelmUpgradeFails(r)
=============================================================================
