----------------------------- MODULE PackageImage -----------------------------
(***************************************************************************)
(* Task ods-package-image (cmd/build-push-image): an image tagged with the *)
(* commit is built, pushed and scanned unless the registry has it already. *)
(***************************************************************************)
EXTENDS Workspace

ImageArtifact(digest) == File("image", 0, digest)

(***************************************************************************)
(* What the inspection prints is recorded with the newline it ends in,     *)
(* unlike the digest that buildah leaves in a file.  Nothing here compares *)
(* the two as texts: a digest is the image it names.                       *)
(***************************************************************************)
DigestFromRegistry(r) == image[OwnCommit(r)]

\* Mutant: the image is built whether or not it exists.
ImageFoundNever(r) == FALSE

ImageFound(r) == DigestFromRegistry(r) # 0

ReuseImage(r) ==
  /\ At(r, "package")
  /\ ImageFound(r)
  /\ Write(r, {ImageArtifact(DigestFromRegistry(r))})
  /\ Proceed(r, AfterPackage(r))
  /\ UNCHANGED <<checkout, builds, git, assets, registry, cluster, counts, succeeded>>

(***************************************************************************)
(* Any error of the inspection is taken for an image that does not exist;  *)
(* history keeps the commits of which it did exist.                        *)
(***************************************************************************)
NoImage(r) ==
  /\ At(r, "package") /\ ~ ImageFound(r)
  /\ Goto(r, "push")
  /\ UNCHANGED <<job, checkout, files, builds, git, assets, registry, cluster, counts, succeeded>>

InspectionFails(r) ==
  /\ At(r, "package") /\ ImageFound(r) /\ Fault
  /\ misread' = misread \cup {OwnCommit(r)}
  /\ Goto(r, "push")
  /\ UNCHANGED <<job, checkout, files, builds, git, assets, image, cluster, runs, succeeded>>

\* A build makes an image with a digest of its own, whatever was built before.
BuildahBuild(r)        == job[r].id
BuildahPush(r, digest) == image' = [image EXCEPT ![OwnCommit(r)] = digest]

BuildAndPush(r) ==
  /\ At(r, "push")
  /\ BuildahPush(r, BuildahBuild(r))
  /\ Goto(r, "aqua")
  /\ UNCHANGED <<job, checkout, files, builds, git, assets, misread, cluster, counts, succeeded>>

AquaScan(r) ==
  /\ At(r, "aqua")
  /\ Write(r, {ImageArtifact(BuildahBuild(r)), File("report", 0, 0)})
  /\ Proceed(r, AfterPackage(r))
  /\ UNCHANGED <<checkout, builds, git, assets, registry, cluster, counts, succeeded>>

\* The image is in the registry already when the scan ends the task.
AquaScanFails(r) ==
  /\ At(r, "aqua") /\ AquaGate /\ Fault
  /\ Fatal(r)
  /\ UNCHANGED <<checkout, files, builds, git, assets, registry, cluster, runs, succeeded>>

PackageStep(r) ==
  \/ ReuseImage(r) \/ NoImage(r) \/ InspectionFails(r)
  \/ BuildAndPush(r) \/ AquaScan(r) \/ AquaScanFails(r)
=============================================================================
