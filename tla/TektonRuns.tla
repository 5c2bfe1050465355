----------------------------- MODULE TektonRuns -----------------------------
(***************************************************************************)
(* The PipelineRun resources of one namespace, as the pipeline manager     *)
(* sees them through the Tekton API, and the steps Tekton and the users    *)
(* take on them.  Tekton itself is not part of the repository: the phases  *)
(* are those the manager tells apart (pending, progressing, neither).      *)
(*                                                                         *)
(* A run is created for exactly one webhook request, so it is named by it. *)
(***************************************************************************)
EXTENDS Naturals

CONSTANTS
  Reqs,    \* the webhook requests that may reach the manager
  Repos,   \* the Bitbucket repositories of the project
  RepoOf,  \* the repository of each request
  NoReq,   \* no request, no run
  Faults   \* the remote calls that may fail

ASSUME RunsAssumption ==
  /\ RepoOf \in [Reqs -> Repos]
  /\ NoReq \notin Reqs

VARIABLES
  phase,     \* the phase of the run of each request
  created,   \* its CreationTimestamp, in the API server's whole seconds
  clock      \* the latest timestamp handed out

runVars == <<phase, created, clock>>

(* "stopping" is a run that is cancelled or timed out but not yet done:    *)
(* its tasks are still being torn down.                                    *)
Phases == {"absent", "pending", "progressing", "stopping", "done"}

RunsTypeOK ==
  /\ phase \in [Reqs -> Phases]
  /\ created \in [Reqs -> Nat]
  /\ clock \in Nat

RunsInit ==
  /\ phase = [r \in Reqs |-> "absent"]
  /\ created = [r \in Reqs |-> 0]
  /\ clock = 0

(***************************************************************************)
(* What a list of the runs of a repository shows.                          *)
(***************************************************************************)
RunsOf(repo) == {r \in Reqs : RepoOf[r] = repo}

Pending(repo) == {r \in RunsOf(repo) : phase[r] = "pending"}

Progressing(repo) == {r \in RunsOf(repo) : phase[r] = "progressing"}

(* Mutant: the sort is ascending. *)
NewestPending(repo) ==
  {r \in Pending(repo) : \A s \in Pending(repo) : created[r] >= created[s]}

(* Sorted descending by timestamp, the last one is taken; runs created in  *)
(* the same second are in no particular order.                             *)
OldestPending(repo) ==
  {r \in Pending(repo) : \A s \in Pending(repo) : created[r] <= created[s]}

(***************************************************************************)
(* The effect of creating a run.  Timestamps never decrease, and two runs  *)
(* created one after the other may carry the same one.                     *)
(***************************************************************************)
CreateRunAs(r, ph) ==
  \E t \in {clock, clock + 1} :
    /\ clock' = t
    /\ created' = [created EXCEPT ![r] = t]
    /\ phase' = [phase EXCEPT ![r] = ph]

(***************************************************************************)
(* Steps of Tekton and of the users.                                       *)
(***************************************************************************)
Complete(r) ==
  /\ phase[r] \in {"progressing", "stopping"}
  /\ phase' = [phase EXCEPT ![r] = "done"]
  /\ UNCHANGED <<created, clock>>

CancelOrTimeOut(r) ==
  /\ phase[r] \in {"pending", "progressing"}
  /\ phase' = [phase EXCEPT ![r] = "stopping"]
  /\ UNCHANGED <<created, clock>>

=============================================================================
