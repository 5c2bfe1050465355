------------------------------ MODULE RunQueue ------------------------------
(***************************************************************************)
(* What the pipeline manager promises about the runs of a repository, with *)
(* every decision taken atomically: a run is submitted pending or, if none *)
(* is pending or progressing, progressing; the oldest pending run may be   *)
(* started when none is progressing.                                       *)
(***************************************************************************)
EXTENDS TektonRuns

Submit(r) ==
  /\ phase[r] = "absent"
  /\ \/ CreateRunAs(r, "pending")
     \/ /\ Pending(RepoOf[r]) = {}
        /\ Progressing(RepoOf[r]) = {}
        /\ CreateRunAs(r, "progressing")

Start(r) ==
  /\ r \in OldestPending(RepoOf[r])
  /\ Progressing(RepoOf[r]) = {}
  /\ phase' = [phase EXCEPT ![r] = "progressing"]
  /\ UNCHANGED <<created, clock>>

Next == \E r \in Reqs : Submit(r) \/ Start(r) \/ Complete(r) \/ CancelOrTimeOut(r)

Spec == RunsInit /\ [][Next]_runVars

=============================================================================
