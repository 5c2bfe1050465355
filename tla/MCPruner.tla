------------------------------ MODULE MCPruner ------------------------------
(* Small instances of Pruner for TLC.                                      *)
EXTENDS Pruner, TLC

CONSTANTS r1, r2, r3, r4, a, pa, pb, dev, qa, j1, j2

ThreeRuns == {r1, r2, r3}
ThreeRepoOf == [r \in ThreeRuns |-> a]

FourRuns == {r1, r2, r3, r4}
FourRepoOf == [r \in FourRuns |-> a]

(* The branch of pipeline pa has been mapped to another environment: its   *)
(* last run has another stage.                                             *)
MovedPipelineOf == (r1 :> pa) @@ (r2 :> pa) @@ (r3 :> pb)
MovedStageOf == (r1 :> dev) @@ (r2 :> qa) @@ (r3 :> dev)

FourPipelineOf == (r1 :> pa) @@ (r2 :> pa) @@ (r3 :> pb) @@ (r4 :> pa)
FourStageOf == (r1 :> dev) @@ (r2 :> dev) @@ (r3 :> dev) @@ (r4 :> qa)

=============================================================================
