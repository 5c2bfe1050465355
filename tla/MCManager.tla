----------------------------- MODULE MCManager -----------------------------
(* Small instances of PipelineManager for TLC.                             *)
EXTENDS PipelineManager, TLC

CONSTANTS r1, r2, r3, a, b, pa, pb

(* Two requests for two branches of repository a ...                       *)
TwoReqs == {r1, r2}
TwoRepoOf == [r \in TwoReqs |-> a]
TwoPipelineOf == (r1 :> pa) @@ (r2 :> pb)

(* ... three requests of repository a, two of them for the same branch.    *)
ThreeReqs == {r1, r2, r3}
ThreeRepoOf == [r \in ThreeReqs |-> a]
ThreePipelineOf == (r1 :> pa) @@ (r2 :> pb) @@ (r3 :> pa)

=============================================================================
