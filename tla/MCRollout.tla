----------------------------- MODULE MCRollout -----------------------------
(* Two webhooks for two branches of one repository, during a rollout.      *)
EXTENDS ManagerRollout, TLC

CONSTANTS r1, r2, a, pa, pb

TwoReqs == {r1, r2}
TwoRepoOf == [r \in TwoReqs |-> a]
TwoPipelineOf == (r1 :> pa) @@ (r2 :> pb)

=============================================================================
