---------------------------- MODULE MCPipelineRun ----------------------------
(***************************************************************************)
(* An umbrella repository that deploys, with one subrepository that builds *)
(* and packages; two commits of the latter, which nothing tells apart.     *)
(***************************************************************************)
EXTENDS PipelineRun, TLC

CONSTANTS app, sub, a1, s1, s2

MCRepos     == {app, sub}
MCCommits   == {a1, s1, s2}
MCRepoOf    == (a1 :> app) @@ (s1 :> sub) @@ (s2 :> sub)
MCTreeOf    == [c \in MCCommits |-> c]  \* each has a tree of its own
MCCheckouts == (app :> <<app, sub>>) @@ (sub :> <<sub>>)
MCTasks     == (app :> {"deploy"}) @@ (sub :> {"build", "package", "deploy"})
MCStages    == (app :> {"qa", "prod"}) @@ (sub :> {"none"})

MCSymmetry == Permutations({s1, s2})
=============================================================================
