--------------------------- MODULE MCVersionTags ---------------------------
(* Small instances of VersionTags for TLC.                                 *)
EXTENDS VersionTags, TLC

CONSTANTS umbrella, component, top, sub, v1, v10, c1, c2

(* An umbrella repository with a subrepository that has its own pipeline.  *)
BothPipelines == {umbrella, component}
BothOrder == (umbrella :> <<top, sub>>) @@ (component :> <<sub>>)

ComponentOrder == component :> <<sub>>

(* The filter v1.0.1 lists the tags of v1.0.1 only ...                     *)
OwnMatches == v1 :> {v1}
(* ... or those of v1.0.10 as well, of which it is a prefix.               *)
PrefixMatches == (v1 :> {v1, v10}) @@ (v10 :> {v10})

CommitSymmetry == Permutations(Commits)

=============================================================================
