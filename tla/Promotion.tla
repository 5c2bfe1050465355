------------------------------ MODULE Promotion ------------------------------
(***************************************************************************)
(* What a project may rely on: the commits of subrepositories that an      *)
(* umbrella's release brings into an environment have each passed a        *)
(* pipeline run of their own before.                                       *)
(***************************************************************************)
CONSTANTS Repos, Commits, Environments
VARIABLES green,   \* commits that passed a run
          live     \* [r][s]: subrepository commits in r's release of environment s

Init == green = {} /\ live = [r \in Repos |-> [s \in Environments |-> {}]]

Certify(c) == green' = green \cup {c} /\ UNCHANGED live

Ship(r, s) ==
  /\ \E C \in SUBSET green : live' = [live EXCEPT ![r][s] = C]
  /\ UNCHANGED green

Next == \/ \E c \in Commits : Certify(c)
        \/ \E r \in Repos, s \in Environments : Ship(r, s)

Spec == Init /\ [][Next]_<<green, live>>
=============================================================================
