----------------------------- MODULE MCProjects ------------------------------
(* Instances of Projects for TLC. *)
EXTENDS Projects, TLC

\* The two organizations have the same limit and the same actions.
OrgSymmetry == Permutations(Orgs)
=============================================================================
