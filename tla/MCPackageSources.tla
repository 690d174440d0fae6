--------------------------- MODULE MCPackageSources ---------------------------
(* Two versions and one repository file. `app' is only in the repository, or a file; `tool' is *)
(* Fedora's and needs `lib', which both have.                                                  *)
EXTENDS PackageSources, TLC

CONSTANTS v1, v2, r

MCVersions == {v1, v2}
MCNames == {"app", "tool", "lib"}
MCRepos == {r}
MCOffers == [x \in MCRepos |-> {"app", "lib"}]
MCFedora == {"tool", "lib"}
MCNeeds == [n \in MCNames |-> IF n = "tool" THEN {"lib"} ELSE {}]
Symmetry == Permutations(MCVersions)
AllSteps == Places
=============================================================================
