-------------------------- MODULE MCSystemPackages --------------------------
(* Two packages that share a folder: `a' has a file in it; `b' has another, names the folder *)
(* in its tmpfiles.d and brings libraries.                                                   *)
EXTENDS SystemPackages

MCPackages == {"a", "b"}
MCEntries == {"dir", "dir/a", "dir/b"}
MCAncestors == [e \in MCEntries |-> {"dir", e}]
MCPlaced == [a |-> {"dir/a"}, b |-> {"dir/b"}]
MCOwn == [a |-> {}, b |-> {"dir"}]
MCLibraries == {"b"}
AllSteps == Steps
=============================================================================
