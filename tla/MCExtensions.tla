---------------------------- MODULE MCExtensions ----------------------------
(* One extension with two versions that stores something or nothing. Which version it is makes  *)
(* no difference.                                                                               *)
EXTENDS Extensions, TLC

CONSTANTS a, v1, v2, s1

MCIds == {a}
MCVersions == {v1, v2}
MCValues == {s1}

Symmetry == Permutations(MCVersions)
=============================================================================
