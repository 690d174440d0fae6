------------------------- MODULE MCPackagesService --------------------------
(* Two calls of any kind side by side, or three with one package to ask for. *)
EXTENDS PackagesService

CONSTANTS c1, c2, c3, p, q

MCCalls == {c1, c2, c3}
TwoCalls == {c1, c2}
MCPackages == {p, q}
OnePackage == {p}
=============================================================================
