---------------------------- MODULE PackagesInUse ----------------------------
(***************************************************************************)
(* What luft-packages promises whoever asks it for system packages, with   *)
(* nothing said of how: which packages are in the list, which the running  *)
(* system uses, and when the one may become the other. A package comes     *)
(* into use with all the others of a request or not at all, the list is    *)
(* only replaced by what is already in use, "done" means both, and after a *)
(* restart the system uses the list or no package at all.                  *)
(***************************************************************************)
CONSTANT Packages

VARIABLES
    list,      \* the packages asked for, which outlive a power cut
    use,       \* the packages the running system uses
    fallback,  \* what it goes back to when what's asked doesn't work
    target,    \* the packages the request under way asks for; {} without one
    phase,     \* "free", "busy", "used" (only the list is left), "failing" or "off"
    answer     \* to the last change: "none", "done" or "error"

vars == <<list, use, fallback, target, phase, answer>>

Init ==
    /\ list = {} /\ use = {} /\ fallback = {} /\ target = {}
    /\ phase = "free" /\ answer = "none"

Ask(n) ==
    /\ phase = "free"
    /\ phase' = "busy" /\ target' = n /\ answer' = "none"
    /\ UNCHANGED <<list, use, fallback>>

Refuse ==
    /\ phase = "free"
    /\ phase' = "failing" /\ answer' = "none"
    /\ UNCHANGED <<list, use, fallback, target>>

\* The packages in the list are to be used, after an update or a start without them.
Rebuild ==
    /\ phase = "free" /\ list # {}
    /\ phase' = "busy" /\ target' = list
    /\ UNCHANGED <<list, use, fallback, answer>>

Take == phase = "busy" /\ use' = target /\ UNCHANGED <<list, fallback, target, phase, answer>>

PutBack == phase = "busy" /\ use' = fallback /\ UNCHANGED <<list, fallback, target, phase, answer>>

\* What is in use is what was asked for: of a change the list is left, of a rebuild nothing.
Works ==
    /\ phase = "busy" /\ use = target /\ fallback' = target
    /\ \/ phase' = "used" /\ UNCHANGED target
       \/ phase' = "free" /\ target = list /\ target' = {}
    /\ UNCHANGED <<list, use, answer>>

\* The list is replaced by what's in use and by nothing else.
Store == phase = "used" /\ list' = target /\ UNCHANGED <<use, fallback, target, phase, answer>>

Done ==
    /\ phase = "used" /\ list = target /\ use = target
    /\ phase' = "free" /\ target' = {} /\ answer' \in {"done", "error"}
    /\ UNCHANGED <<list, use, fallback>>

\* When the way back fails as well there is something else to go back to the next time, or nothing.
GiveUp ==
    /\ phase \in {"busy", "used"}
    /\ phase' = "failing" /\ target' = {}
    /\ fallback' \in {fallback, target, {}}
    /\ UNCHANGED <<list, use, answer>>

\* Before the error is answered, an empty list's builds are removed.
Discard ==
    /\ phase = "failing" /\ list = {}
    /\ fallback' = {}
    /\ UNCHANGED <<list, use, target, phase, answer>>

Fail ==
    /\ phase = "failing"
    /\ phase' = "free" /\ answer' \in {answer, "error"}
    /\ UNCHANGED <<list, use, fallback, target>>

PowerCut ==
    /\ phase # "off"
    /\ phase' = "off" /\ use' = {} /\ fallback' = {} /\ target' = {} /\ answer' = "none"
    /\ UNCHANGED list

Start ==
    /\ phase = "off"
    /\ phase' = "free" /\ use' \in {list, {}} /\ fallback' = use'
    /\ UNCHANGED <<list, target, answer>>

Next ==
    \/ \E n \in SUBSET Packages : Ask(n)
    \/ Refuse \/ Rebuild \/ Take \/ PutBack \/ Works \/ Store \/ Done \/ GiveUp \/ Discard
    \/ Fail \/ PowerCut \/ Start

Spec == Init /\ [][Next]_vars
=============================================================================
