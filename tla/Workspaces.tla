------------------------------ MODULE Workspaces -----------------------------
(***************************************************************************)
(* Kestrel's workspaces: the tracker keeps one that is free, and takes     *)
(* away the others once they are empty.                                    *)
(*                                                                         *)
(* The compositor keeps the workspaces and the windows on them and tells   *)
(* the tracker of every change.  The tracker only notes that it has to     *)
(* look; it looks before the next frame, unless the person is switching.   *)
(* A workspace is the place it has among them: nothing else tells two      *)
(* apart, and an app that starts names the one it opens on by that place.  *)
(***************************************************************************)
EXTENDS Filters, FiniteSets, FiniteSetsExt

CONSTANTS
    Windows,
    Fleeting,       \* GRACE_WINDOW_TYPES: splash screens and dialogs
    Apps,           \* apps whose start names a workspace, as launchers of X11 do
    MaxWorkspaces,  \* MAX_NUM_WORKSPACES
    MaxBlocks       \* bound: switchers and animations at once

ASSUME WorkspacesAssumption ==
    /\ Fleeting \subseteq Windows
    /\ MaxWorkspaces \in Nat \ {0} /\ MaxBlocks \in Nat

VARIABLE desk

\* last is what kind of window left it within LAST_WINDOW_GRACE_TIME, if any. The timer each window
\* leaves behind forgets it only while it is still the last, so one is always to come.
Workspace == [windows : SUBSET Windows, last : {"none", "fleeting", "other"}]

Desk ==
    [workspaces : Seq(Workspace),
     active     : Nat,
     sticky     : SUBSET Windows,   \* on all workspaces
     starting   : [Apps -> Nat],    \* the startup sequence's workspace, counted from one; 0 for none
     check      : {"none", "queued", "broken"},  \* checkWorkspacesId and what became of it
     blocks     : 0..MaxBlocks,     \* blockCount
     prepended  : BOOLEAN,          \* isWorkspacePrepended
     gone       : BOOLEAN,          \* a timer is to come for a workspace that was removed
     full       : BOOLEAN]          \* history: the last look found no room after the last one in use

Fresh == [windows |-> {}, last |-> "none"]

Kind(w) == IF w \in Fleeting THEN "fleeting" ELSE "other"

Places(d) == DOMAIN d.workspaces
OnOne(d)  == UNION {d.workspaces[p].windows : p \in Places(d)}
Open(d)   == OnOne(d) \cup d.sticky

\* As if the limit were off by one.
RoomForOneMore(d) == Len(d.workspaces) <= MaxWorkspaces

Room(d) == Len(d.workspaces) < MaxWorkspaces

Queued(d) == [d EXCEPT !.check = IF @ = "none" THEN "queued" ELSE @]

\* A window opens on a workspace or comes to it.
Added(d, w, p) == Queued([d EXCEPT !.workspaces[p].windows = @ \cup {w}])

\* The workspaces it is on, without it.
Without(d, w) ==
    [p \in Places(d) |->
        IF w \in d.sticky \cup d.workspaces[p].windows
        THEN [windows |-> d.workspaces[p].windows \ {w}, last |-> Kind(w)] ELSE d.workspaces[p]]

\* As if a window that goes were noted without looking.
RemovedQuietly(d, w) == [d EXCEPT !.sticky = @ \ {w}, !.workspaces = Without(d, w)]

\* windowRemoved, on each workspace it leaves.
Removed(d, w) == Queued([d EXCEPT !.sticky = @ \ {w}, !.workspaces = Without(d, w)])

-----------------------------------------------------------------------------
(* The person and their apps. *)

\* On the active workspace, or where it was before Kestrel restarted, however many that takes.
OpenWindow(w) ==
    /\ w \notin Open(desk)
    /\ \E p \in 1..MaxWorkspaces :
          LET more == [i \in 1..(IF p > Len(desk.workspaces) THEN p - Len(desk.workspaces) ELSE 0) |-> Fresh]
          IN desk' = Added([desk EXCEPT !.workspaces = @ \o more], w, p)

CloseWindow(w) == w \in Open(desk) /\ desk' = Removed(desk, w)

MoveWindow(w, p) ==
    /\ w \in OnOne(desk) /\ w \notin desk.workspaces[p].windows
    /\ desk' = Added(Removed(desk, w), w, p)

\* To every workspace, or to another display.
Stick(w) == w \in OnOne(desk) /\ desk' = [Removed(desk, w) EXCEPT !.sticky = @ \cup {w}]

Unstick(w) == w \in desk.sticky /\ desk' = Added(Removed(desk, w), w, desk.active)

Activate(p) == p # desk.active /\ desk' = Queued([desk EXCEPT !.active = p])

\* insertWorkspace and actionMoveWindow: w comes before the first workspace, all other windows move
\* on by one. `last' is the kind of the last one that left each place.
Prepended(d, w, last) ==
    LET n == Len(d.workspaces)
        on(p) == d.workspaces[p].windows
    IN [p \in 1..(n + 1) |->
          [windows |-> IF p = 1 THEN {w} ELSE on(p - 1) \ {w},
           last    |-> IF p = 2 THEN Kind(w) ELSE IF p > n THEN "none" ELSE last[p]]]

\* The switcher then pops up, unless it was there, and until it goes there is no other such move.
MoveBeforeFirst(w) ==
    LET n == Len(desk.workspaces)
    IN /\ n > 1 /\ desk.active = 1 /\ w \in desk.workspaces[1].windows
       /\ Room(desk) /\ ~desk.prepended
       /\ \E last \in [1..n -> {"none", "fleeting", "other"}],
             blocks \in {desk.blocks, desk.blocks + 1} \cap (1..MaxBlocks) :
             /\ \A p \in 1..n :
                   last[p] \in LET on == desk.workspaces[p].windows
                               IN IF on = {} THEN {desk.workspaces[p].last} ELSE {Kind(x) : x \in on}
             /\ desk' = Queued([desk EXCEPT !.workspaces = Prepended(desk, w, last),
                                            !.prepended = TRUE, !.blocks = blocks])

Block == desk.blocks < MaxBlocks /\ desk' = [desk EXCEPT !.blocks = @ + 1]

\* It may be the switcher that goes, and with the last of them it is.
Unblock ==
    /\ desk.blocks > 0
    /\ \E stays \in {desk.blocks > 1, FALSE} :
          desk' = [desk EXCEPT !.blocks = @ - 1, !.prepended = @ /\ stays]

\* It may name the place after the last one. What it names isn't followed when workspaces are removed.
Starts(a) ==
    /\ desk.starting[a] = 0
    /\ \E p \in 1..(MaxWorkspaces + 1) : desk' = Queued([desk EXCEPT !.starting[a] = p])

Started(a) == desk.starting[a] # 0 /\ desk' = Queued([desk EXCEPT !.starting[a] = 0])

-----------------------------------------------------------------------------
(* The tracker. *)

InGrace(d, p) == d.workspaces[p].last = "fleeting"

GraceEnds(p) ==
    /\ desk.workspaces[p].last # "none"
    /\ desk' = Queued([desk EXCEPT !.workspaces[p].last = "none"])

GraceEndsForRemoved == desk.gone /\ \E more \in BOOLEAN : desk' = Queued([desk EXCEPT !.gone = more])

Awaited(d) == {d.starting[a] : a \in Apps}

Empty(d, p) == d.workspaces[p].windows = {} /\ ~InGrace(d, p) /\ p \notin Awaited(d)

\* emptyWorkspaces, once the last one is free: an app that names the place after the last one
\* makes the list one longer than the workspaces.
Flags(d) ==
    LET n == Len(d.workspaces)
    IN [p \in 1..(IF n + 1 \in Awaited(d) THEN n + 1 ELSE n) |-> p <= n /\ Empty(d, p)]

\* As if the workspace that's shown went like any other.
SurplusActiveToo(d, flags) ==
    LET emptied == {p \in DOMAIN flags : flags[p]}
    IN emptied \ {Max({0} \cup (DOMAIN flags \ emptied)) + 1}

\* The empty ones but one: the active one, or the first after the last in use.
Surplus(d, flags) ==
    LET after == Max({0} \cup {p \in DOMAIN flags : ~flags[p]}) + 1
    IN {p \in DOMAIN flags : flags[p]} \ {d.active, IF flags[d.active] THEN d.active ELSE after}

RemoveAll(d, places) ==
    [d EXCEPT !.workspaces = Picked(@, Places(d) \ places),
              !.active = @ - Cardinality({p \in places : p < @}),
              !.gone = @ \/ \E p \in places : d.workspaces[p].last # "none"]

\* checkWorkspaces. Removing a workspace that isn't there throws, and the tracker never looks again.
Check ==
    /\ desk.check = "queued" /\ desk.blocks = 0
    /\ LET first == Flags(desk)
           more  == ~first[Len(first)] /\ Room(desk)
           flags == IF more THEN Append(first, TRUE) ELSE first
           d     == IF more THEN [desk EXCEPT !.workspaces = Append(@, Fresh)] ELSE desk
           out   == IF Len(d.workspaces) = 1 THEN {} ELSE Surplus(d, flags)
       IN desk' = IF out \subseteq Places(d)
                  THEN [RemoveAll(d, out) EXCEPT !.check = "none", !.full = ~first[Len(first)] /\ ~more]
                  ELSE [d EXCEPT !.check = "broken"]

-----------------------------------------------------------------------------
\* The tracker looks once when Kestrel starts.
Init ==
    desk = [workspaces |-> <<Fresh>>, active |-> 1, sticky |-> {}, starting |-> [a \in Apps |-> 0],
            check |-> "queued", blocks |-> 0, prepended |-> FALSE, gone |-> FALSE, full |-> FALSE]

Next ==
    \/ \E w \in Windows :
          \/ OpenWindow(w) \/ CloseWindow(w) \/ Stick(w) \/ Unstick(w) \/ MoveBeforeFirst(w)
          \/ \E p \in Places(desk) : MoveWindow(w, p)
    \/ \E p \in Places(desk) : Activate(p) \/ GraceEnds(p)
    \/ \E a \in Apps : Starts(a) \/ Started(a)
    \/ GraceEndsForRemoved \/ Block \/ Unblock \/ Check

Spec == Init /\ [][Next]_desk

-----------------------------------------------------------------------------
(* Type correctness of the workspaces, and no window is in two places. *)
TypeOK ==
    /\ desk \in Desk
    /\ Len(desk.workspaces) \in 1..MaxWorkspaces /\ desk.active \in Places(desk)
    /\ \A p, q \in Places(desk) :
          /\ p # q => desk.workspaces[p].windows \cap desk.workspaces[q].windows = {}
          /\ desk.workspaces[p].windows \cap desk.sticky = {}

Quiet == Awaited(desk) \subseteq {0} /\ \A p \in Places(desk) : ~InGrace(desk, p)

EmptyPlaces == {p \in Places(desk) : Empty(desk, p)}

(* With nothing to look at, at most one workspace is free, however windows opened, closed and   *)
(* moved, apps started, and the person switched meanwhile. It is the one after the last in use, *)
(* or else the one the person is on: _checkWorkspaces keeps an empty active workspace and       *)
(* removes the empty last one. Then nothing is free after the last one in use, against "There's *)
(* always an empty workspace after the last one in use" (web/docs/src/content/docs/windows/     *)
(* workspaces.md:8): with windows on 1 and 2, closing those of 1 while on it takes 3 away. Only *)
(* when the tracker found as many as there may be and the last in use may there be none.        *)
OneFree ==
    desk.check = "none" /\ Quiet =>
       \/ EmptyPlaces = {Len(desk.workspaces)}
       \/ EmptyPlaces = {desk.active}
       \/ EmptyPlaces = {} /\ desk.full

Used(d) == Excluding(d.workspaces, {k \in Workspace : k.windows = {}})

(* Looking takes no workspace from under a window or from under the person: what was on a      *)
(* workspace stays together in the same order, and the one that's shown is the same.           *)
NothingTakenAway ==
    [][desk.check = "queued" /\ desk'.check # "queued" =>
          /\ Used(desk) = Used(desk')
          /\ desk.workspaces[desk.active] = desk'.workspaces[desk'.active]]_desk

(* "Workspaces you empty disappear" (web/docs/src/content/docs/windows/workspaces.md:8): once  *)
(* no app starts and nobody switches, there is at most one free workspace, unless the tracker  *)
(* is about to look.                                                                           *)
EmptiedDisappear == desk.check # "queued" /\ Quiet => Cardinality(EmptyPlaces) <= 1
=============================================================================
