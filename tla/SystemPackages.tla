--------------------------- MODULE SystemPackages ---------------------------
(***************************************************************************)
(* How luft-packages brings the system packages of one version of Luft     *)
(* into the running system and takes them away again: one request at a     *)
(* time from the list of packages to the activation service, with every    *)
(* step that may fail, the way back after a failure, power cuts between    *)
(* any two steps and what happens at the next start.                       *)
(*                                                                         *)
(* A build is named by the packages it was made for; {} stands for "no     *)
(* build" (and for the missing `packages' file), which is what the code    *)
(* makes of an empty list: it never builds one.                            *)
(* An entry is a path in /etc or /var, a user or a group.                  *)
(***************************************************************************)
EXTENDS Naturals, FiniteSets

CONSTANTS
    Packages,    \* the names that may be asked for
    Entries,     \* the paths, users and groups packages may declare
    Ancestors,   \* Ancestors[e]: e and the folders above it, as first_missing walks them
    Placed,      \* Placed[p]: what settling creates for p (defaults, users, groups)
    Own,         \* Own[p]: what systemd-tmpfiles or p's own daemon creates for p
    Libraries,   \* the packages that bring shared libraries
    Failing,     \* the steps that may fail
    MaxChanges,  \* bound: changes asked for in one behaviour
    MaxCuts,     \* bound: restarts and power cuts in one behaviour
    MaxFaults    \* bound: failing steps in one behaviour

ASSUME PackagesAssumption ==
    /\ Placed \in [Packages -> SUBSET Entries]
    /\ Own \in [Packages -> SUBSET Entries]
    /\ Libraries \subseteq Packages
    /\ MaxChanges \in Nat /\ MaxCuts \in Nat /\ MaxFaults \in Nat

\* The folders above an entry form a chain with an outermost member.
ASSUME PathsAssumption ==
    /\ Ancestors \in [Entries -> SUBSET Entries]
    /\ \A e \in Entries : e \in Ancestors[e]
    /\ \A e \in Entries : \A a \in Ancestors[e] : Ancestors[a] \subseteq Ancestors[e]
    /\ \A e \in Entries : \A S \in SUBSET Ancestors[e] :
          S # {} => \E a \in S : \A b \in S : a \in Ancestors[b]
    /\ \A a, b \in Entries : a \in Ancestors[b] /\ b \in Ancestors[a] => a = b

VARIABLES
    \* /var/lib/luft/system-packages
    requested,   \* the packages asked for
    build,       \* builds/DIGEST of the running version
    new,         \* builds/DIGEST.new
    previous,    \* builds/DIGEST.old
    noted,       \* footprint.json
    saved,       \* ld.so.cache.before
    \* the rest of the computer
    here,        \* the entries that exist
    made,        \* of those, what settling created
    grown,       \* of those, what systemd-tmpfiles and daemons created
    cache,       \* /etc/ld.so.cache: the system's own or the packages'
    \* the running system
    link,        \* whether /run/extensions links builds/DIGEST
    overlay,     \* the build systemd-sysext laid over /usr
    running,     \* the packages whose units run
    queued,      \* whether the rebuild unit was queued at startup
    \* the request under way
    stage, step, \* where it is
    kind,        \* "change" or "rebuild"
    current,     \* change's `current': the list when it began
    next,        \* the packages it makes the running system use
    was,         \* bring_in's `old': the build in use before
    mem,         \* the footprint in the activation service's memory
    failed,      \* whether a step of this stage failed
    outcome,     \* how the last change ended: "none", "done" or "error"
    before,      \* the units that ran when bring_in began (for the properties)
    lost,        \* entries still there whose note was deleted (for the properties)
    changes, cuts, faults

disk  == <<requested, build, new, previous>>
world == <<here, made, grown, lost>>
libs  == <<cache, saved>>
live  == <<link, overlay, running, queued>>
task  == <<kind, current, next, was, before, outcome>>
place == <<stage, step, failed>>
vars  == <<disk, noted, libs, world, live, task, place, mem, changes, cuts, faults>>

-----------------------------------------------------------------------------
(* What a build declares, notes and removes. *)

Declared(b) == UNION {Placed[p] \cup Own[p] : p \in b}
Settled(b) == UNION {Placed[p] : p \in b}
Grown(b) == UNION {Own[p] : p \in b}

\* As if note took every ancestor for missing.
FirstMissingPresent(e, there) == {a \in Ancestors[e] : Ancestors[a] \ {a} \subseteq there}

\* The outermost ancestor of e that doesn't exist, as a set of at most one entry.
FirstMissing(e, there) == {a \in Ancestors[e] \ there : Ancestors[a] \ {a} \subseteq there}

\* As if note forgot what earlier builds brought.
NoteOnly(footprint, b, there) == UNION {FirstMissing(e, there) : e \in Declared(b)}

Note(footprint, b, there) == footprint \cup UNION {FirstMissing(e, there) : e \in Declared(b)}

Declares(b, root) == \E e \in Declared(b) : root \in Ancestors[e]

\* create_dir_all makes the folders an entry is in, also of one that is only begun.
WithFolders(created, begun) ==
    {a \in Entries : \/ \E e \in created : a \in Ancestors[e]
                     \/ \E e \in begun : a \in Ancestors[e] \ {e}}

\* As if an entry that's there already were made anew.
AddedOver(created, begun) == WithFolders(created, begun)

Added(created, begun) == WithFolders(created, begun) \ here

Under(roots) == {e \in Entries : Ancestors[e] \cap roots # {}}

\* Whether some entry of `footprint' is e or a folder e is in.
Covers(footprint, e) == Ancestors[e] \cap footprint # {}

\* The build that's linked, the code's merged().
Merged == IF link THEN build ELSE {}

\* The entries that were on the computer without the packages.
Mine == here \ (made \cup grown)

-----------------------------------------------------------------------------
(* The stages of a request and the order of their steps:                   *)
(*   bring     build_into, then bring_in until swap_in is done             *)
(*   apply     makes the running system use the new build                  *)
(*   restore   undoes it; every step is tried                              *)
(*   takeaway  take_away; every step is tried                              *)
(*   finish    what change_locked and rebuild do after the answer          *)
(*   boot      luft-system-packages-settle.service                         *)

Stages == {"idle", "off", "bring", "apply", "restore", "takeaway", "finish", "boot"}

Steps == {"rest", "build", "note", "record", "aside", "place", "stop", "link", "refresh",
          "settle", "tmpfiles", "clear", "save", "after", "start", "end",
          "store", "prune", "fail", "forget"}

Follow(g, s) ==
    CASE s = "build"    -> "note"
      [] s = "note"     -> "record"
      [] s = "record"   -> IF g = "boot" THEN "settle" ELSE "aside"
      [] s = "aside"    -> "place"
      [] s = "stop"     -> "link"
      [] s = "link"     -> "refresh"
      [] s = "refresh"  -> IF g = "apply" THEN "settle" ELSE "clear"
      [] s = "settle"   -> IF g = "apply" THEN "tmpfiles" ELSE "clear"
      [] s = "tmpfiles" -> "clear"
      [] s = "clear"    -> "save"
      [] s = "save"     -> IF g = "boot" THEN "start" ELSE "after"
      [] s = "after"    -> IF g = "takeaway" THEN "end" ELSE "start"
      [] s = "start"    -> "end"
      [] OTHER          -> "end"

\* Where restore and take_away go on after a step that failed: a link that couldn't be made
\* isn't refreshed, and restore doesn't save a footprint it couldn't clear.
FollowFailure(g, s) ==
    IF s = "link" THEN "clear"
    ELSE IF s = "clear" /\ g = "restore" THEN "after"
    ELSE Follow(g, s)

Goto(g, s) == stage' = g /\ step' = s

Fault == step \in Failing /\ faults < MaxFaults /\ faults' = faults + 1

Works == step' = Follow(stage, step) /\ UNCHANGED <<stage, failed, faults>>

Fails ==
    /\ Fault
    /\ \/ stage = "bring" /\ Goto("finish", "fail") /\ UNCHANGED failed
       \/ stage = "apply" /\ Goto("restore", "stop") /\ failed' = FALSE
       \/ /\ stage \in {"restore", "takeaway"}
          /\ step' = FollowFailure(stage, step)
          /\ failed' = TRUE
          /\ UNCHANGED stage
       \/ stage = "boot" /\ step' = "end" /\ failed' = TRUE /\ UNCHANGED stage

Proceed(ok) == IF ok THEN Works ELSE Fails

\* What each stage takes out of use and what it puts in its place.
Leaving == IF stage = "restore" THEN next ELSE IF stage = "boot" THEN {} ELSE was
Arriving == IF stage = "restore" THEN was ELSE IF stage = "takeaway" THEN {} ELSE next

-----------------------------------------------------------------------------
(* Asking for a change, or for a rebuild. *)

\* Install and Remove: the names are new, or all in the list. There may be none, as when a repository
\* goes that only brought what wasn't asked for.
Begin(n) ==
    /\ stage = "idle" /\ changes < MaxChanges
    /\ n \subseteq requested \/ requested \subseteq n
    /\ changes' = changes + 1
    /\ kind' = "change" /\ current' = requested /\ next' = n /\ outcome' = "none"
    /\ failed' = FALSE
    /\ IF n = {}
       THEN /\ Goto("takeaway", "stop")
            /\ was' = Merged /\ mem' = noted
       ELSE /\ Goto("bring", "build")
            /\ UNCHANGED <<was, mem>>
    /\ UNCHANGED <<disk, noted, libs, world, live, before, cuts, faults>>

\* A name that's no package name, already in the list, or not in it.
BeginRefused ==
    /\ stage = "idle" /\ changes < MaxChanges
    /\ changes' = changes + 1
    /\ kind' = "change" /\ current' = requested /\ outcome' = "none"
    /\ Goto("finish", "fail") /\ failed' = FALSE
    /\ UNCHANGED <<disk, noted, libs, world, live, next, was, before, mem, cuts, faults>>

\* Rebuild, from the unit queued at startup or from luft-updater. Without packages it returns.
Rebuild ==
    /\ stage = "idle" /\ requested # {}
    /\ queued \/ changes < MaxChanges
    /\ queued' = FALSE
    /\ changes' = IF queued THEN changes ELSE changes + 1
    /\ kind' = "rebuild" /\ current' = requested /\ next' = requested /\ failed' = FALSE
    /\ IF build = requested THEN Goto("finish", "prune") ELSE Goto("bring", "build")
    /\ UNCHANGED <<disk, noted, libs, world, link, overlay, running, was, before, outcome, mem,
                   cuts, faults>>

-----------------------------------------------------------------------------
(* bring_in, until the new build is in place. *)

BuildInto ==
    /\ stage = "bring" /\ step = "build"
    /\ \E ok \in BOOLEAN :
          /\ Proceed(ok)
          /\ new' = IF ok THEN next ELSE {}
    /\ UNCHANGED <<requested, build, previous, noted, libs, world, live, task, mem, changes, cuts>>

\* In memory: what the build declares and isn't there yet.
NoteFootprint ==
    /\ stage \in {"bring", "boot"} /\ step = "note"
    /\ Works
    /\ was' = IF stage = "bring" THEN Merged ELSE {}
    /\ mem' = Note(noted, next, here)
    /\ before' = running
    /\ UNCHANGED <<disk, noted, libs, world, live, kind, current, next, outcome, changes, cuts>>

\* As if the footprint were only kept in memory.
RecordLater ==
    /\ stage \in {"bring", "boot"} /\ step = "record"
    /\ Works
    /\ UNCHANGED <<disk, noted, libs, world, live, task, mem, changes, cuts>>

Record ==
    /\ stage \in {"bring", "boot"} /\ step = "record"
    /\ \E ok \in BOOLEAN :
          /\ Proceed(ok)
          /\ noted' = IF ok THEN mem ELSE noted
    /\ UNCHANGED <<disk, libs, world, live, task, mem, changes, cuts>>

\* swap_in removes .old and moves the build in place to .old ...
SwapAside ==
    /\ stage = "bring" /\ step = "aside"
    /\ \E ok \in BOOLEAN :
          /\ Proceed(ok)
          /\ IF ok
             THEN previous' = build /\ build' = {}
             ELSE previous' \in {previous, {}} /\ UNCHANGED build
    /\ UNCHANGED <<requested, new, noted, libs, world, live, task, mem, changes, cuts>>

\* ... and .new to its place. Only apply's failures are undone: this one isn't.
SwapPlace ==
    /\ stage = "bring" /\ step = "place"
    /\ \/ /\ build' = new /\ new' = {}
          /\ Goto("apply", "stop") /\ failed' = FALSE
          /\ UNCHANGED faults
       \/ /\ Fails
          /\ UNCHANGED <<build, new>>
    /\ UNCHANGED <<requested, previous, noted, libs, world, live, task, mem, changes, cuts>>

-----------------------------------------------------------------------------
(* The steps apply, restore, take_away and the startup share. *)

StopLeaving ==
    /\ stage \in {"apply", "restore", "takeaway"} /\ step = "stop"
    /\ \E stopped \in SUBSET (Leaving \ Arriving) : \E ok \in BOOLEAN :
          /\ ok => stopped = Leaving \ Arriving
          /\ Proceed(ok)
          /\ running' = running \ stopped
    /\ UNCHANGED <<disk, noted, libs, world, link, overlay, queued, task, mem, changes, cuts>>

\* As if the build before weren't moved back.
RelinkInPlace ==
    \/ Works /\ link' = (was # {}) /\ UNCHANGED disk
    \/ Fails /\ UNCHANGED <<disk, link>>

\* Removes the new build, then moves the one before back and links it, or links none.
Relink ==
    \/ /\ Works
       /\ build' = previous /\ previous' = {} /\ link' = TRUE
       /\ was # {}
       /\ UNCHANGED <<requested, new>>
    \/ /\ Works
       /\ was = {}
       /\ build' = {} /\ link' = FALSE
       /\ UNCHANGED <<requested, new, previous>>
    \/ /\ Fails
       /\ \/ build' \in {build, {}} /\ UNCHANGED previous
          \/ was # {} /\ build' = previous /\ previous' = {}
       /\ UNCHANGED <<requested, new, link>>

\* apply links the build swap_in put in place; restore puts the one before back in place first;
\* take_away removes the link.
Link ==
    /\ stage \in {"apply", "restore", "takeaway"} /\ step = "link"
    /\ IF stage = "restore"
       THEN Relink
       ELSE /\ \E ok \in BOOLEAN :
                  /\ Proceed(ok)
                  /\ link' = IF ok THEN stage = "apply" ELSE link
            /\ UNCHANGED disk
    /\ UNCHANGED <<noted, libs, world, overlay, running, queued, task, mem, changes, cuts>>

\* systemd-sysext lays what's linked over /usr.
Refresh ==
    /\ stage \in {"apply", "restore", "takeaway"} /\ step = "refresh"
    /\ \E ok \in BOOLEAN :
          /\ Proceed(ok)
          /\ overlay' = IF ok THEN Merged ELSE overlay
    /\ UNCHANGED <<disk, noted, libs, world, link, running, queued, task, mem, changes, cuts>>

\* Users, groups and defaults that aren't there, one of which may fail when its folders are made,
\* then the library cache, whose own copy is kept the first time.
Settle ==
    /\ stage \in {"apply", "boot"} /\ step = "settle"
    /\ \E created \in SUBSET Settled(next), begun \in {{}} \cup {{e} : e \in Settled(next)} :
       \E ok \in BOOLEAN : \E ran \in {"none", "copied", "all"} :
          /\ ok => ran = "all"
          /\ ran # "none" => created = Settled(next) /\ begun = {}
          /\ Proceed(ok)
          /\ LET added == Added(created, begun) IN
                /\ here' = here \cup added
                /\ made' = made \cup added
          /\ IF next \cap Libraries = {} \/ ran = "none"
             THEN UNCHANGED libs
             ELSE /\ saved' = IF saved = "none" THEN cache ELSE saved
                  /\ cache' = IF ran = "all" THEN "packages" ELSE cache
    /\ UNCHANGED <<disk, noted, grown, lost, live, task, mem, changes, cuts>>

CreateTmpfiles ==
    /\ stage = "apply" /\ step = "tmpfiles"
    /\ \E created \in SUBSET Grown(next) : \E ok \in BOOLEAN :
          /\ Proceed(ok)
          /\ LET added == Added(created, {}) IN
                /\ here' = here \cup added
                /\ grown' = grown \cup added
    /\ UNCHANGED <<disk, noted, libs, made, lost, live, task, mem, changes, cuts>>

\* Footprint::clear in memory: everything noted that isn't declared any more is tried. What is
\* still there afterwards stays noted and makes the step fail.
Clear ==
    /\ stage \in {"apply", "restore", "takeaway", "boot"} /\ step = "clear"
    /\ LET leaving == {r \in mem : ~Declares(Arriving, r)} IN
       \E gone \in SUBSET (Under(leaving) \cap here) :
          LET kept == (leaving \cap here) \ gone IN
             /\ Under(gone) \cap here \subseteq gone
             /\ Proceed(kept = {})
             /\ mem' = mem \ (leaving \ kept)
             /\ here' = here \ gone
             /\ made' = made \ gone
             /\ grown' = grown \ gone
             /\ lost' = lost \ gone
    /\ UNCHANGED <<disk, noted, libs, live, task, changes, cuts>>

SaveFootprint ==
    /\ stage \in {"apply", "restore", "takeaway", "boot"} /\ step = "save"
    /\ \E ok \in BOOLEAN :
          /\ Proceed(ok)
          /\ noted' = IF ok THEN mem ELSE noted
    /\ UNCHANGED <<disk, libs, world, live, task, mem, changes, cuts>>

\* Once no package brings libraries the system's own library cache is put back.
AfterRemoval ==
    /\ stage \in {"apply", "restore", "takeaway"} /\ step = "after"
    /\ \E ok \in BOOLEAN : \E ran \in {"none", "copied", "all"} :
          /\ ok => ran = "all"
          /\ Proceed(ok)
          /\ IF Leaving \cap Libraries # {} /\ Arriving \cap Libraries = {} /\ saved # "none"
             THEN /\ cache' = IF ran = "none" THEN cache ELSE saved
                  /\ saved' = IF ran = "all" THEN "none" ELSE saved
             ELSE UNCHANGED libs
    /\ UNCHANGED <<disk, noted, world, live, task, mem, changes, cuts>>

StartArriving ==
    /\ stage \in {"apply", "restore", "boot"} /\ step = "start"
    /\ \E started \in SUBSET (Arriving \ Leaving) : \E ok \in BOOLEAN :
          /\ ok => started = Arriving \ Leaving
          /\ Proceed(ok)
          /\ running' = running \cup started
    /\ UNCHANGED <<disk, noted, libs, world, link, overlay, queued, task, mem, changes, cuts>>

-----------------------------------------------------------------------------
(* The answer, and what change_locked and rebuild do with it. *)

\* bring_in removes .old and answers.
Applied ==
    /\ stage = "apply" /\ step = "end"
    /\ \/ /\ previous' = {}
          /\ Goto("finish", IF kind = "change" THEN "store" ELSE "prune")
          /\ UNCHANGED faults
       \/ /\ Fault
          /\ Goto("finish", "fail")
          /\ UNCHANGED previous
    /\ mem' = {}
    /\ UNCHANGED <<requested, build, new, noted, libs, world, live, task, failed, changes, cuts>>

Restored ==
    /\ stage = "restore" /\ step = "end"
    /\ Goto("finish", "fail") /\ mem' = {}
    /\ UNCHANGED <<disk, noted, libs, world, live, task, failed, changes, cuts, faults>>

\* As if errors of take_away were dropped.
TakenAwayRegardless ==
    /\ stage = "takeaway" /\ step = "end"
    /\ Goto("finish", "forget") /\ mem' = {}
    /\ UNCHANGED <<disk, noted, libs, world, live, task, failed, changes, cuts, faults>>

TakenAway ==
    /\ stage = "takeaway" /\ step = "end"
    /\ Goto("finish", IF failed THEN "fail" ELSE "forget") /\ mem' = {}
    /\ UNCHANGED <<disk, noted, libs, world, live, task, failed, changes, cuts, faults>>

\* An error ends the request; a change of an empty list first forgets everything.
Failed ==
    /\ stage = "finish" /\ step = "fail"
    /\ IF kind = "change" /\ current = {}
       THEN step' = "forget" /\ failed' = TRUE /\ UNCHANGED <<stage, outcome>>
       ELSE /\ Goto("idle", "rest") /\ UNCHANGED failed
            /\ outcome' = IF kind = "change" THEN "error" ELSE outcome
    /\ UNCHANGED <<disk, noted, libs, world, live, kind, current, next, was, before, mem, changes,
                   cuts, faults>>

\* forget removes what's in the state folder in the order the folder lists it.
ForgetPackages == requested' = {} /\ UNCHANGED <<build, new, previous, noted, saved, lost>>
ForgetBuilds ==
    /\ build' \in {build, {}} /\ new' \in {new, {}} /\ previous' \in {previous, {}}
    /\ <<build, new, previous>>' # <<build, new, previous>>
    /\ UNCHANGED <<requested, noted, saved, lost>>
ForgetFootprint == noted' = {} /\ lost' = made /\ UNCHANGED <<disk, saved>>
ForgetLibraryCache == saved' = "none" /\ UNCHANGED <<disk, noted, lost>>

ForgetOne ==
    /\ stage = "finish" /\ step = "forget"
    /\ \/ requested # {} /\ ForgetPackages
       \/ ForgetBuilds
       \/ noted # {} /\ ForgetFootprint
       \/ saved # "none" /\ ForgetLibraryCache
    /\ UNCHANGED <<cache, here, made, grown, live, task, place, mem, changes, cuts, faults>>

Forgotten ==
    /\ stage = "finish" /\ step = "forget"
    /\ requested = {} /\ {} = build \cup new \cup previous /\ noted = {} /\ saved = "none"
    /\ IF failed
       THEN Goto("idle", "rest") /\ outcome' = "error"
       ELSE Goto("finish", "store") /\ UNCHANGED outcome
    /\ UNCHANGED <<disk, noted, libs, world, live, kind, current, next, was, before, failed, mem,
                   changes, cuts, faults>>

ForgetFails ==
    /\ stage = "finish" /\ step = "forget"
    /\ Fault
    /\ IF failed
       THEN Goto("idle", "rest") /\ outcome' = "error"
       ELSE Goto("finish", "fail") /\ UNCHANGED outcome
    /\ UNCHANGED <<disk, noted, libs, world, live, kind, current, next, was, before, failed, mem,
                   changes, cuts>>

\* As if the list from before the change were stored.
StoreCurrent ==
    /\ stage = "finish" /\ step = "store"
    /\ requested' = current /\ Goto("finish", "prune")
    /\ UNCHANGED <<build, new, previous, noted, libs, world, live, task, failed, mem, changes,
                   cuts, faults>>

\* save_requested. When it fails the new build stays in use.
Store ==
    /\ stage = "finish" /\ step = "store"
    /\ \/ requested' = next /\ Goto("finish", "prune") /\ UNCHANGED faults
       \/ Fault /\ Goto("finish", "fail") /\ UNCHANGED requested
    /\ UNCHANGED <<build, new, previous, noted, libs, world, live, task, failed, mem, changes, cuts>>

\* prune leaves only the builds in place.
Prune ==
    /\ stage = "finish" /\ step = "prune"
    /\ Goto("idle", "rest")
    /\ \/ /\ new' = {} /\ previous' = {} /\ UNCHANGED faults
          /\ outcome' = IF kind = "change" THEN "done" ELSE outcome
       \/ /\ Fault /\ UNCHANGED <<new, previous>>
          /\ outcome' = IF kind = "change" THEN "error" ELSE outcome
    /\ UNCHANGED <<requested, build, noted, libs, world, live, kind, current, next, was, before,
                   failed, mem, changes, cuts>>

-----------------------------------------------------------------------------
(* Power cuts and restarts. *)

PowerCut ==
    /\ stage # "off" /\ cuts < MaxCuts
    /\ cuts' = cuts + 1
    /\ Goto("off", "link") /\ failed' = FALSE
    /\ link' = FALSE /\ overlay' = {} /\ running' = {} /\ queued' = FALSE
    /\ mem' = {} /\ outcome' = "none"
    /\ UNCHANGED <<disk, noted, libs, world, kind, current, next, was, before, changes, faults>>

\* As if a version without a build were left without the packages.
QueueNothing == UNCHANGED queued

QueueRebuild == queued' = (requested # {})

\* As if any build there is were linked, whatever it was made for.
LinksAny(b) == b # {}

\* The build of this version, when it is one for the list.
Links(b) == requested # {} /\ b = requested

\* link, at startup: the version that starts is the same one or another, which has a build for
\* the list or none. Linking it, or queueing Rebuild, may fail.
BootLink ==
    /\ stage = "off"
    /\ \E b \in {build, requested, {}} :
          /\ build' = b
          /\ IF b = build THEN UNCHANGED <<new, previous>> ELSE new' = {} /\ previous' = {}
          /\ \/ /\ Links(b)
                /\ link' = TRUE /\ overlay' = b /\ next' = b /\ was' = {}
                /\ Goto("boot", "note") /\ UNCHANGED <<queued, faults>>
             \/ /\ ~Links(b) /\ QueueRebuild
                /\ Goto("idle", "rest") /\ UNCHANGED <<link, overlay, next, was, faults>>
             \/ /\ requested # {} /\ Fault
                /\ Goto("idle", "rest") /\ UNCHANGED <<link, overlay, next, was, queued>>
    /\ UNCHANGED <<requested, noted, libs, world, running, kind, current, before, outcome, failed,
                   mem, changes, cuts>>

Booted ==
    /\ stage = "boot" /\ step = "end"
    /\ Goto("idle", "rest") /\ mem' = {} /\ failed' = FALSE
    /\ UNCHANGED <<disk, noted, libs, world, live, task, changes, cuts, faults>>

-----------------------------------------------------------------------------
(* What else happens on the computer. *)

\* Someone makes a file, folder or user where the packages brought nothing.
SomeoneMakes(e) ==
    /\ stage # "off" /\ e \notin here
    /\ ~Covers(noted \cup mem, e)
    /\ here' = here \cup Ancestors[e]
    /\ UNCHANGED <<disk, noted, libs, made, grown, lost, live, task, place, mem, changes, cuts, faults>>

\* systemd-tmpfiles at startup or a daemon makes what a package in use declares.
PackageMakes(p, e) ==
    /\ stage \notin {"off", "boot"} /\ p \in overlay \cup running
    /\ e \in Own[p] \ here
    /\ here' = here \cup Ancestors[e]
    /\ grown' = grown \cup (Ancestors[e] \ here)
    /\ UNCHANGED <<disk, noted, libs, made, lost, live, task, place, mem, changes, cuts, faults>>

\* Between requests the service waits, or exits until it's asked again.
Waits == stage = "idle" /\ UNCHANGED vars

-----------------------------------------------------------------------------

Init ==
    /\ requested = {} /\ build = {} /\ new = {} /\ previous = {} /\ noted = {}
    /\ cache = "own" /\ saved = "none"
    /\ here \in {h \in SUBSET Entries : \A e \in h : Ancestors[e] \subseteq h}
    /\ made = {} /\ grown = {} /\ lost = {}
    /\ link = FALSE /\ overlay = {} /\ running = {} /\ queued = FALSE
    /\ stage = "idle" /\ step = "rest" /\ failed = FALSE
    /\ kind = "change" /\ current = {} /\ next = {} /\ was = {} /\ outcome = "none"
    /\ before = {}
    /\ mem = {}
    /\ changes = 0 /\ cuts = 0 /\ faults = 0

\* What luft-packages does by itself once it was asked.
Work ==
    \/ BuildInto \/ NoteFootprint \/ Record \/ SwapAside \/ SwapPlace
    \/ StopLeaving \/ Link \/ Refresh \/ Settle \/ CreateTmpfiles \/ Clear \/ SaveFootprint
    \/ AfterRemoval \/ StartArriving
    \/ Applied \/ Restored \/ TakenAway \/ Failed
    \/ ForgetOne \/ Forgotten \/ ForgetFails \/ Store \/ Prune
    \/ BootLink \/ Booted

Next ==
    \/ Work
    \/ \E n \in SUBSET Packages : Begin(n)
    \/ BeginRefused \/ Rebuild \/ PowerCut \/ Waits
    \/ \E e \in Entries : SomeoneMakes(e)
    \/ \E p \in Packages, e \in Entries : PackageMakes(p, e)

Spec == Init /\ [][Next]_vars

\* Every process runs on, and the unit queued at startup is started.
FairSpec == Spec /\ WF_vars(Work) /\ WF_vars(queued /\ Rebuild)

-----------------------------------------------------------------------------
(* Properties. *)

TypeOK ==
    /\ requested \subseteq Packages /\ build \subseteq Packages
    /\ new \subseteq Packages /\ previous \subseteq Packages
    /\ noted \subseteq Entries /\ mem \subseteq Entries
    /\ cache \in {"own", "packages"} /\ saved \in {"none", "own", "packages"}
    /\ here \subseteq Entries /\ made \subseteq here /\ grown \subseteq here
    /\ made \cap grown = {} /\ lost \subseteq made
    /\ link \in BOOLEAN /\ overlay \subseteq Packages /\ running \subseteq Packages
    /\ queued \in BOOLEAN
    /\ stage \in Stages /\ step \in Steps /\ failed \in BOOLEAN
    /\ kind \in {"change", "rebuild"} /\ outcome \in {"none", "done", "error"}
    /\ current \subseteq Packages /\ next \subseteq Packages /\ was \subseteq Packages
    /\ before \subseteq Packages
    /\ changes \in Nat /\ cuts \in Nat /\ faults \in Nat

\* Everything settling put on the computer stays noted in footprint.json until it is taken away,
\* whatever fails and whenever the power is cut, except for what forget() lost.
Tracked == \A e \in made \ lost : Covers(noted, e)

\* What was on the computer without the packages is never removed: footprint.clear only takes
\* away what note found missing.
OthersEntriesStay == [][Mine \subseteq here']_vars

\* A note is only lost when a change of an empty list failed and left something behind; after a
\* successful take_away there is nothing left to lose.
OnlyFailedFirstChangeLoses ==
    [][lost' \subseteq lost \/ (step = "forget" /\ failed /\ current = {})]_vars

\* When every step of restore worked, the running system uses what it used before bring_in, and
\* the units that ran, run.
PutBack ==
    stage = "restore" /\ step = "end" /\ ~failed =>
        /\ Merged = was /\ overlay = was
        /\ before = was => running = was

\* After a change that was reported done, the running system uses exactly the list.
InStep == stage = "idle" /\ outcome = "done" => Merged = requested /\ overlay = requested

\* After the last package was removed, nothing settling made is left, except for what was lost.
NothingLeft == stage = "idle" /\ outcome = "done" /\ requested = {} => made \subseteq lost /\ noted = {}

\* When nothing fails, the running system ends up with the packages in the list, however often
\* the power was cut.
Converges == [](faults = 0) => <>[](stage = "idle" /\ overlay = requested /\ running = requested)

-----------------------------------------------------------------------------
(* How a request looks to whoever asked, and that it keeps what PackagesInUse promises. *)

Phase ==
    CASE stage = "off" -> "off"
      [] stage \in {"idle", "boot"} -> "free"
      [] stage \in {"bring", "apply", "restore", "takeaway"} -> "busy"
      [] stage = "finish" /\ step = "prune" /\ kind = "rebuild" -> "free"
      [] stage = "finish" /\ (step = "fail" \/ (step = "forget" /\ failed)) -> "failing"
      [] OTHER -> "used"

Fallback ==
    IF stage \in {"apply", "restore", "takeaway"} \/ (stage = "bring" /\ step \notin {"build", "note"})
    THEN was ELSE Merged

Promise == INSTANCE PackagesInUse WITH
    list <- requested, use <- overlay, fallback <- Fallback, phase <- Phase, answer <- outcome,
    target <- IF Phase \in {"busy", "used"} THEN next ELSE {}

\* Whatever fails and whenever the power is cut, every step is one that PackagesInUse allows, or
\* nothing to whoever asked: the list is only replaced by packages that are in use, and what is
\* in use is what was asked for, what was in use before, or nothing.
KeepsPromise == Promise!Spec

-----------------------------------------------------------------------------
(* What Tracked, NothingLeft and OthersEntriesStay rest on: the inductive invariant. *)

\* A path exists only with the folders it is in.
Closed == \A e \in here : Ancestors[e] \subseteq here

\* Nothing that was there without the packages is noted, nor in a folder that is.
OthersUnnoted == \A e \in Mine : ~Covers(noted \cup mem, e)

\* The footprint in memory, which will be saved, holds what the one on disk must.
Remembering ==
    \/ stage \in {"apply", "restore", "takeaway"}
    \/ stage = "bring" /\ step \notin {"build", "note"}
    \/ stage = "boot" /\ step # "note"
MemTracked == Remembering => \A e \in made \ lost : Covers(mem, e)

\* From note to settle, what settling will create is noted already ...
BeforeSettling ==
    \/ stage = "bring" /\ step \in {"record", "aside", "place"}
    \/ stage = "apply" /\ step \in {"stop", "link", "refresh", "settle"}
    \/ stage = "boot" /\ step \in {"record", "settle"}
Planned ==
    BeforeSettling => \A e \in Settled(next) : \A a \in Ancestors[e] \ here : Covers(mem, a)

\* ... and, but for the step that saves it, on disk.
RecordedFirst == BeforeSettling /\ step # "record" => noted = mem

\* When no step of take_away failed, nothing is noted any more.
TakingAway ==
    stage = "takeaway" =>
        /\ kind = "change" /\ next = {}
        /\ ~failed /\ step \in {"save", "after", "end"} => mem = {}
        /\ ~failed /\ step \in {"after", "end"} => noted = {}

\* forget runs after that, or after a change of an empty list failed.
Forgetting ==
    stage = "finish" =>
        /\ step \in {"forget", "store"} => kind = "change"
        /\ step = "forget" /\ ~failed => noted = {} /\ next = {}
        /\ step = "forget" /\ failed => current = {}
        /\ step = "store" /\ next = {} => noted = {}
        /\ step = "prune" /\ kind = "change" /\ requested = {} => noted = {}

\* A rebuild finds packages in the list; a change has no outcome while it runs.
Asked ==
    /\ stage \notin {"idle", "off", "boot"} /\ kind = "rebuild" => requested # {}
    /\ stage \notin {"idle", "off", "boot"} /\ kind = "change" => outcome = "none"
    /\ stage \in {"off", "boot"} => outcome = "none"
    /\ stage \in {"bring", "apply", "restore", "boot"} => next # {}

NotesInv ==
    Closed /\ OthersUnnoted /\ Tracked /\ MemTracked /\ Planned /\ RecordedFirst

ControlInv == TakingAway /\ Forgetting /\ Asked /\ NothingLeft

IInv == TypeOK /\ NotesInv /\ ControlInv

-----------------------------------------------------------------------------
(* What the comments and the docs say and the code doesn't do. *)

\* footprint.rs: "those that couldn't be taken away stay noted for the next try".
NothingLost == lost = {}
=============================================================================
