---------------------------- MODULE PackageSources ----------------------------
(***************************************************************************)
(* Where luft-packages takes system packages from, and which version of    *)
(* Luft has a build of them: the list, the package files kept beside it,   *)
(* the repository files that were added, one build for each version on the *)
(* computer, versions that are staged, started and removed meanwhile.      *)
(*                                                                         *)
(* One request at a time, as PackagesService shows it while nobody deleted *)
(* the lock. The activation service either does what it is asked or puts   *)
(* back what was in use; SystemPackages has its steps.                     *)
(***************************************************************************)
EXTENDS Naturals, FiniteSets

CONSTANTS
    Versions,     \* the digests a version on the computer may have
    Names,        \* package names
    Repos,        \* repository files that may be added
    Offers,       \* Offers[r]: the packages repository r has
    Fedora,       \* the packages Fedora has
    Needs,        \* Needs[n]: what dnf brings along for n
    None,         \* no build, repository or name
    Failing,      \* the steps that may fail
    MaxAsks,      \* bound: requests in one behaviour
    MaxStages,    \* bound: versions staged in one behaviour
    MaxRestarts,  \* bound: restarts and power cuts in one behaviour
    MaxFaults     \* bound: steps that fail in one behaviour

Origins == {"fedora", "file"} \cup Repos

\* What manifest.json keeps of a build: the list it was made for and where each package in it
\* came from.
Build == [requested : SUBSET Names, from : UNION {[S -> Origins] : S \in SUBSET Names}]

ASSUME SourcesAssumption ==
    /\ Offers \in [Repos -> SUBSET Names] /\ Fedora \subseteq Names
    /\ Needs \in [Names -> SUBSET Names]
    /\ None \notin Repos \cup Names \cup Build
    /\ {"fedora", "file"} \cap Repos = {}
    /\ MaxAsks \in Nat /\ MaxStages \in Nat /\ MaxRestarts \in Nat /\ MaxFaults \in Nat

VARIABLES
    \* /var/lib/luft/system-packages
    requested,  \* the list
    files,      \* the packages whose file is kept
    repos,      \* the repository files that were added
    builds,     \* the build of each version, or None
    \* the computer
    deployed,   \* the versions on it
    booted,     \* the one that runs
    link,       \* whether the build of the running version is linked
    inUse,      \* the build systemd-sysext laid over /usr, or None
    due,        \* whether Rebuild was called and not begun: at startup, or by luft-updater
    \* the request under way
    pc, op,     \* where it is and what it is
    current, next,  \* the list before and after
    sources,    \* Sources: what its builds may come from
    leaving,    \* the repository it removes
    file,       \* the package of the file it installs
    todo,       \* the versions prepare_others has still to build for, then those prune keeps
    outcome,    \* how it ended: "none", "done" or "error"
    \* for the properties
    byFile,     \* the packages in the list that were installed from a file
    asks, stages, restarts, faulted

list    == <<requested, files, repos>>
system  == <<deployed, booted, due>>
live    == <<link, inUse>>
request == <<op, current, next, sources, leaving, file>>
counts  == <<asks, stages, restarts>>
vars    == <<list, builds, system, live, pc, request, todo, outcome, byFile, counts, faulted>>

-----------------------------------------------------------------------------
(* Sources and builds. *)

Sources == [repos |-> repos, files |-> files]

\* Where dnf may take n from in a build of the packages in `wanted'. Only what was asked for is
\* given to it as a file.
From(n, wanted, s) ==
    IF n \in wanted /\ n \in s.files
    THEN {"file"}
    ELSE (IF n \in Fedora THEN {"fedora"} ELSE {}) \cup {r \in s.repos : n \in Offers[r]}

\* The builds dnf may make of the packages in `wanted'; none when a package is nowhere.
Resolve(wanted, s) ==
    LET brought == wanted \cup UNION {Needs[n] : n \in wanted}
    IN  {[requested |-> wanted, from |-> f] :
            f \in {g \in [brought -> Origins] : \A n \in brought : g[n] \in From(n, wanted, s)}}

\* Whether everything in a build can still be taken from where it came from.
Cover(s, build) ==
    \A n \in DOMAIN build.from :
        \/ build.from[n] = "fedora"
        \/ build.from[n] \in s.repos
        \/ build.from[n] = "file" /\ n \in s.files

CurrentFor(b, v, wanted, s) ==
    b[v] # None /\ b[v].requested = wanted /\ Cover(s, b[v])

\* linked(), then load: what luft-packages takes for the build in use.
Merged == IF link THEN builds[booted] ELSE None

FromRepository(build, r) ==
    IF build = None THEN {} ELSE {n \in DOMAIN build.from : build.from[n] = r}

-----------------------------------------------------------------------------
(* Faults and the end of a request. *)

Fault ==
    /\ pc \in Failing
    /\ pc \in faulted \/ Cardinality(faulted) < MaxFaults
    /\ faulted' = faulted \cup {pc}

Well == UNCHANGED faulted

Goto(place) == pc' = place

\* change_locked's error, before and after the list is saved; rebuild has nothing to undo.
Undo == Goto(IF op = "rebuild" THEN "drop" ELSE "undo")

-----------------------------------------------------------------------------
(* Requests. *)

Begin(o, wanted) ==
    /\ op' = o /\ current' = requested /\ next' = wanted
    /\ outcome' = "none"
    /\ UNCHANGED <<requested, repos, builds, deployed, booted, live, todo, byFile, stages,
                   restarts, faulted>>

Ask == pc = "idle" /\ asks < MaxAsks /\ asks' = asks + 1

Activation(wanted) == IF wanted = {} THEN "takeaway" ELSE "activate"

Install(n) ==
    /\ Ask
    /\ Goto(IF n \in requested THEN "undo" ELSE "activate")
    /\ sources' = Sources
    /\ Begin("change", requested \cup {n})
    /\ leaving' = None /\ file' = None
    /\ UNCHANGED <<files, due>>

Remove(n) ==
    /\ Ask
    /\ Goto(IF n \notin requested THEN "undo" ELSE Activation(requested \ {n}))
    /\ sources' = Sources
    /\ Begin("change", requested \ {n})
    /\ leaving' = None /\ file' = None
    /\ UNCHANGED <<files, due>>

\* receive keeps the file first; it refuses a package that's in the list, and that's all then.
InstallFile(n) ==
    /\ Ask
    /\ n \notin requested
    /\ files' = files \cup {n}
    /\ Goto("activate")
    /\ sources' = [repos |-> repos, files |-> files']
    /\ Begin("change", requested \cup {n})
    /\ leaving' = None /\ file' = n
    /\ UNCHANGED due

\* As if the repository file went first.
RemoveRepositoryFirst(r) ==
    /\ Ask
    /\ r \in repos
    /\ repos' = repos \ {r}
    /\ sources' = [repos |-> repos', files |-> files]
    /\ LET from == FromRepository(Merged, r) IN
          /\ Goto(IF from = {} THEN "unlist" ELSE Activation(requested \ from))
          /\ op' = IF from = {} THEN "unlist" ELSE "change"
          /\ next' = requested \ from
    /\ current' = requested /\ outcome' = "none"
    /\ leaving' = r /\ file' = None
    /\ UNCHANGED <<requested, files, builds, system, live, todo, byFile, stages, restarts, faulted>>

\* What the merged build says came from it, if there is one, goes first.
RemoveRepository(r) ==
    /\ Ask
    /\ r \in repos
    /\ sources' = [repos |-> repos \ {r}, files |-> files]
    /\ LET from == FromRepository(Merged, r) IN
          /\ Goto(IF from = {} THEN "unlist" ELSE Activation(requested \ from))
          /\ Begin(IF from = {} THEN "unlist" ELSE "change", requested \ from)
    /\ leaving' = r /\ file' = None
    /\ UNCHANGED <<files, due>>

AddRepository(r) ==
    /\ Ask
    /\ r \notin repos
    /\ repos' = repos \cup {r} /\ outcome' = "none"
    /\ UNCHANGED <<requested, files, builds, system, live, pc, request, todo, byFile, stages,
                   restarts, faulted>>

\* As if rebuild were done when the running version has its build.
RebuildOnlyThis ==
    /\ pc = "idle" /\ due
    /\ due' = FALSE
    /\ Goto(IF requested = {} \/ CurrentFor(builds, booted, requested, Sources) THEN "idle" ELSE "activate")
    /\ sources' = Sources
    /\ Begin("rebuild", requested)
    /\ leaving' = None /\ file' = None
    /\ UNCHANGED <<files, asks>>

Rebuild ==
    /\ pc = "idle" /\ due
    /\ due' = FALSE
    /\ Goto(IF requested = {} THEN "idle"
            ELSE IF CurrentFor(builds, booted, requested, Sources) THEN "list" ELSE "activate")
    /\ sources' = Sources
    /\ Begin("rebuild", requested)
    /\ leaving' = None /\ file' = None
    /\ UNCHANGED <<files, asks>>

-----------------------------------------------------------------------------
(* activate, for the running version. *)

\* build_into and bring_in. When it fails, what was in use is put back; the build of this version
\* is gone when none was in use, or when swap_in stopped halfway.
Activate ==
    /\ pc = "activate"
    /\ \/ /\ \E b \in Resolve(next, sources) : builds' = [builds EXCEPT ![booted] = b]
          /\ link' = TRUE /\ inUse' = builds'[booted] /\ Well
          /\ Goto(IF op = "rebuild" THEN "list" ELSE "save")
       \/ /\ Fault
          /\ builds' \in {builds, [builds EXCEPT ![booted] = None]}
          /\ Undo /\ UNCHANGED live
       \/ /\ Resolve(next, sources) = {}
          /\ Undo /\ Well /\ UNCHANGED <<builds, live>>
    /\ UNCHANGED <<list, system, request, todo, outcome, byFile, counts>>

\* take_away tries every step.
TakeAway ==
    /\ pc = "takeaway"
    /\ \/ link' = FALSE /\ inUse' = None /\ Goto("forget") /\ Well
       \/ /\ Fault /\ Undo
          /\ \/ UNCHANGED live
             \/ link' = FALSE /\ inUse' \in {inUse, None}
    /\ UNCHANGED <<list, builds, system, request, todo, outcome, byFile, counts>>

NoBuilds == [v \in Versions |-> None]

\* Everything in the state folder, or some of it when that fails.
Empty(all) ==
    /\ requested' \in {requested, {}} /\ files' \in {files, {}} /\ repos' \in {repos, {}}
    /\ builds' \in {builds, NoBuilds}
    /\ all => requested' = {} /\ files' = {} /\ repos' = {} /\ builds' = NoBuilds
    /\ byFile' = byFile \cap requested'

Forget ==
    /\ pc = "forget"
    /\ \/ Empty(TRUE) /\ Goto("save") /\ Well
       \/ Empty(FALSE) /\ Fault /\ Undo
    /\ UNCHANGED <<system, live, request, todo, outcome, counts>>

-----------------------------------------------------------------------------
(* The rest of change_locked and rebuild. *)

\* As if the list from before the change were stored.
SaveCurrent ==
    /\ pc = "save"
    /\ requested' = current /\ byFile' = byFile \cap current /\ Goto("discard") /\ Well
    /\ UNCHANGED <<files, repos, builds, system, live, request, todo, outcome, counts>>

Save ==
    /\ pc = "save"
    /\ \/ /\ requested' = next /\ Goto("discard") /\ Well
          /\ byFile' = (byFile \cap next) \cup ({file} \ {None})
       \/ Fault /\ Undo /\ UNCHANGED <<requested, byFile>>
    /\ UNCHANGED <<files, repos, builds, system, live, request, todo, outcome, counts>>

\* As if the files of what stays were the ones that go.
DiscardKept ==
    /\ pc = "discard"
    /\ files' = files \ (current \cap next) /\ Goto("list") /\ Well
    /\ UNCHANGED <<requested, repos, builds, system, live, request, todo, outcome, byFile, counts>>

\* The files of what was removed go.
Discard ==
    /\ pc = "discard"
    /\ \/ files' = files \ (current \ next) /\ Goto("list") /\ Well
       \/ Fault /\ Goto("drop") /\ files' \in {files, files \ (current \ next)}
    /\ UNCHANGED <<requested, repos, builds, system, live, request, todo, outcome, byFile, counts>>

\* prepare_others: the versions that are on the computer now, and have no build for the list.
List ==
    /\ pc = "list"
    /\ todo' = IF next = {} THEN {}
               ELSE {v \in deployed \ {booted} : ~CurrentFor(builds, v, next, sources)}
    /\ Goto("others")
    /\ UNCHANGED <<list, builds, system, live, request, outcome, byFile, counts, faulted>>

\* What fails for one version is only logged. swap_in may fail when the build before is aside, and
\* prune removes that one.
PrepareOne(v) ==
    /\ pc = "others" /\ v \in todo
    /\ todo' = todo \ {v}
    /\ \/ /\ \E b \in Resolve(next, sources) : builds' = [builds EXCEPT ![v] = b]
          /\ Well
       \/ /\ Fault
          /\ builds' \in {builds, [builds EXCEPT ![v] = None]}
       \/ /\ Resolve(next, sources) = {} \/ v \notin deployed
          /\ Well /\ UNCHANGED builds
    /\ UNCHANGED <<list, system, live, pc, request, outcome, byFile, counts>>

\* prune lists the versions on the computer ...
Keep ==
    /\ pc = "others" /\ todo = {}
    /\ \/ todo' = deployed /\ Goto("prune") /\ Well
       \/ Fault /\ UNCHANGED todo /\ Goto("drop")
    /\ UNCHANGED <<list, builds, system, live, request, outcome, byFile, counts>>

\* ... and removes the builds of all others.
Prune ==
    /\ pc = "prune"
    /\ todo' = {}
    /\ \/ /\ builds' = [v \in Versions |-> IF v \in todo THEN builds[v] ELSE None]
          /\ Well
          /\ IF leaving # None
             THEN Goto("unlist") /\ UNCHANGED outcome
             ELSE Goto("idle") /\ outcome' = "done"
       \/ /\ Fault
          /\ \E gone \in SUBSET (Versions \ todo) :
                builds' = [v \in Versions |-> IF v \in gone THEN None ELSE builds[v]]
          /\ Goto("drop") /\ UNCHANGED outcome
    /\ UNCHANGED <<list, system, live, request, byFile, counts>>

\* repositories::forget, once nothing uses it any more.
Unlist ==
    /\ pc = "unlist"
    /\ Goto("idle")
    /\ \/ repos' = repos \ {leaving} /\ Well
          /\ outcome' = IF op = "unlist" THEN outcome ELSE "done"
       \/ Fault /\ outcome' = "error" /\ UNCHANGED repos
    /\ UNCHANGED <<requested, files, builds, system, live, request, todo, byFile, counts>>

\* A change of an empty list that fails forgets everything.
UndoChange ==
    /\ pc = "undo"
    /\ Goto("drop")
    /\ \/ /\ IF current = {} THEN Empty(TRUE) ELSE UNCHANGED <<list, builds, byFile>>
          /\ Well
       \/ current = {} /\ Empty(FALSE) /\ Fault
    /\ UNCHANGED <<system, live, request, todo, outcome, counts>>

\* As if the file stayed when the change returned an error.
DropNothing ==
    /\ pc = "drop"
    /\ Goto("idle") /\ outcome' = "error" /\ todo' = {} /\ Well
    /\ UNCHANGED <<list, builds, system, live, request, byFile, counts>>

\* install_file discards the file when the change returned an error.
Drop ==
    /\ pc = "drop"
    /\ \/ files' = files \ {file} /\ Well
       \/ file # None /\ Fault /\ UNCHANGED files
    /\ Goto("idle") /\ outcome' = "error" /\ todo' = {}
    /\ UNCHANGED <<requested, repos, builds, system, live, request, byFile, counts>>

-----------------------------------------------------------------------------
(* Versions. *)

\* As if the running version might leave for it.
StageReplacing(v) ==
    /\ stages < MaxStages /\ stages' = stages + 1
    /\ v # booted
    /\ \E staying \in SUBSET deployed : deployed' = staying \cup {v}
    /\ due' = TRUE
    /\ UNCHANGED <<list, builds, booted, live, pc, request, todo, outcome, byFile, asks, restarts,
                   faulted>>

\* luft-updater stages another version, for which an older one may leave, and calls Rebuild.
Stage(v) ==
    /\ stages < MaxStages /\ stages' = stages + 1
    /\ v # booted
    /\ \E staying \in SUBSET deployed : deployed' = staying \cup {booted, v}
    /\ due' = TRUE
    /\ UNCHANGED <<list, builds, booted, live, pc, request, todo, outcome, byFile, asks, restarts,
                   faulted>>

Swapping == IF pc = "activate" THEN {booted} ELSE IF pc = "others" THEN todo ELSE {}

\* As if the link were made for any build of the list.
RestartUncovered(v) ==
    /\ restarts < MaxRestarts /\ restarts' = restarts + 1
    /\ v \in deployed /\ booted' = v
    /\ link' = (builds[v] # None /\ builds[v].requested = requested)
    /\ inUse' = IF link' THEN builds[v] ELSE None
    /\ due' = (requested # {} /\ ~link')
    /\ Goto("idle") /\ outcome' = "none" /\ todo' = {}
    /\ UNCHANGED <<list, builds, byFile, deployed, request, asks, stages, faulted>>

\* A restart or a power cut, to the same version or another one, and the link made before
\* systemd-sysext merges. swap_in and forget may have stopped halfway.
Restart(v) ==
    /\ restarts < MaxRestarts /\ restarts' = restarts + 1
    /\ v \in deployed /\ booted' = v
    /\ IF pc = "forget" \/ (pc = "undo" /\ current = {})
       THEN Empty(FALSE)
       ELSE /\ builds' \in {builds} \cup {[builds EXCEPT ![w] = None] : w \in Swapping}
            /\ UNCHANGED <<list, byFile>>
    /\ link' = (requested' # {} /\ CurrentFor(builds', v, requested', Sources'))
    /\ inUse' = IF link' THEN builds'[v] ELSE None
    /\ due' = (requested' # {} /\ ~link')
    /\ Goto("idle") /\ outcome' = "none" /\ todo' = {}
    /\ UNCHANGED <<deployed, request, asks, stages, faulted>>

-----------------------------------------------------------------------------

Init ==
    /\ requested = {} /\ files = {} /\ repos = {} /\ builds = NoBuilds
    /\ booted \in Versions /\ deployed = {booted} /\ link = FALSE /\ inUse = None /\ due = FALSE
    /\ pc = "idle" /\ op = "change" /\ current = {} /\ next = {} /\ sources = Sources
    /\ leaving = None /\ file = None /\ todo = {} /\ outcome = "none" /\ byFile = {}
    /\ asks = 0 /\ stages = 0 /\ restarts = 0 /\ faulted = {}

Work ==
    \/ Activate \/ TakeAway \/ Forget \/ Save \/ Discard \/ List
    \/ \E v \in Versions : PrepareOne(v)
    \/ Keep \/ Prune \/ Unlist \/ UndoChange \/ Drop

\* Between requests the service waits, or exits until it's asked again.
Waits == pc = "idle" /\ UNCHANGED vars

Next ==
    \/ Work \/ Rebuild \/ Waits
    \/ \E n \in Names : Install(n) \/ Remove(n) \/ InstallFile(n)
    \/ \E r \in Repos : AddRepository(r) \/ RemoveRepository(r)
    \/ \E v \in Versions : Stage(v) \/ Restart(v)

Spec == Init /\ [][Next]_vars

\* A build ends, and the rebuild that was asked for is begun.
FairSpec == Spec /\ WF_vars(Work) /\ WF_vars(Rebuild)

-----------------------------------------------------------------------------
(* Properties. *)

Places == {"idle", "activate", "takeaway", "forget", "save", "discard", "list", "others", "prune",
           "unlist", "undo", "drop"}

TypeOK ==
    /\ requested \subseteq Names /\ files \subseteq Names /\ repos \subseteq Repos
    /\ builds \in [Versions -> Build \cup {None}]
    /\ deployed \subseteq Versions /\ booted \in deployed
    /\ link \in BOOLEAN /\ inUse \in Build \cup {None} /\ due \in BOOLEAN
    /\ pc \in Places /\ op \in {"change", "rebuild", "unlist"}
    /\ current \subseteq Names /\ next \subseteq Names
    /\ sources \in [repos : SUBSET Repos, files : SUBSET Names]
    /\ leaving \in Repos \cup {None} /\ file \in Names \cup {None}
    /\ todo \subseteq Versions /\ outcome \in {"none", "done", "error"}
    /\ byFile \subseteq requested
    /\ asks \in Nat /\ stages \in Nat /\ restarts \in Nat /\ faulted \subseteq Places

\* The steps whose failure makes a change return an error after its list was saved.
SavedThenFails == {"discard", "others", "prune"}

HasSources == \A x \in Repos \ repos : FromRepository(inUse, x) = {}

\* Whatever fails on the way and whichever version is started, the running system doesn't come to
\* use a package from a repository that isn't there: its build goes before the repository does,
\* and a version that starts only gets linked what its sources still cover. Two errors break it:
\* a first list that couldn't be saved forgets everything while its build is in use, and a
\* repository is removed while a build is merged that isn't linked, or was forgotten.
InUseHasSources ==
    [][HasSources /\ ~HasSources' => (pc = "undo" /\ current = {}) \/ (pc = "unlist" /\ Merged = None)]_vars

Ready(v) == CurrentFor(builds, v, requested, Sources)

\* When a change or a rebuild was reported done, there is a build of the list for the running
\* version that can be made again from what is on the computer; after a change it is in use.
DoneIsCurrent ==
    pc = "idle" /\ outcome = "done" =>
        \/ requested = {} /\ inUse = None /\ op = "change"
        \/ requested # {} /\ Ready(booted) /\ (op = "change" => link /\ inUse = builds[booted])

\* The file of a package that stays in the list, "kept so every version builds it again"
\* (src/services/packages/src/changes/third_party.rs:12), is only deleted with everything else, or
\* by an InstallFile that returns an error although it saved the list, as it does when a later
\* step failed. An undone change of any kind leaves the files of the list alone.
FilesStay ==
    [][ \/ (byFile \cap requested' \cap files) \subseteq files'
        \/ pc = "drop" /\ ~(requested \subseteq current) /\ faulted \cap SavedThenFails # {}
        \/ pc = "forget" ]_vars

\* Without a power cut or a file that couldn't be removed, no file is kept for a package that
\* isn't in the list: dnf would be given it when that package is asked for later.
NoStrayFiles ==
    pc = "idle" /\ restarts = 0 /\ faulted \cap {"discard", "drop", "forget", "undo"} = {} => files \subseteq requested

\* When nothing fails, the computer isn't restarted and no repository is removed, every version
\* on it ends up with a build of the list from sources that are there, also one that was staged
\* while a request was under way. After the removal of a repository the running version's build had
\* nothing from, nothing is built.
EveryVersionReady ==
    [](restarts = 0 /\ faulted = {} /\ op # "unlist")
        => <>[](requested # {} => \A v \in deployed : Ready(v))

Found == requested # {} => Resolve(requested, Sources) # {}

\* When nothing fails and the packages in the list can be found, the running version ends up with
\* a current build, whichever one was started and whenever. It's in use from then on, or, when a
\* repository was added again after the start, from the next one.
RunningVersionReady ==
    [](Found /\ faulted = {}) =>
        <>[](pc = "idle" /\ ~due /\ (requested # {} => Ready(booted) /\ inUse \in {None, builds[booted]}))

-----------------------------------------------------------------------------
(* What the safety properties rest on. *)

\* A build that's linked and there is the one in use.
LinkedIsInUse == link /\ builds[booted] # None => inUse = builds[booted]

\* dnf is only given the files of what was asked for.
FilesWereAsked ==
    \A v \in Versions : builds[v] # None =>
        \A n \in DOMAIN builds[v].from : builds[v].from[n] = "file" => n \in builds[v].requested

\* What stays true from the start of a request to its end.
Begun ==
    /\ pc # "idle" => outcome = "none"
    /\ file # None => op = "change" /\ file \in next
    /\ op = "rebuild" => leaving = None
    /\ op = "unlist" => pc \in {"unlist", "idle"}
    /\ pc = "unlist" => leaving \in Repos
    /\ pc \in {"takeaway", "forget", "save", "discard", "undo"} => op = "change"

\* The list while it is changed ...
Listed ==
    /\ pc = "activate" => next # {} /\ requested = current /\ (op = "rebuild" => requested = next)
    /\ pc \in {"takeaway", "forget"} => next = {}
    /\ pc \in {"takeaway", "forget", "save", "undo"} => requested \subseteq current
    /\ pc \in {"discard", "list", "others", "prune", "unlist"} /\ op # "unlist" => requested = next

\* ... and what its builds may come from.
SourcesThere ==
    pc = "activate" => sources.repos \subseteq repos \ {leaving} /\ next \cap sources.files \subseteq files

\* prepare_others leaves the running version alone, and prune keeps its build.
Others ==
    /\ pc = "others" => booted \notin todo
    /\ pc = "prune" => booted \in todo

\* Where the running version is done with, and what is left are the other versions.
Acted == {"save", "discard", "list", "others", "prune", "unlist"}

\* From there to the end, its build is the one for the new list, without what leaves ...
BuildIsCurrent ==
    pc \in Acted /\ op # "unlist" /\ next # {} =>
        /\ builds[booted] # None /\ builds[booted].requested = next
        /\ Cover([repos |-> repos \ {leaving}, files |-> files], builds[booted])
        /\ op = "change" => link /\ inUse = builds[booted]

\* ... or none is in use.
NoneInUse ==
    pc = "forget" \/ (pc \in Acted /\ op # "unlist" /\ next = {}) => inUse = None /\ op = "change"

UnlistsUnused == pc = "unlist" /\ op = "unlist" => FromRepository(Merged, leaving) = {}

\* The files of a request that goes well, or whose failures didn't concern them.
Unspoilt == restarts = 0 /\ faulted \cap {"discard", "drop", "forget", "undo"} = {}
Filed ==
    Unspoilt =>
        /\ pc = "idle" => files \subseteq requested
        /\ pc \in {"activate", "takeaway", "forget", "save", "undo", "drop"}
              => files \subseteq requested \cup {file}
        /\ pc = "discard" => files \subseteq next \cup (current \ next)
        /\ pc \in {"list", "others", "prune", "unlist"} => files \subseteq requested

\* What install_file may drop: the file of a package that isn't listed, or is since a later step failed.
Dropped ==
    /\ file # None => file \notin current
    /\ pc = "drop" => requested \subseteq current \/ faulted \cap SavedThenFails # {}

SourcesInv ==
    /\ TypeOK /\ LinkedIsInUse /\ FilesWereAsked /\ Begun /\ Listed /\ SourcesThere /\ Others
    /\ BuildIsCurrent /\ NoneInUse /\ UnlistsUnused /\ Filed /\ Dropped /\ DoneIsCurrent
=============================================================================
