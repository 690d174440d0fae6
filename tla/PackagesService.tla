--------------------------- MODULE PackagesService --------------------------
(***************************************************************************)
(* com.lantharos.Packages1: requests that arrive side by side, the busy    *)
(* flag, the lock file, the idle exit, and the instances of the activation *)
(* service, which run on when luft-packages itself stops.                  *)
(*                                                                         *)
(* A list of packages is a set of names. What activation does in detail is *)
(* in SystemPackages; here it either does what it was asked or fails.      *)
(***************************************************************************)
EXTENDS Naturals, FiniteSets

CONSTANTS
    Calls,       \* the calls made, each of them once
    Packages,    \* the names that may be asked for
    MaxCrashes,  \* bound: how often luft-packages is killed in one behaviour
    None         \* no name

ASSUME ServiceAssumption == IsFiniteSet(Calls) /\ MaxCrashes \in Nat /\ None \notin Packages

VARIABLES
    \* files
    requested,   \* the list
    built,       \* the list the running version's build was made for
    lockFile,    \* the inode of the lock file, 0 when there is none
    inodes,      \* how many lock files were made
    \* the running system
    inUse,       \* the list of the build in use
    jobs,        \* the calls an activation instance works for
    \* luft-packages
    busy,        \* Packages::busy
    active,      \* Idle::active
    crashes,
    \* the calls
    kind,        \* what each call asks for
    name,        \* the package it names
    pc,          \* where it is
    opened,      \* the lock file it opened
    read,        \* the list it read once it had the lock
    answer       \* what its caller got

files   == <<requested, built>>
locks   == <<lockFile, inodes>>
process == <<busy, active, crashes>>
asked   == <<kind, name>>
vars    == <<files, locks, inUse, jobs, process, asked, pc, opened, read, answer>>

Kinds == {"install", "remove", "rebuild", "add"}

\* Calls that go through Packages::change. InstallFile and RemoveRepository are an install and a
\* remove here.
Changes == {"install", "remove"}

\* Where a call is while it has the lock.
Holding == {"read", "activate", "acting", "forget", "undo", "save", "rest"}
Held == {"check", "open", "waiting", "release"} \cup Holding
Places == {"unasked", "authorizing", "answered"} \cup Held

At(c, place) == pc[c] = place
Go(c, place) == pc' = [pc EXCEPT ![c] = place]

\* The list once c is done.
Wanted(c) ==
    CASE kind[c] = "install" -> read[c] \cup {name[c]}
      [] kind[c] = "remove"  -> read[c] \ {name[c]}
      [] OTHER               -> read[c]

-----------------------------------------------------------------------------
(* The async half, on the runtime's only thread. *)

\* Install, Remove and AddRepository ask polkit first; only then the service counts as active.
Ask(c) ==
    /\ At(c, "unasked")
    /\ \E k \in Kinds \ {"rebuild"} : \E p \in IF k = "add" THEN {None} ELSE Packages :
          kind' = [kind EXCEPT ![c] = k] /\ name' = [name EXCEPT ![c] = p]
    /\ Go(c, "authorizing")
    /\ UNCHANGED <<files, locks, inUse, jobs, process, opened, read, answer>>

\* As if only changes kept the service from exiting.
AskRebuildUncounted(c) ==
    /\ At(c, "unasked")
    /\ kind' = [kind EXCEPT ![c] = "rebuild"] /\ UNCHANGED name
    /\ Go(c, "check")
    /\ UNCHANGED <<files, locks, inUse, jobs, process, opened, read, answer>>

AskRebuild(c) ==
    /\ At(c, "unasked")
    /\ kind' = [kind EXCEPT ![c] = "rebuild"] /\ UNCHANGED name
    /\ active' = active + 1
    /\ Go(c, "check")
    /\ UNCHANGED <<files, locks, inUse, jobs, busy, crashes, opened, read, answer>>

Answer(c, a) == answer' = [answer EXCEPT ![c] = a] /\ Go(c, "answered")

Refuse(c) ==
    /\ At(c, "authorizing")
    /\ \/ Answer(c, "denied")
       \/ kind[c] \in Changes /\ busy /\ Answer(c, "busy")
    /\ UNCHANGED <<files, locks, inUse, jobs, process, asked, opened, read>>

\* As if a second change weren't refused.
AuthorizedAnyway(c) ==
    /\ At(c, "authorizing")
    /\ busy' = (busy \/ kind[c] \in Changes)
    /\ active' = active + 1
    /\ Go(c, "open")
    /\ UNCHANGED <<files, locks, inUse, jobs, crashes, asked, opened, read, answer>>

Authorized(c) ==
    /\ At(c, "authorizing")
    /\ kind[c] \in Changes => ~busy
    /\ busy' = (busy \/ kind[c] \in Changes)
    /\ active' = active + 1
    /\ Go(c, "open")
    /\ UNCHANGED <<files, locks, inUse, jobs, crashes, asked, opened, read, answer>>

\* The blocking half has returned and let go of the lock.
Finish(c) ==
    /\ At(c, "release")
    /\ busy' = (busy /\ kind[c] \notin Changes)
    /\ active' = active - 1
    /\ Go(c, "answered")
    /\ UNCHANGED <<files, locks, inUse, jobs, crashes, asked, opened, read, answer>>

\* The process is gone, and the kernel lets go of its locks.
Stop ==
    LET cut == {c \in Calls : pc[c] \in Held \cup {"authorizing"}} IN
       /\ pc' = [c \in Calls |-> IF c \in cut THEN "answered" ELSE pc[c]]
       /\ answer' = [c \in Calls |-> IF c \in cut THEN "lost" ELSE answer[c]]
       /\ busy' = FALSE /\ active' = 0
       /\ UNCHANGED <<files, locks, inUse, jobs, asked, opened, read>>

\* A minute without calls that count. A call that still waits for polkit is cut off.
IdleExit == active = 0 /\ Stop /\ UNCHANGED crashes

Crash == crashes < MaxCrashes /\ crashes' = crashes + 1 /\ Stop

-----------------------------------------------------------------------------
(* The blocking half, on a thread of its own. *)

\* rebuild looks at the list before it takes the lock.
Check(c) ==
    /\ At(c, "check")
    /\ IF requested = {}
       THEN Go(c, "release") /\ answer' = [answer EXCEPT ![c] = "done"]
       ELSE Go(c, "open") /\ UNCHANGED answer
    /\ UNCHANGED <<files, locks, inUse, jobs, process, asked, opened, read>>

\* Lock::take creates the file if there is none ...
Open(c) ==
    /\ At(c, "open")
    /\ \/ /\ IF lockFile = 0
             THEN lockFile' = inodes + 1 /\ inodes' = inodes + 1
             ELSE UNCHANGED locks
          /\ opened' = [opened EXCEPT ![c] = lockFile']
          /\ Go(c, "waiting") /\ UNCHANGED answer
       \/ /\ Go(c, "release") /\ answer' = [answer EXCEPT ![c] = "error"]
          /\ UNCHANGED <<locks, opened>>
    /\ UNCHANGED <<files, inUse, jobs, process, asked, read>>

\* As if the lock weren't waited for.
TakeAtOnce(c) ==
    /\ At(c, "waiting")
    /\ Go(c, "read")
    /\ UNCHANGED <<files, locks, inUse, jobs, process, asked, opened, read, answer>>

\* ... and waits until nobody else has locked that file.
Take(c) ==
    /\ At(c, "waiting")
    /\ \A d \in Calls : pc[d] \in Holding => opened[d] # opened[c]
    /\ Go(c, "read")
    /\ UNCHANGED <<files, locks, inUse, jobs, process, asked, opened, read, answer>>

\* What c read says whether there is something to do.
Refused(c, list) ==
    \/ kind[c] = "install" /\ name[c] \in list
    \/ kind[c] = "remove" /\ name[c] \notin list

Read(c) ==
    /\ At(c, "read")
    /\ read' = [read EXCEPT ![c] = requested]
    /\ Go(c, IF kind[c] = "add" \/ (kind[c] = "rebuild" /\ built = requested /\ requested # {})
             THEN "rest"
             ELSE IF Refused(c, requested) THEN "undo" ELSE "activate")
    /\ UNCHANGED <<files, locks, inUse, jobs, process, asked, opened, answer>>

\* activate: builds, which may fail, and asks the activation service, which starts an instance.
Activate(c) ==
    /\ At(c, "activate")
    /\ \/ jobs' = jobs \cup {c} /\ Go(c, "acting")
       \/ Go(c, "undo") /\ UNCHANGED jobs
    /\ UNCHANGED <<files, locks, inUse, process, asked, opened, read, answer>>

\* As if a connection that ends without a word weren't an answer.
JobEndsSilently(c) ==
    /\ c \in jobs
    /\ jobs' = jobs \ {c}
    /\ UNCHANGED <<files, locks, inUse, process, asked, pc, opened, read, answer>>

\* The instance ends, whether or not the call that asked for it is still there.
JobEnds(c) ==
    /\ c \in jobs
    /\ jobs' = jobs \ {c}
    /\ \/ /\ inUse' = Wanted(c)
          /\ built' = IF Wanted(c) = {} THEN built ELSE Wanted(c)
          /\ Go(c, IF ~At(c, "acting") THEN pc[c] ELSE IF Wanted(c) = {} THEN "forget" ELSE "save")
       \/ Go(c, IF At(c, "acting") THEN "undo" ELSE pc[c]) /\ UNCHANGED <<inUse, built>>
    /\ UNCHANGED <<requested, locks, process, asked, opened, read, answer>>

\* forget removes everything in the state folder, the lock file with it.
Empty == requested' = {} /\ built' = {} /\ lockFile' = 0 /\ UNCHANGED inodes

Forget(c) ==
    /\ At(c, "forget")
    /\ Empty
    /\ Go(c, IF kind[c] = "rebuild" THEN "rest" ELSE "save")
    /\ UNCHANGED <<inUse, jobs, process, asked, opened, read, answer>>

\* An error of a change forgets everything when the list was empty.
Undo(c) ==
    /\ At(c, "undo")
    /\ IF kind[c] \in Changes /\ read[c] = {} THEN Empty ELSE UNCHANGED <<files, locks>>
    /\ Go(c, "release") /\ answer' = [answer EXCEPT ![c] = "error"]
    /\ UNCHANGED <<inUse, jobs, process, asked, opened, read>>

Save(c) ==
    /\ At(c, "save")
    /\ requested' = IF kind[c] \in Changes THEN Wanted(c) ELSE requested
    /\ Go(c, "rest")
    /\ UNCHANGED <<built, locks, inUse, jobs, process, asked, opened, read, answer>>

\* The other versions' builds and pruning, or adding a repository.
Rest(c) ==
    /\ At(c, "rest")
    /\ \E a \in {"done", "error"} : answer' = [answer EXCEPT ![c] = a]
    /\ Go(c, "release")
    /\ UNCHANGED <<files, locks, inUse, jobs, process, asked, opened, read>>

-----------------------------------------------------------------------------

Init ==
    /\ requested \in SUBSET Packages /\ built \in {requested, {}} /\ inUse = built
    /\ lockFile = 0 /\ inodes = 0 /\ jobs = {}
    /\ busy = FALSE /\ active = 0 /\ crashes = 0
    /\ kind = [c \in Calls |-> "rebuild"] /\ name = [c \in Calls |-> None]
    /\ pc = [c \in Calls |-> "unasked"] /\ opened = [c \in Calls |-> 0]
    /\ read = [c \in Calls |-> {}] /\ answer = [c \in Calls |-> "none"]

\* What luft-packages and the activation service do with c by themselves.
Work(c) ==
    \/ Check(c) \/ Open(c) \/ Take(c) \/ Read(c) \/ Activate(c) \/ JobEnds(c) \/ Forget(c)
    \/ Undo(c) \/ Save(c) \/ Rest(c) \/ Finish(c)

AllAnswered == (\A c \in Calls : At(c, "answered")) /\ jobs = {} /\ UNCHANGED vars

Next ==
    \/ \E c \in Calls : Ask(c) \/ AskRebuild(c) \/ Refuse(c) \/ Authorized(c) \/ Work(c)
    \/ IdleExit \/ Crash \/ AllAnswered

Spec == Init /\ [][Next]_vars

\* Threads run on and flock wakes up who waits. People needn't answer polkit.
FairSpec == Spec /\ \A c \in Calls : WF_vars(Work(c))

-----------------------------------------------------------------------------
(* Properties. *)

HasLock(c) == pc[c] \in Holding

TypeOK ==
    /\ requested \subseteq Packages /\ built \subseteq Packages /\ inUse \subseteq Packages
    /\ inodes \in Nat /\ lockFile \in {0, inodes} /\ jobs \subseteq Calls
    /\ busy \in BOOLEAN /\ active \in Nat /\ crashes \in Nat
    /\ kind \in [Calls -> Kinds] /\ name \in [Calls -> Packages \cup {None}]
    /\ pc \in [Calls -> Places] /\ opened \in [Calls -> Nat]
    /\ read \in [Calls -> SUBSET Packages]
    /\ answer \in [Calls -> {"none", "denied", "busy", "error", "lost", "done"}]
    /\ \A c \in Calls : opened[c] <= inodes
    /\ \A c \in Calls : kind[c] \in Changes => name[c] \in Packages

\* Whatever runs side by side, only one change is under way at a time.
OneChange ==
    \A c, d \in Calls : kind[c] \in Changes /\ kind[d] \in Changes /\ pc[c] \in Held /\ pc[d] \in Held
                        => c = d

\* As long as forget() didn't have another lock file made, only one call works on the state:
\* it deletes the file while others have it open, and whoever comes next locks a new one.
Exclusive == inodes <= 1 => \A c, d \in Calls : HasLock(c) /\ HasLock(d) => c = d

\* ... so the list a call read is still the list when it acts on it.
ReadIsTrue ==
    inodes <= 1 => \A c \in Calls : pc[c] \in {"activate", "acting"} => requested = read[c]

\* ... and only one activation instance runs, unless luft-packages was killed under one.
OneJob == inodes <= 1 /\ crashes = 0 => \A c, d \in jobs : c = d

\* Nothing the service works on is cut off by the idle exit.
NeverCutOff ==
    [][crashes' = crashes => \A c \in Calls : pc[c] \in Held /\ pc'[c] = "answered" => pc[c] = "release"]_vars

\* Every call the service took on is answered.
Answered == \A c \in Calls : pc[c] \in Held ~> pc[c] = "answered"

-----------------------------------------------------------------------------
(* What the safety properties rest on. *)

HeldCalls == {c \in Calls : pc[c] \in Held}

\* The idle exit counts the calls the service has taken on ...
Counted == active = Cardinality(HeldCalls)

\* ... and the busy flag is set while one of them is a change.
BusyWithChange == \A c \in HeldCalls : kind[c] \in Changes => busy

\* flock: at most one call has the lock of each file.
Locked ==
    /\ \A c \in Calls : HasLock(c) \/ At(c, "waiting") => opened[c] # 0
    /\ \A c, d \in Calls : HasLock(c) /\ HasLock(d) /\ opened[c] = opened[d] => c = d

\* Without a crash every instance has a call that waits for it.
Awaited == crashes = 0 => \A c \in jobs : At(c, "acting")

ServiceInv ==
    TypeOK /\ Counted /\ BusyWithChange /\ OneChange /\ Locked /\ ReadIsTrue /\ Awaited

-----------------------------------------------------------------------------
(* What the comments say and the code doesn't do. *)

\* rebuild "builds the system packages for this version": it doesn't take any away.
RebuildTakesNothing ==
    [][\A c \in Calls : kind[c] = "rebuild" /\ pc[c] \in Held /\ pc'[c] # pc[c] => requested' = requested]_vars
=============================================================================
