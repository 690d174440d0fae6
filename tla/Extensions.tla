----------------------------- MODULE Extensions -----------------------------
(***************************************************************************)
(* Kestrel's extensions: which are on, the runs of their code, what they   *)
(* store, and the record that names those running when Kestrel crashes.    *)
(*                                                                         *)
(* Starting an extension loads its module, calls its enable and waits for  *)
(* it. Anything may happen in between: a run that was stopped meanwhile is *)
(* late, and still comes back.  All the rest runs without a break on       *)
(* Kestrel's only thread; a settings key that changes calls sync before    *)
(* the write returns.  So an operation here is a chain of operators on the *)
(* record kept for one extension.                                          *)
(***************************************************************************)
EXTENDS Naturals, FiniteSets

CONSTANTS
    Ids,          \* the extensions
    Versions,     \* versions a folder may hold
    Values,       \* what an extension may store, taken as a whole
    None,         \* no folder, no stored value, no problem
    Broken,       \* a folder whose manifest can't be read
    MaxInstances, \* bound: instances of one extension that are in use or late
    MaxRuns,      \* bound: runs of one extension that are in use or late
    MaxCrashes    \* bound: crashes in a row an extension runs through

ASSUME ExtensionsAssumption ==
    /\ None \notin Versions \cup Values \cup {Broken, "error", "crash"}
    /\ Broken \notin Versions
    /\ {MaxInstances, MaxRuns, MaxCrashes} \subseteq Nat \ {0}

VARIABLES
    up,       \* Kestrel runs
    crashed,  \* it ended by crashing
    ext,      \* what is kept for each extension
    streak    \* history: the crashes in a row each extension ran through

vars == <<up, crashed, ext, streak>>

Folders == Versions \cup {Broken, None}
Stored  == Values \cup {None}
Unmade  == [version |-> None, values |-> None, pending |-> FALSE]
Free    == [of |-> 0, stage |-> "free"]

Instance == [version : Versions \cup {None}, values : Stored, pending : BOOLEAN]
Run      == [of : 0..MaxInstances, stage : {"free", "loading", "enabling", "on"}]

Extension ==
    [folder    : Folders,                    \* on disk
     file      : Stored,                     \* its stored values' file
     disabled  : BOOLEAN,                    \* disabled-extensions
     problem   : {None, "error", "crash"},   \* extension-problems
     recorded  : BOOLEAN,                    \* Record.running, also on disk
     crashes   : 0..MaxCrashes,              \* Record.crashes
     listed    : Folders,                    \* ExtensionManager.installed
     current   : 0..MaxInstances,            \* ExtensionManager.instances, 0 for none
     scope     : 0..MaxRuns,                 \* the current instance's open run, 0 for none
     instances : [1..MaxInstances -> Instance],
     runs      : [1..MaxRuns -> Run],
     last      : Stored]                     \* history: what it stored last

Running(x) == x.scope # 0

FreeRuns(x) == {r \in 1..MaxRuns : x.runs[r] = Free}
FreeInstances(x) ==
    {i \in 1..MaxInstances :
        i # x.current /\ ~x.instances[i].pending /\ \A r \in 1..MaxRuns : x.runs[r].of # i}

\* The bounds leave room for the runs an operation starts and for an instance.
Room(x, starts) == Cardinality(FreeRuns(x)) >= starts /\ FreeInstances(x) # {}

\* What the next instance would read, were it made now.
Latest(x) ==
    IF x.current # 0 /\ x.instances[x.current].pending THEN x.instances[x.current].values ELSE x.file

\* Nobody reads what a replaced instance holds, but what it has yet to write.
Collected(x) ==
    [x EXCEPT !.instances = [i \in 1..MaxInstances |->
        IF i = x.current THEN x.instances[i]
        ELSE IF x.instances[i].pending THEN [x.instances[i] EXCEPT !.version = None]
        ELSE Unmade]]

-----------------------------------------------------------------------------
(* One extension's instance, its run and its stored values. *)

Set(x, i, v) ==
    [x EXCEPT !.instances[i] = [@ EXCEPT !.values = v, !.pending = TRUE],
              !.last = IF i = x.current THEN v ELSE @]

Flush(x, i) ==
    IF x.instances[i].pending
    THEN [x EXCEPT !.file = x.instances[i].values, !.instances[i].pending = FALSE]
    ELSE x

Settled(x, r) == [x EXCEPT !.runs[r] = Free]

\* As if only the timer wrote what's stored.
StopUnwritten(x, v) ==
    IF Running(x) /\ x.runs[x.scope].stage = "on"
    THEN Settled([x EXCEPT !.scope = 0], x.scope)
    ELSE [x EXCEPT !.scope = 0]

\* v is what the cleanups given to onDisable store, None when they store nothing.
Stop(x, v) ==
    IF x.current = 0 THEN x ELSE
    LET closed == IF Running(x) /\ x.runs[x.scope].stage = "on"
                  THEN Settled([x EXCEPT !.scope = 0], x.scope)
                  ELSE [x EXCEPT !.scope = 0]
        cleans == Running(x) /\ x.runs[x.scope].stage # "loading" /\ v # None
    IN Flush(IF cleans THEN Set(closed, x.current, v) ELSE closed, x.current)

Start(x) ==
    LET r == CHOOSE r \in FreeRuns(x) : TRUE
    IN [x EXCEPT !.scope = r, !.runs[r] = [of |-> x.current, stage |-> "loading"]]

Drop(x, v) == [Stop(x, v) EXCEPT !.current = 0]

Replace(x, v) ==
    LET gone == Drop(x, v)
        i == CHOOSE i \in FreeInstances(x) : TRUE
    IN [gone EXCEPT !.current = i,
                    !.instances[i] = [version |-> x.listed, values |-> gone.file, pending |-> FALSE]]

-----------------------------------------------------------------------------
(* What the person chose, and keeping in step with it. *)

\* As if sync noted what runs only when it starts something.
SyncUnrecorded(x, v) ==
    IF x.current # 0 /\ ~x.disabled /\ ~Running(x) THEN [Start(x) EXCEPT !.recorded = x.recorded]
    ELSE IF x.disabled /\ Running(x) THEN Stop(x, v) ELSE x

Sync(x, v) ==
    LET y == IF x.current # 0 /\ ~x.disabled /\ ~Running(x) THEN Start(x)
             ELSE IF x.disabled /\ Running(x) THEN Stop(x, v) ELSE x
    IN [y EXCEPT !.recorded = Running(y)]

SetDisabled(x, off, v) == IF x.disabled = off THEN x ELSE Sync([x EXCEPT !.disabled = off], v)

SetProblem(x, p, v) == IF x.problem = None /\ p = None THEN x ELSE Sync([x EXCEPT !.problem = p], v)

TurnOn(x) == SetDisabled(SetProblem(x, None, None), FALSE, None)

\* The problem is set first, and sync starts the extension once more before it is disabled.
Failed(x, v) == SetDisabled(SetProblem(Stop(x, v), "error", None), TRUE, None)

\* As if an extension whose folder is gone kept its instance.
RescanKeeping(x, v) ==
    LET y == [x EXCEPT !.listed = x.folder]
    IN Sync(IF y.listed \in Versions /\ (y.current = 0 \/ y.instances[y.current].version # y.listed)
            THEN Replace(y, v) ELSE y, v)

Rescan(x, v) ==
    LET y == [x EXCEPT !.listed = x.folder]
        z == IF y.listed = None THEN Drop(y, v)
             ELSE IF y.listed \in Versions /\ (y.current = 0 \/ y.instances[y.current].version # y.listed)
             THEN Replace(y, v) ELSE y
    IN Sync(z, v)

\* An operation on one extension that calls sync does so for all. A choice that stays the same
\* tells nobody.
Change(id, x) ==
    IF x = ext[id] THEN UNCHANGED ext
    ELSE ext' = [other \in Ids |-> IF other = id THEN Collected(x) ELSE Sync(ext[other], None)]

Only(id, x) == ext' = [ext EXCEPT ![id] = Collected(x)]

-----------------------------------------------------------------------------
(* The person, Settings and Schelf. *)

\* Schelf unpacks a folder or somebody changes it, and tells nobody yet.
Unpack(id) ==
    /\ \E f \in Folders : ext' = [ext EXCEPT ![id].folder = f]
    /\ UNCHANGED <<up, crashed, streak>>

Enable(id) ==
    /\ up /\ FreeRuns(ext[id]) # {}
    /\ Change(id, TurnOn(ext[id]))
    /\ UNCHANGED <<up, crashed, streak>>

Disable(id) ==
    /\ up
    /\ \E v \in Stored : Change(id, SetDisabled(ext[id], TRUE, v))
    /\ UNCHANGED <<up, crashed, streak>>

\* A new version of an extension that was turned off is turned on while its old instance is there.
Reload(id) ==
    /\ up /\ Room(ext[id], 2)
    /\ \E v \in Stored :
          LET x == ext[id]
              again == /\ x.folder \in Versions
                       /\ x.current # 0
                       /\ x.problem # None
                       /\ x.instances[x.current].version # x.folder
              y == [IF again THEN TurnOn(x) ELSE x EXCEPT !.listed = x.folder]
              z == Sync(IF y.listed \in Versions THEN Replace(y, v) ELSE Drop(y, v), v)
          IN ext' = [other \in Ids |-> IF other = id THEN Collected(z) ELSE Sync(ext[other], None)]
    /\ UNCHANGED <<up, crashed, streak>>

\* StoredValues.forget: only an instance has stored values to forget.
Forget(x) ==
    IF x.current = 0 THEN x
    ELSE [x EXCEPT !.file = None, !.last = None,
                   !.instances[x.current] = [@ EXCEPT !.values = None, !.pending = FALSE]]

Erase(x, v) ==
    LET gone == [Drop(Forget(x), v) EXCEPT !.folder = None]
    IN SetDisabled(SetProblem(gone, None, None), FALSE, None)

Remove(id) ==
    /\ up /\ ext[id].listed # None /\ ext[id].folder # None
    /\ \A other \in Ids : Room(ext[other], 1)
    /\ \E v \in [Ids -> Stored] :
          ext' = [other \in Ids |->
                     Collected(Rescan(IF other = id THEN Erase(ext[id], v[id]) ELSE ext[other], v[other]))]
    /\ UNCHANGED <<up, crashed, streak>>

\* The folder is gone already, it can't be deleted, or not all of it, or the folder of its data
\* can't: Remove ends there.
RemoveFails(id) ==
    /\ up /\ ext[id].listed # None
    /\ \E v \in Stored : \E f \in {ext[id].folder, Broken, None} :
          /\ ext[id].folder = None => f = None
          /\ Only(id, [Drop(Forget(ext[id]), v) EXCEPT !.folder = f])
    /\ UNCHANGED <<up, crashed, streak>>

\* An extension that isn't one of these is removed: all folders are looked at again.
RemoveOther ==
    /\ up
    /\ \A id \in Ids : Room(ext[id], 1)
    /\ \E v \in [Ids -> Stored] : ext' = [id \in Ids |-> Collected(Rescan(ext[id], v[id]))]
    /\ UNCHANGED <<up, crashed, streak>>

\* Every extension starts again in the new language.
RestartAll ==
    /\ up
    /\ \A id \in Ids : Room(ext[id], 1)
    /\ \E v \in [Ids -> Stored] :
          ext' = [id \in Ids |->
                     Collected(Sync(IF ext[id].listed \in Versions THEN Replace(ext[id], v[id]) ELSE ext[id],
                                    None))]
    /\ UNCHANGED <<up, crashed, streak>>

-----------------------------------------------------------------------------
(* The extension's code and what comes back to it. *)

\* As if a module that was loaded were called whatever happened meanwhile.
LoadedAnyway(id, r) ==
    /\ up /\ ext[id].runs[r].stage = "loading"
    /\ Only(id, [ext[id] EXCEPT !.runs[r].stage = "enabling"])
    /\ UNCHANGED <<up, crashed, streak>>

Loaded(id, r) ==
    /\ up /\ ext[id].runs[r].stage = "loading"
    /\ Only(id, IF ext[id].scope = r
                THEN [ext[id] EXCEPT !.runs[r].stage = "enabling"]
                ELSE Settled(ext[id], r))
    /\ UNCHANGED <<up, crashed, streak>>

Enabled(id, r) ==
    /\ up /\ ext[id].runs[r].stage = "enabling"
    /\ Only(id, IF ext[id].scope = r
                THEN [ext[id] EXCEPT !.runs[r].stage = "on"]
                ELSE Settled(ext[id], r))
    /\ UNCHANGED <<up, crashed, streak>>

\* Its module can't be loaded, or its enable throws. It counts for the instance it was started
\* for, even when that was stopped and started since.
StartFails(id, r) ==
    /\ up /\ ext[id].runs[r].stage \in {"loading", "enabling"}
    /\ FreeRuns(ext[id]) # {}
    /\ \E v \in Stored :
          LET x == ext[id]
              \* the cleanups of a run that fails while it's enabled run in stop
              stopped == Settled(IF x.scope = r THEN Stop(x, v) ELSE x, r)
          IN IF x.runs[r].of = x.current THEN Change(id, Failed(stopped, v))
             ELSE Only(id, stopped)
    /\ UNCHANGED <<up, crashed, streak>>

\* A callback of the open run throws.
CallbackFails(id) ==
    /\ up /\ Running(ext[id]) /\ ext[id].runs[ext[id].scope].stage # "loading"
    /\ FreeRuns(ext[id]) # {}
    /\ \E v \in Stored : Change(id, Failed(ext[id], v))
    /\ UNCHANGED <<up, crashed, streak>>

\* Code of a run stores something, whether the run is still open or late.
Stores(id, r) ==
    /\ up /\ ext[id].runs[r].stage \in {"enabling", "on"}
    /\ \E v \in Values : Only(id, Set(ext[id], ext[id].runs[r].of, v))
    /\ UNCHANGED <<up, crashed, streak>>

\* The timer of an instance, current or replaced. What a replaced one writes takes the place of
\* what its successor wrote.
Write(id, i) ==
    /\ up /\ ext[id].instances[i].pending
    /\ LET x == Flush(ext[id], i)
       IN Only(id, [x EXCEPT !.last = IF i = x.current THEN @ ELSE Latest(x)])
    /\ UNCHANGED <<up, crashed, streak>>

-----------------------------------------------------------------------------
(* Kestrel itself. *)

\* Nothing of a process that ended is left.
Ended(x) ==
    [x EXCEPT !.listed = None, !.current = 0, !.scope = 0,
              !.instances = [i \in 1..MaxInstances |-> Unmade],
              !.runs = [r \in 1..MaxRuns |-> Free]]

Quit ==
    /\ up
    /\ \E v \in [Ids -> Stored] : ext' = [id \in Ids |-> Ended(Drop(ext[id], v[id]))]
    /\ up' = FALSE /\ crashed' = FALSE
    /\ streak' = [id \in Ids |-> 0]

\* What was stored in the second before is lost.
Crash ==
    /\ up
    /\ \A id \in Ids : ext[id].crashes < MaxCrashes
    /\ ext' = [id \in Ids |-> [Ended(ext[id]) EXCEPT !.last = ext[id].file]]
    /\ up' = FALSE /\ crashed' = TRUE
    /\ streak' = [id \in Ids |-> IF Running(ext[id]) THEN streak[id] + 1 ELSE 0]

CRASHES_BEFORE_OFF == 2

\* As if crashes were counted for whoever was counted before.
CountedForever(x, restarted) ==
    IF restarted /\ (x.recorded \/ x.crashes > 0) THEN x.crashes + 1 ELSE 0

Counted(x, restarted) == IF restarted /\ x.recorded THEN x.crashes + 1 ELSE 0

\* The constructors of CrashGuard and ExtensionManager.
Started(x, restarted) ==
    LET counted == [x EXCEPT !.crashes = Counted(x, restarted), !.recorded = FALSE]
        kept == IF counted.crashes >= CRASHES_BEFORE_OFF
                THEN [counted EXCEPT !.problem = "crash", !.disabled = TRUE]
                ELSE counted
    IN Rescan(kept, None)

\* kestrel-wrapper starts it again after a crash; it may also start afresh, as at sign-in.
StartUp(restarted) ==
    /\ ~up
    /\ restarted => crashed
    /\ up' = TRUE /\ crashed' = FALSE
    /\ ext' = [id \in Ids |-> Started(ext[id], restarted)]
    /\ streak' = IF restarted THEN streak ELSE [id \in Ids |-> 0]

-----------------------------------------------------------------------------
Fresh(f) ==
    [folder |-> f, file |-> None, disabled |-> FALSE, problem |-> None, recorded |-> FALSE,
     crashes |-> 0, listed |-> None, current |-> 0, scope |-> 0,
     instances |-> [i \in 1..MaxInstances |-> Unmade], runs |-> [r \in 1..MaxRuns |-> Free],
     last |-> None]

Init ==
    /\ up = FALSE /\ crashed = FALSE
    /\ \E folders \in [Ids -> Versions \cup {None}] : ext = [id \in Ids |-> Fresh(folders[id])]
    /\ streak = [id \in Ids |-> 0]

Next ==
    \/ \E id \in Ids :
          \/ Unpack(id) \/ Enable(id) \/ Disable(id) \/ Reload(id) \/ Remove(id) \/ RemoveFails(id)
          \/ CallbackFails(id)
          \/ \E r \in 1..MaxRuns : Loaded(id, r) \/ Enabled(id, r) \/ StartFails(id, r) \/ Stores(id, r)
          \/ \E i \in 1..MaxInstances : Write(id, i)
    \/ RemoveOther \/ RestartAll
    \/ Quit \/ Crash
    \/ \E restarted \in BOOLEAN : StartUp(restarted)

Spec == Init /\ [][Next]_vars

-----------------------------------------------------------------------------
(* Type correctness of what the manager, its instances and its files keep; only what the last  *)
(* look at the folders found has an instance.                                                  *)
TypeOK ==
    /\ up \in BOOLEAN /\ crashed \in BOOLEAN
    /\ ext \in [Ids -> Extension]
    /\ streak \in [Ids -> Nat]
    /\ \A id \in Ids : ext[id].current # 0 => ext[id].listed # None

(* Between operations, exactly the extensions that have an instance and aren't disabled run,   *)
(* whatever failed, was replaced or came back late; and whatever runs is on record, should     *)
(* Kestrel crash.                                                                              *)
InStepWithChoices ==
    \A id \in Ids :
       LET x == ext[id] IN
       /\ Running(x) <=> up /\ x.current # 0 /\ ~x.disabled
       /\ Running(x) => x.runs[x.scope].of = x.current /\ x.recorded

(* What an extension stored last is in its file or about to be: stopping, failing, updating    *)
(* and leaving lose nothing of it. Only a crash before the timer may, and a late call of a     *)
(* replaced instance.                                                                          *)
StoredIsKept == \A id \in Ids : Latest(ext[id]) = ext[id].last

(* A late run does nothing any more: the enable of a module is called only for the open run of *)
(* an extension that's on, and a failure of a replaced instance doesn't turn its successor off.*)
LateRunsDoNothing ==
    [][\A id \in Ids : \A r \in 1..MaxRuns :
         LET x == ext[id]
             y == ext'[id]
         IN /\ x.runs[r].stage = "loading" /\ y.runs[r].stage = "enabling"
                  => r = y.scope /\ x.runs[r].of = y.current /\ ~y.disabled
            /\ x.runs[r] # Free /\ y.runs[r] = Free /\ x.runs[r].of # x.current /\ x.current = y.current
                  => x.disabled = y.disabled]_vars

(* Coming back from the second crash in a row that an extension ran through, Kestrel keeps it  *)
(* off: what it wrote down before it crashed names all that ran. An extension that wasn't on   *)
(* record at the last crash is innocent, whatever it ran through before.                       *)
TwoCrashesTurnOff ==
    [][~up /\ up' => \A id \in Ids :
          /\ streak'[id] >= CRASHES_BEFORE_OFF => ~Running(ext'[id]) /\ ext'[id].problem = "crash"
          /\ ext'[id].problem = "crash" => ext[id].problem = "crash" \/ ext[id].recorded]_vars
=============================================================================
