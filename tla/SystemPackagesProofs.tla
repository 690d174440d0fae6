------------------------- MODULE SystemPackagesProofs -------------------------
(***************************************************************************)
(* What luft-packages keeps track of, and what it promises whoever asks it,*)
(* for every set of packages and paths, any number of changes, failures    *)
(* and power cuts.                                                         *)
(***************************************************************************)
EXTENDS SystemPackages, TLAPS

-----------------------------------------------------------------------------
(* Steps. *)

\* The order of the steps stays within the steps.
LEMMA FollowType ==
    ASSUME NEW g, NEW s PROVE Follow(g, s) \in Steps /\ FollowFailure(g, s) \in Steps
  BY DEF Follow, FollowFailure, Steps

\* A step that works stays in its stage; one that fails goes where Fails says.
LEMMA ProceedType ==
    ASSUME TypeOK, NEW ok \in BOOLEAN, Proceed(ok)
    PROVE  stage' \in Stages /\ step' \in Steps /\ failed' \in BOOLEAN /\ faults' \in Nat
  <1>1. CASE ok
    BY <1>1, FollowType DEF Proceed, Works, TypeOK
  <1>2. CASE ~ok
    <2>1. Fails
      BY <1>2 DEF Proceed
    <2>2. faults' \in Nat
      BY <2>1 DEF Fails, Fault, TypeOK
    <2>3. stage \in Stages /\ failed \in BOOLEAN /\ FollowFailure(stage, step) \in Steps
      BY FollowType DEF TypeOK
    <2>4. stage' \in Stages /\ step' \in Steps /\ failed' \in BOOLEAN
      BY <2>1, <2>3 DEF Fails, Goto, Stages, Steps
    <2> QED BY <2>2, <2>4
  <1> QED BY <1>1, <1>2

-----------------------------------------------------------------------------
(* Type correctness. *)

LEMMA DeclaredType ==
    ASSUME NEW b \in SUBSET Packages
    PROVE  Declared(b) \subseteq Entries /\ Settled(b) \subseteq Entries /\ Grown(b) \subseteq Entries
  BY PackagesAssumption DEF Declared, Settled, Grown

LEMMA NoteType ==
    ASSUME NEW f \in SUBSET Entries, NEW b \in SUBSET Packages, NEW there \in SUBSET Entries
    PROVE  Note(f, b, there) \subseteq Entries
  BY DeclaredType, PathsAssumption DEF Note, FirstMissing

\* What create_dir_all makes: what is written and its folders, and the folders of what is begun.
LEMMA MadeWithFolders ==
    ASSUME NEW C \in SUBSET Entries, NEW B \in SUBSET Entries, NEW a
    PROVE  a \in WithFolders(C, B)
               <=> (\E x \in C : a \in Ancestors[x]) \/ (\E x \in B : a \in Ancestors[x] /\ a # x)
  BY PathsAssumption DEF WithFolders

\* They are entries, each below a file of the build.
LEMMA AddedType ==
    ASSUME NEW C \in SUBSET Entries, NEW B \in SUBSET Entries
    PROVE  /\ WithFolders(C, B) \subseteq Entries
           /\ \A a \in WithFolders(C, B) : \E x \in C \cup B : a \in Ancestors[x]
  <1> SUFFICES ASSUME NEW a \in WithFolders(C, B)
               PROVE  a \in Entries /\ \E x \in C \cup B : a \in Ancestors[x]
    OBVIOUS
  <1>1. PICK x \in C \cup B : a \in Ancestors[x]
    BY MadeWithFolders
  <1> QED BY <1>1, PathsAssumption

LEMMA DifferenceType ==
    ASSUME NEW S, NEW T, NEW U, S \subseteq U PROVE S \ T \subseteq U /\ (S \ T) \cap T = {}
  OBVIOUS

LEMMA TypeNext == TypeOK /\ [Next]_vars => TypeOK'
  <1> SUFFICES ASSUME TypeOK, [Next]_vars PROVE TypeOK'
    OBVIOUS
  <1> USE DEF disk, world, libs, live, task, place
  <1>1. ASSUME NEW n \in SUBSET Packages, Begin(n) PROVE TypeOK'
    <2>1. failed' \in BOOLEAN
      BY <1>1, Zenon DEF Begin
    <2>2. stage' \in Stages /\ step' \in Steps
      BY <1>1 DEF Begin, Goto, Stages, Steps
    <2> QED BY <1>1, <2>1, <2>2 DEF TypeOK, Begin, Merged
  <1>2. CASE BeginRefused
    <2>1. failed' \in BOOLEAN
      BY <1>2, Zenon DEF BeginRefused
    <2>2. stage' \in Stages /\ step' \in Steps
      BY <1>2 DEF BeginRefused, Goto, Stages, Steps
    <2> QED BY <1>2, <2>1, <2>2 DEF TypeOK, BeginRefused
  <1>3. CASE Rebuild
    <2>1. failed' \in BOOLEAN /\ queued' \in BOOLEAN
      BY <1>3, Zenon DEF Rebuild
    <2>2. stage' \in Stages /\ step' \in Steps
      BY <1>3 DEF Rebuild, Goto, Stages, Steps
    <2> QED BY <1>3, <2>1, <2>2 DEF TypeOK, Rebuild
  <1>4. CASE BuildInto
    BY <1>4, ProceedType DEF TypeOK, BuildInto
  <1>5. CASE NoteFootprint
    BY <1>5, FollowType, NoteType DEF TypeOK, NoteFootprint, Works, Merged
  <1>6. CASE Record
    BY <1>6, ProceedType DEF TypeOK, Record
  <1>7. CASE SwapAside
    BY <1>7, ProceedType DEF TypeOK, SwapAside
  <1>8. CASE SwapPlace
    <2>1. CASE Goto("apply", "stop") /\ failed' = FALSE /\ build' = new /\ new' = {}
               /\ UNCHANGED faults
      BY <1>8, <2>1 DEF TypeOK, SwapPlace, Goto, Stages, Steps
    <2>2. CASE Fails /\ UNCHANGED <<build, new>>
      <3>1. Proceed(FALSE)
        BY <2>2 DEF Proceed
      <3> QED BY <1>8, <2>2, <3>1, ProceedType DEF TypeOK, SwapPlace
    <2> QED BY <1>8, <2>1, <2>2 DEF SwapPlace
  <1>9. CASE StopLeaving
    BY <1>9, ProceedType DEF TypeOK, StopLeaving
  <1>10. CASE Link
    <2>1. CASE stage = "restore"
      <3>1. Relink
        BY <1>10, <2>1 DEF Link
      <3>2. \E ok \in BOOLEAN : Proceed(ok)
        BY <3>1 DEF Relink, Proceed
      <3>3. build' \subseteq Packages /\ previous' \subseteq Packages /\ link' \in BOOLEAN
            /\ requested' = requested /\ new' = new
        BY <3>1 DEF Relink, TypeOK
      <3> QED BY <1>10, <3>2, <3>3, ProceedType DEF TypeOK, Link
    <2>2. CASE stage # "restore"
      BY <1>10, <2>2, ProceedType DEF TypeOK, Link
    <2> QED BY <2>1, <2>2
  <1>11. CASE Refresh
    BY <1>11, ProceedType DEF TypeOK, Refresh, Merged
  <1>12. CASE Settle
    <2>1. PICK created \in SUBSET Settled(next), begun \in SUBSET Settled(next),
              ok \in BOOLEAN, ran \in {"none", "copied", "all"} :
            /\ Proceed(ok)
            /\ here' = here \cup (WithFolders(created, begun) \ here)
            /\ made' = made \cup (WithFolders(created, begun) \ here)
            /\ IF next \cap Libraries = {} \/ ran = "none"
               THEN UNCHANGED libs
               ELSE /\ saved' = IF saved = "none" THEN cache ELSE saved
                    /\ cache' = IF ran = "all" THEN "packages" ELSE cache
      BY <1>12 DEF Settle, Added
    <2> DEFINE added == WithFolders(created, begun) \ here
    <2>2. added \subseteq Entries /\ added \cap here = {}
      <3>1. created \in SUBSET Entries /\ begun \in SUBSET Entries
        BY DeclaredType DEF TypeOK
      <3>2. WithFolders(created, begun) \subseteq Entries
        BY <3>1, AddedType
      <3> QED BY <3>2, DifferenceType
    <2>a. here' = here \cup added /\ made' = made \cup added
      BY <2>1
    <2>b. grown' = grown /\ lost' = lost
      BY <1>12 DEF Settle, Added
    <2> HIDE DEF added
    <2>3. /\ here' \subseteq Entries /\ made' \subseteq here' /\ grown' \subseteq here'
          /\ made' \cap grown' = {} /\ lost' \subseteq made'
      BY <2>2, <2>a, <2>b DEF TypeOK
    <2>4. cache' \in {"own", "packages"} /\ saved' \in {"none", "own", "packages"}
      BY <2>1 DEF TypeOK
    <2> QED BY <1>12, <2>1, <2>3, <2>4, ProceedType DEF TypeOK, Settle
  <1>13. CASE CreateTmpfiles
    <2>1. PICK created \in SUBSET Grown(next), ok \in BOOLEAN :
            /\ Proceed(ok)
            /\ here' = here \cup (WithFolders(created, {}) \ here)
            /\ grown' = grown \cup (WithFolders(created, {}) \ here)
      BY <1>13 DEF CreateTmpfiles, Added
    <2> DEFINE added == WithFolders(created, {}) \ here
    <2>2. added \subseteq Entries /\ added \cap here = {}
      <3>1. created \in SUBSET Entries
        BY DeclaredType DEF TypeOK
      <3>2. WithFolders(created, {}) \subseteq Entries
        BY <3>1, AddedType
      <3> QED BY <3>2, DifferenceType
    <2>a. here' = here \cup added /\ grown' = grown \cup added
      BY <2>1
    <2>b. made' = made /\ lost' = lost
      BY <1>13 DEF CreateTmpfiles, Added
    <2> HIDE DEF added
    <2>3. /\ here' \subseteq Entries /\ made' \subseteq here' /\ grown' \subseteq here'
          /\ made' \cap grown' = {} /\ lost' \subseteq made'
      BY <2>2, <2>a, <2>b DEF TypeOK
    <2> QED BY <1>13, <2>1, <2>3, ProceedType DEF TypeOK, CreateTmpfiles
  <1>14. CASE Clear
    <2> DEFINE leaving == {r \in mem : ~Declares(Arriving, r)}
    <2>1. PICK gone \in SUBSET (Under(leaving) \cap here) :
            /\ Proceed((leaving \cap here) \ gone = {})
            /\ mem' = mem \ (leaving \ ((leaving \cap here) \ gone))
            /\ here' = here \ gone /\ made' = made \ gone
            /\ grown' = grown \ gone /\ lost' = lost \ gone
      BY <1>14 DEF Clear
    <2>2. stage' \in Stages /\ step' \in Steps /\ failed' \in BOOLEAN /\ faults' \in Nat
      BY <2>1, ProceedType
    <2>3. /\ here' \subseteq Entries /\ made' \subseteq here' /\ grown' \subseteq here'
          /\ made' \cap grown' = {} /\ lost' \subseteq made' /\ mem' \subseteq Entries
      BY <2>1 DEF TypeOK
    <2> QED BY <1>14, <2>2, <2>3 DEF TypeOK, Clear
  <1>15. CASE SaveFootprint
    BY <1>15, ProceedType DEF TypeOK, SaveFootprint
  <1>16. CASE AfterRemoval
    BY <1>16, ProceedType DEF TypeOK, AfterRemoval
  <1>17. CASE StartArriving
    BY <1>17, ProceedType DEF TypeOK, StartArriving, Leaving, Arriving
  <1>18. CASE Applied
    BY <1>18 DEF TypeOK, Applied, Fault, Goto, Stages, Steps
  <1>19. CASE Restored
    BY <1>19 DEF TypeOK, Restored, Goto, Stages, Steps
  <1>20. CASE TakenAway
    BY <1>20 DEF TypeOK, TakenAway, Goto, Stages, Steps
  <1>21. CASE Failed
    BY <1>21 DEF TypeOK, Failed, Goto, Stages, Steps
  <1>22. CASE ForgetOne
    BY <1>22 DEF TypeOK, ForgetOne, ForgetPackages, ForgetBuilds, ForgetFootprint, ForgetLibraryCache
  <1>23. CASE Forgotten
    BY <1>23 DEF TypeOK, Forgotten, Goto, Stages, Steps
  <1>24. CASE ForgetFails
    BY <1>24 DEF TypeOK, ForgetFails, Fault, Goto, Stages, Steps
  <1>25. CASE Store
    BY <1>25 DEF TypeOK, Store, Fault, Goto, Stages, Steps
  <1>26. CASE Prune
    BY <1>26 DEF TypeOK, Prune, Fault, Goto, Stages, Steps
  <1>27. CASE PowerCut
    <2>1. link' \in BOOLEAN /\ queued' \in BOOLEAN /\ failed' \in BOOLEAN
      BY <1>27, Zenon DEF PowerCut
    <2>2. overlay' \subseteq Packages /\ running' \subseteq Packages /\ mem' \subseteq Entries
      BY <1>27 DEF PowerCut
    <2>3. stage' \in Stages /\ step' \in Steps /\ cuts' \in Nat /\ outcome' = "none"
      BY <1>27 DEF TypeOK, PowerCut, Goto, Stages, Steps
    <2> QED BY <1>27, <2>1, <2>2, <2>3 DEF TypeOK, PowerCut
  <1>28. CASE BootLink
    <2>1. /\ build' \subseteq Packages /\ new' \subseteq Packages /\ previous' \subseteq Packages
          /\ next' \subseteq Packages /\ was' \subseteq Packages /\ overlay' \subseteq Packages
      BY <1>28 DEF TypeOK, BootLink, Links, QueueRebuild
    <2>2. link' \in BOOLEAN /\ queued' \in BOOLEAN
      BY <1>28, Zenon DEF TypeOK, BootLink, Links, QueueRebuild
    <2>3. stage' \in Stages /\ step' \in Steps
      BY <1>28 DEF BootLink, Links, QueueRebuild, Goto, Stages, Steps
    <2>4. faults' \in Nat
      BY <1>28 DEF TypeOK, BootLink, QueueRebuild, Fault
    <2>5. /\ UNCHANGED <<requested, noted, libs, world, running, kind, current, before, outcome,
                          failed, mem, changes, cuts>>
      BY <1>28 DEF BootLink
    <2> QED BY <2>1, <2>2, <2>3, <2>4, <2>5 DEF TypeOK
  <1>29. CASE Booted
    BY <1>29 DEF TypeOK, Booted, Goto, Stages, Steps
  <1>30. ASSUME NEW e \in Entries, SomeoneMakes(e) PROVE TypeOK'
    BY <1>30, PathsAssumption DEF TypeOK, SomeoneMakes
  <1>31. ASSUME NEW p \in Packages, NEW e \in Entries, PackageMakes(p, e) PROVE TypeOK'
    BY <1>31, PathsAssumption DEF TypeOK, PackageMakes
  <1>32. CASE Waits \/ UNCHANGED vars
    BY <1>32 DEF TypeOK, Waits, vars
  <1> QED
    BY <1>1, <1>2, <1>3, <1>4, <1>5, <1>6, <1>7, <1>8, <1>9, <1>10, <1>11, <1>12, <1>13, <1>14,
       <1>15, <1>16, <1>17, <1>18, <1>19, <1>20, <1>21, <1>22, <1>23, <1>24, <1>25, <1>26, <1>27,
       <1>28, <1>29, <1>30, <1>31, <1>32 DEF Next, Work

LEMMA InitType == Init => TypeOK
  <1> SUFFICES ASSUME Init PROVE TypeOK
    OBVIOUS
  <1>1. link \in BOOLEAN /\ queued \in BOOLEAN /\ failed \in BOOLEAN
    BY Zenon DEF Init
  <1> QED BY <1>1 DEF Init, TypeOK, Stages, Steps

\* The state of luft-packages stays well formed: builds hold packages, what was made exists.
THEOREM Typing == Spec => []TypeOK
  BY InitType, TypeNext, PTL DEF Spec

-----------------------------------------------------------------------------
(* The notes: NotesInv is inductive. *)

LEMMA ProceedMoves ==
    ASSUME TypeOK, NEW ok \in BOOLEAN, Proceed(ok), step # "note"
    PROVE  /\ BeforeSettling' => BeforeSettling /\ step # "settle" /\ step' # "record"
           /\ Remembering' => Remembering
  <1>1. CASE ok
    <2>1. stage' = stage /\ step' = Follow(stage, step)
      BY <1>1 DEF Proceed, Works
    <2> QED BY <2>1 DEF Follow, BeforeSettling, Remembering
  <1>2. CASE ~ok
    <2>1. Fails
      BY <1>2 DEF Proceed
    <2>2. ~BeforeSettling'
      BY <2>1 DEF Fails, Goto, BeforeSettling
    <2>3. Remembering' => Remembering
      BY <2>1 DEF Fails, Goto, Remembering
    <2> QED BY <2>2, <2>3
  <1> QED BY <1>1, <1>2

\* A step that touches no notes and no entries keeps the invariant.
LEMMA Bystander ==
    ASSUME NotesInv, UNCHANGED <<here, made, grown, lost, noted, mem, next>>,
           Remembering' => Remembering,
           BeforeSettling' => BeforeSettling /\ (step' # "record" => step # "record")
    PROVE  NotesInv'
  BY DEF NotesInv, Closed, OthersUnnoted, Tracked, MemTracked, Planned, RecordedFirst, Mine, Covers

\* Nor does one that ends the use of the memory.
LEMMA Idle ==
    ASSUME NotesInv, UNCHANGED <<here, made, grown, lost, noted>>, mem' \subseteq noted \cup mem,
           ~Remembering', ~BeforeSettling'
    PROVE  NotesInv'
  BY DEF NotesInv, Closed, OthersUnnoted, Tracked, MemTracked, Planned, RecordedFirst, Mine, Covers

\* The outermost missing folder above an entry covers everything missing above it.
LEMMA FirstMissingCovers ==
    ASSUME NEW e \in Entries, NEW a \in Ancestors[e], NEW there \in SUBSET Entries, a \notin there,
           \A x \in there : Ancestors[x] \subseteq there
    PROVE  Ancestors[a] \cap FirstMissing(e, there) # {}
  <1> DEFINE S == Ancestors[e] \ there
  <1>1. S \in SUBSET Ancestors[e] /\ S # {}
    BY PathsAssumption
  <1>2. PICK r \in S : \A b \in S : r \in Ancestors[b]
    <2> HIDE DEF S
    <2> QED BY <1>1, PathsAssumption
  <1>3. r \in Ancestors[a]
    BY <1>2
  <1>4. Ancestors[r] \ {r} \subseteq there
    <2> SUFFICES ASSUME NEW x \in Ancestors[r], x \notin there PROVE x = r
      OBVIOUS
    <2>1. r \in Entries /\ Ancestors[r] \subseteq Ancestors[e]
      BY <1>2, PathsAssumption
    <2>2. x \in S /\ x \in Entries
      <3>1. x \in Ancestors[e]
        BY <2>1
      <3> QED BY <3>1, PathsAssumption
    <2>3. r \in Ancestors[x]
      BY <1>2, <2>2
    <2> QED BY <2>1, <2>2, <2>3, PathsAssumption
  <1> QED BY <1>2, <1>3, <1>4 DEF FirstMissing

LEMMA NoteKeeps ==
    ASSUME TypeOK, NotesInv, NoteFootprint, next \subseteq Packages PROVE NotesInv'
  <1> USE DEF disk, world, libs, live
  <1>1. /\ mem' = Note(noted, next, here)
        /\ UNCHANGED <<here, made, grown, lost, noted, next>>
    BY DEF NoteFootprint
  <1>2. noted \subseteq mem'
    BY <1>1 DEF Note
  <1>3. Closed' /\ Tracked'
    BY <1>1 DEF NotesInv, Closed, Tracked, Covers
  <1>4. OthersUnnoted'
    <2> SUFFICES ASSUME NEW e \in Mine, NEW r \in Ancestors[e], r \in noted' \cup mem' PROVE FALSE
      BY <1>1 DEF OthersUnnoted, Covers, Mine
    <2>1. r \notin noted
      BY DEF NotesInv, OthersUnnoted, Covers
    <2>2. r \notin here
      BY <1>1, <2>1 DEF Note, FirstMissing
    <2>3. r \in here
      BY DEF NotesInv, Closed, Mine
    <2> QED BY <2>2, <2>3
  <1>5. MemTracked'
    <2>1. \A e \in made \ lost : Covers(noted, e)
      BY DEF NotesInv, Tracked
    <2>2. \A e \in made \ lost : Covers(mem', e)
      BY <1>2, <2>1 DEF Covers
    <2>3. made' = made /\ lost' = lost
      BY <1>1
    <2> QED BY <2>2, <2>3 DEF MemTracked, Covers
  <1>6. Planned'
    <2> SUFFICES ASSUME NEW e \in Settled(next), NEW a \in Ancestors[e] \ here
                 PROVE  Covers(mem', a)
      BY <1>1 DEF Planned, Covers
    <2>1. e \in Declared(next) /\ e \in Entries
      BY DeclaredType DEF Settled, Declared
    <2>2. Ancestors[a] \cap FirstMissing(e, here) # {}
      BY <2>1, FirstMissingCovers DEF TypeOK, NotesInv, Closed
    <2>3. FirstMissing(e, here) \subseteq mem'
      BY <1>1, <2>1 DEF Note
    <2> QED BY <2>2, <2>3 DEF Covers
  <1>7. RecordedFirst'
    <2>1. step' = Follow(stage, step) /\ step = "note"
      BY DEF NoteFootprint, Works
    <2> QED BY <2>1 DEF RecordedFirst, Follow
  <1> QED BY <1>3, <1>4, <1>5, <1>6, <1>7 DEF NotesInv

\* Entries that are made, with their folders, and covered by the notes that count.
LEMMA AddedKeeps ==
    ASSUME TypeOK, NotesInv, NEW A \in SUBSET Entries, NEW B \in SUBSET Entries,
           here' = here \cup WithFolders(A, B),
           UNCHANGED <<noted, mem>>
    PROVE  Closed' /\ (Mine' \subseteq Mine => OthersUnnoted')
  <1>1. \A e \in WithFolders(A, B) : Ancestors[e] \subseteq WithFolders(A, B)
    <2> SUFFICES ASSUME NEW e \in WithFolders(A, B) PROVE Ancestors[e] \subseteq WithFolders(A, B)
      OBVIOUS
    <2> SUFFICES ASSUME NEW a \in Ancestors[e] PROVE a \in WithFolders(A, B)
      OBVIOUS
    <2>1. CASE \E x \in A : e \in Ancestors[x]
      <3>1. PICK x \in A : e \in Ancestors[x]
        BY <2>1
      <3>2. a \in Ancestors[x]
        BY <3>1, PathsAssumption
      <3> QED BY <3>2, MadeWithFolders
    <2>2. CASE \E x \in B : e \in Ancestors[x] /\ e # x
      <3>1. PICK x \in B : e \in Ancestors[x] /\ e # x
        BY <2>2
      <3>2. a \in Ancestors[x] /\ a # x
        BY <3>1, PathsAssumption
      <3> QED BY <3>2, MadeWithFolders
    <2> QED BY <2>1, <2>2, MadeWithFolders
  <1>2. Closed'
    BY <1>1 DEF NotesInv, Closed
  <1>3. ASSUME Mine' \subseteq Mine PROVE OthersUnnoted'
    BY <1>3 DEF NotesInv, OthersUnnoted, Covers
  <1> QED BY <1>2, <1>3

LEMMA SettleKeeps ==
    ASSUME TypeOK, NotesInv, Settle PROVE NotesInv'
  <1> USE DEF disk, live, task
  <1>1. PICK created \in SUBSET Settled(next), begun \in SUBSET Settled(next), ok \in BOOLEAN :
          /\ Proceed(ok)
          /\ here' = here \cup (WithFolders(created, begun) \ here)
          /\ made' = made \cup (WithFolders(created, begun) \ here)
    BY DEF Settle, Added
  <1>2. UNCHANGED <<noted, mem, grown, lost, next>> /\ step = "settle" /\ stage \in {"apply", "boot"}
    BY DEF Settle, Added
  <1>3. ~BeforeSettling' /\ BeforeSettling /\ Remembering /\ noted = mem
    BY <1>1, <1>2, ProceedMoves DEF BeforeSettling, Remembering, NotesInv, RecordedFirst
  <1>4. \A a \in WithFolders(created, begun) \ here : Covers(mem, a)
    <2> SUFFICES ASSUME NEW a \in WithFolders(created, begun) \ here PROVE Covers(mem, a)
      OBVIOUS
    <2>1. Settled(next) \subseteq Entries
      BY DeclaredType DEF TypeOK
    <2>2. PICK x \in Settled(next) : a \in Ancestors[x]
      BY <2>1, AddedType
    <2> QED BY <1>3, <2>2 DEF NotesInv, Planned
  <1>5. Tracked' /\ MemTracked'
    <2>1. \A e \in made' \ lost : Covers(mem, e)
      <3>1. \A e \in made \ lost : Covers(mem, e)
        BY <1>3 DEF NotesInv, Tracked
      <3> QED BY <1>1, <1>4, <3>1
    <2> QED BY <1>2, <1>3, <2>1 DEF Tracked, MemTracked, Covers
  <1>6. Closed' /\ OthersUnnoted'
    <2>1. created \in SUBSET Entries /\ begun \in SUBSET Entries
      BY DeclaredType DEF TypeOK
    <2>2. here' = here \cup WithFolders(created, begun) /\ Mine' \subseteq Mine
      BY <1>1, <1>2 DEF Mine
    <2> QED BY <1>2, <2>1, <2>2, AddedKeeps
  <1> QED BY <1>3, <1>5, <1>6 DEF NotesInv, Planned, RecordedFirst

LEMMA TmpfilesKeeps ==
    ASSUME TypeOK, NotesInv, CreateTmpfiles PROVE NotesInv'
  <1> USE DEF disk, live, task
  <1>1. PICK created \in SUBSET Grown(next), ok \in BOOLEAN :
          /\ Proceed(ok)
          /\ here' = here \cup (WithFolders(created, {}) \ here)
          /\ grown' = grown \cup (WithFolders(created, {}) \ here)
    BY DEF CreateTmpfiles, Added
  <1>2. /\ UNCHANGED <<noted, mem, made, lost, next>>
        /\ step = "tmpfiles" /\ stage = "apply"
    BY DEF CreateTmpfiles, Added
  <1>3. ~BeforeSettling' /\ (Remembering' => Remembering)
    BY <1>1, <1>2, ProceedMoves DEF BeforeSettling
  <1>4. Tracked' /\ MemTracked'
    BY <1>2, <1>3 DEF NotesInv, Tracked, MemTracked, Covers
  <1>5. Closed' /\ OthersUnnoted'
    <2>1. created \in SUBSET Entries
      BY DeclaredType DEF TypeOK
    <2>2. here' = here \cup WithFolders(created, {}) /\ Mine' \subseteq Mine
      BY <1>1, <1>2 DEF Mine
    <2> QED BY <1>2, <2>1, <2>2, AddedKeeps
  <1> QED BY <1>3, <1>4, <1>5 DEF NotesInv, Planned, RecordedFirst

LEMMA PackageMakesKeeps ==
    ASSUME TypeOK, NotesInv, NEW p \in Packages, NEW e \in Entries, PackageMakes(p, e)
    PROVE  NotesInv'
  <1> USE DEF disk, live, task, place
  <1>1. /\ here' = here \cup Ancestors[e] /\ grown' = grown \cup (Ancestors[e] \ here)
        /\ UNCHANGED <<noted, mem, made, lost, next, stage, step>>
    BY DEF PackageMakes
  <1>2. WithFolders({e}, {}) = Ancestors[e]
    BY PathsAssumption DEF WithFolders
  <1>3. Closed' /\ OthersUnnoted'
    <2>1. Mine' \subseteq Mine
      BY <1>1 DEF Mine
    <2> QED BY <1>1, <1>2, <2>1, AddedKeeps
  <1>4. Tracked' /\ MemTracked' /\ Planned' /\ RecordedFirst'
    BY <1>1 DEF NotesInv, Tracked, MemTracked, Planned, RecordedFirst, Covers, Remembering,
                BeforeSettling, Settled
  <1> QED BY <1>3, <1>4 DEF NotesInv

LEMMA SomeoneMakesKeeps ==
    ASSUME TypeOK, NotesInv, NEW e \in Entries, SomeoneMakes(e)
    PROVE  NotesInv'
  <1> USE DEF disk, live, task, place
  <1>1. /\ here' = here \cup Ancestors[e] /\ ~Covers(noted \cup mem, e)
        /\ UNCHANGED <<noted, mem, made, grown, lost, next, stage, step>>
    BY DEF SomeoneMakes
  <1>2. Closed'
    BY <1>1, PathsAssumption DEF NotesInv, Closed
  <1>3. OthersUnnoted'
    <2> SUFFICES ASSUME NEW x \in Mine' PROVE ~Covers(noted \cup mem, x)
      BY <1>1 DEF OthersUnnoted, Covers
    <2>1. CASE x \in Mine
      BY <2>1 DEF NotesInv, OthersUnnoted
    <2>2. CASE x \in Ancestors[e]
      BY <1>1, <2>2, PathsAssumption DEF Covers
    <2> QED BY <1>1, <2>1, <2>2 DEF Mine
  <1>4. Tracked' /\ MemTracked' /\ Planned' /\ RecordedFirst'
    BY <1>1 DEF NotesInv, Tracked, MemTracked, Planned, RecordedFirst, Covers, Remembering,
                BeforeSettling, Settled
  <1> QED BY <1>2, <1>3, <1>4 DEF NotesInv

\* What is left after clearing is still covered by what stays noted.
LEMMA ClearKeeps ==
    ASSUME TypeOK, NotesInv, Clear PROVE NotesInv' /\ Mine \subseteq here'
  <1> USE DEF disk, live, task
  <1> DEFINE leaving == {r \in mem : ~Declares(Arriving, r)}
  <1>1. PICK gone \in SUBSET (Under(leaving) \cap here) :
          /\ Under(gone) \cap here \subseteq gone
          /\ Proceed((leaving \cap here) \ gone = {})
          /\ mem' = mem \ (leaving \ ((leaving \cap here) \ gone))
          /\ here' = here \ gone /\ made' = made \ gone
          /\ grown' = grown \ gone /\ lost' = lost \ gone
    BY DEF Clear
  <1>2. UNCHANGED <<noted, next>> /\ step = "clear"
    BY DEF Clear
  <1>3. ~BeforeSettling' /\ (Remembering' => Remembering)
    BY <1>1, <1>2, ProceedMoves DEF BeforeSettling
  <1>4. leaving \subseteq mem
    OBVIOUS
  <1> HIDE DEF leaving
  <1>5. Mine \cap gone = {}
    BY <1>1, <1>4 DEF NotesInv, OthersUnnoted, Covers, Under
  <1>6. Mine' = Mine
    BY <1>1, <1>5 DEF Mine
  <1>7. Closed'
    <2> SUFFICES ASSUME NEW e \in here', NEW a \in Ancestors[e], a \in gone PROVE FALSE
      BY <1>1 DEF NotesInv, Closed
    <2>1. e \in Under(gone) \cap here
      BY <1>1 DEF Under, TypeOK
    <2> QED BY <1>1, <2>1
  <1>8. OthersUnnoted'
    BY <1>1, <1>2, <1>6 DEF NotesInv, OthersUnnoted, Covers
  <1>9. Tracked'
    BY <1>1, <1>2 DEF NotesInv, Tracked, Covers
  <1>10. ASSUME NEW e \in made' \ lost', Covers(mem, e) PROVE Covers(mem', e)
    <2>1. PICK r \in Ancestors[e] : r \in mem
      BY <1>10 DEF Covers
    <2>2. e \in here /\ e \notin gone /\ e \in Entries
      BY <1>1 DEF TypeOK
    <2>3. r \in here
      BY <2>2 DEF NotesInv, Closed
    <2>4. r \notin gone
      BY <1>1, <2>2 DEF Under
    <2>5. r \in mem'
      BY <1>1, <2>1, <2>3, <2>4
    <2> QED BY <2>5 DEF Covers
  <1>11. MemTracked'
    <2>1. made' \ lost' \subseteq made \ lost
      BY <1>1
    <2> SUFFICES ASSUME Remembering', NEW e \in made' \ lost' PROVE Covers(mem', e)
      BY DEF MemTracked, Covers
    <2>2. Covers(mem, e)
      BY <1>3, <2>1 DEF NotesInv, MemTracked
    <2> QED BY <1>10, <2>2
  <1>12. Mine \subseteq here'
    BY <1>1, <1>5 DEF Mine
  <1> QED BY <1>3, <1>7, <1>8, <1>9, <1>11, <1>12 DEF NotesInv, Planned, RecordedFirst

LEMMA NotesNext ==
    ASSUME TypeOK, NotesInv, [Next]_vars PROVE NotesInv' /\ Mine \subseteq here'
  <1> USE DEF disk, world, libs, live, task, place
  <1>0. Mine \subseteq here
    BY DEF Mine
  <1>1. ASSUME NEW n \in SUBSET Packages, Begin(n) PROVE NotesInv' /\ here' = here
    <2>1. UNCHANGED <<here, made, grown, lost, noted>> /\ ~BeforeSettling'
      BY <1>1 DEF Begin, Goto, BeforeSettling
    <2>2. mem' \subseteq noted \cup mem
      BY <1>1 DEF Begin
    <2>3. CASE n = {}
      <3>1. mem' = noted
        BY <1>1, <2>3 DEF Begin
      <3> QED
        BY <2>1, <3>1 DEF NotesInv, Closed, OthersUnnoted, Tracked, MemTracked, Planned,
                          RecordedFirst, Mine, Covers
    <2>4. CASE n # {}
      <3>1. ~Remembering'
        BY <1>1, <2>4 DEF Begin, Goto, Remembering
      <3> QED BY <2>1, <2>2, <3>1, Idle
    <2> QED BY <2>1, <2>3, <2>4
  <1>2. CASE BeginRefused \/ Rebuild \/ Restored \/ TakenAway \/ Applied \/ Booted \/ PowerCut
             \/ Forgotten \/ ForgetFails \/ Store \/ Prune \/ Failed
    <2>1. UNCHANGED <<here, made, grown, lost, noted>> /\ mem' \subseteq noted \cup mem
      BY <1>2 DEF BeginRefused, Rebuild, Restored, TakenAway, Applied, Booted, PowerCut,
                  Forgotten, ForgetFails, Store, Prune, Failed
    <2>2. ~Remembering' /\ ~BeforeSettling'
      BY <1>2 DEF BeginRefused, Rebuild, Restored, TakenAway, Applied, Booted, PowerCut, Goto,
                  Forgotten, ForgetFails, Store, Prune, Failed, Remembering, BeforeSettling
    <2> QED BY <1>0, <2>1, <2>2, Idle
  <1>3. CASE BuildInto \/ SwapAside \/ StopLeaving \/ Refresh \/ AfterRemoval \/ StartArriving \/ Link
    <2>1. UNCHANGED <<here, made, grown, lost, noted, mem, next>> /\ step # "note" /\ step # "record"
      BY <1>3 DEF BuildInto, SwapAside, StopLeaving, Refresh, AfterRemoval, StartArriving, Link
    <2>2. \E ok \in BOOLEAN : Proceed(ok)
      BY <1>3 DEF BuildInto, SwapAside, StopLeaving, Refresh, AfterRemoval, StartArriving, Link,
                  Relink, Proceed
    <2> QED BY <1>0, <2>1, <2>2, ProceedMoves, Bystander
  <1>4. CASE SwapPlace
    <2>1. UNCHANGED <<here, made, grown, lost, noted, mem, next>>
      BY <1>4 DEF SwapPlace
    <2>2. /\ Remembering' => Remembering
          /\ BeforeSettling' => BeforeSettling /\ step # "record"
      BY <1>4 DEF SwapPlace, Fails, Goto, Remembering, BeforeSettling
    <2> QED BY <1>0, <2>1, <2>2, Bystander
  <1>5. CASE NoteFootprint
    <2>1. here' = here
      BY <1>5 DEF NoteFootprint
    <2> QED BY <1>5, <2>1, <1>0, NoteKeeps DEF TypeOK
  <1>6. CASE Record \/ SaveFootprint
    <2>1. PICK ok \in BOOLEAN : Proceed(ok) /\ noted' = IF ok THEN mem ELSE noted
      BY <1>6 DEF Record, SaveFootprint
    <2>2. UNCHANGED <<here, made, grown, lost, mem, next>>
      BY <1>6 DEF Record, SaveFootprint
    <2>3. Remembering
      BY <1>6 DEF Record, SaveFootprint, Remembering
    <2>4. Closed' /\ OthersUnnoted' /\ Tracked' /\ MemTracked'
      BY <2>1, <2>2, <2>3 DEF NotesInv, Closed, OthersUnnoted, Tracked, MemTracked, Mine, Covers
    <2>5. step \in {"record", "save"}
      BY <1>6 DEF Record, SaveFootprint
    <2>6. BeforeSettling' => BeforeSettling
      BY <2>1, <2>5, ProceedMoves
    <2>7. Planned'
      BY <2>2, <2>6 DEF NotesInv, Planned, Covers
    <2>8. RecordedFirst'
      <3>1. CASE ok
        BY <2>1, <2>2, <3>1 DEF RecordedFirst
      <3>2. CASE ~ok
        <4>1. Fails
          BY <2>1, <3>2 DEF Proceed
        <4> QED BY <4>1 DEF Fails, Goto, RecordedFirst, BeforeSettling
      <3> QED BY <3>1, <3>2
    <2> QED BY <1>0, <2>2, <2>4, <2>7, <2>8 DEF NotesInv
  <1>7. CASE Settle
    <2>1. here \subseteq here'
      BY <1>7 DEF Settle, Added
    <2> QED BY <1>0, <1>7, <2>1, SettleKeeps
  <1>8. CASE CreateTmpfiles
    <2>1. here \subseteq here'
      BY <1>8 DEF CreateTmpfiles, Added
    <2> QED BY <1>0, <1>8, <2>1, TmpfilesKeeps
  <1>9. CASE Clear
    BY <1>9, ClearKeeps
  <1>10. CASE ForgetOne
    <2>1. UNCHANGED <<here, made, grown, mem, next, stage, step>> /\ stage = "finish"
      BY <1>10 DEF ForgetOne
    <2>2. (noted' = noted /\ lost' = lost) \/ (noted' = {} /\ lost' = made)
      BY <1>10 DEF ForgetOne, ForgetPackages, ForgetBuilds, ForgetFootprint, ForgetLibraryCache
    <2>3. Closed' /\ OthersUnnoted' /\ Tracked'
      BY <2>1, <2>2 DEF NotesInv, Closed, OthersUnnoted, Tracked, Mine, Covers
    <2> QED BY <1>0, <2>1, <2>3 DEF NotesInv, MemTracked, Planned, RecordedFirst, Remembering,
                                    BeforeSettling
  <1>11. CASE BootLink
    <2>1. UNCHANGED <<here, made, grown, lost, noted, mem>> /\ ~Remembering' /\ ~BeforeSettling'
      BY <1>11 DEF BootLink, Links, QueueRebuild, Goto, Remembering, BeforeSettling
    <2> QED BY <1>0, <2>1, Idle
  <1>12. ASSUME NEW e \in Entries, SomeoneMakes(e) PROVE NotesInv' /\ here \subseteq here'
    BY <1>12, SomeoneMakesKeeps DEF SomeoneMakes
  <1>13. ASSUME NEW p \in Packages, NEW e \in Entries, PackageMakes(p, e)
         PROVE  NotesInv' /\ here \subseteq here'
    BY <1>13, PackageMakesKeeps DEF PackageMakes
  <1>14. CASE Waits \/ UNCHANGED vars
    <2>1. UNCHANGED vars
      BY <1>14 DEF Waits
    <2>2. UNCHANGED <<here, made, grown, lost, noted, mem, next, stage, step>>
      BY <2>1 DEF vars
    <2> QED BY <1>0, <2>2, Bystander DEF Remembering, BeforeSettling
  <1>15. CASE BeginRefused \/ Rebuild \/ Work \/ PowerCut
    <2>1. CASE ~(NoteFootprint \/ Settle \/ CreateTmpfiles \/ Clear \/ Record \/ SaveFootprint)
      <3>1. here' = here
        BY <1>15, <2>1 DEF Work, BeginRefused, Rebuild, PowerCut, BuildInto, SwapAside, SwapPlace,
             StopLeaving, Link, Refresh, AfterRemoval, StartArriving, Applied, Restored,
             TakenAway, Failed, ForgetOne, Forgotten, ForgetFails, Store, Prune, BootLink, Booted
      <3> QED BY <1>0, <1>2, <1>3, <1>4, <1>10, <1>11, <1>15, <2>1, <3>1 DEF Work
    <2> QED BY <1>5, <1>6, <1>7, <1>8, <1>9, <2>1
  <1> QED BY <1>0, <1>1, <1>12, <1>13, <1>14, <1>15 DEF Next

LEMMA NotesInit == Init => NotesInv
  BY DEF Init, NotesInv, Closed, OthersUnnoted, Tracked, MemTracked, Planned, RecordedFirst,
         Covers, Remembering, BeforeSettling

\* What settle and the packages' services make is noted before it is made, in memory and on disk,
\* until footprint.clear takes it away.
THEOREM NotesHold == Spec => [](TypeOK /\ NotesInv)
  <1>1. TypeOK /\ NotesInv /\ [Next]_vars => (TypeOK /\ NotesInv)'
    BY TypeNext, NotesNext
  <1>2. Init => TypeOK
    BY InitType
  <1> QED BY <1>1, <1>2, NotesInit, PTL DEF Spec

\* Whatever fails and whenever the power is cut, everything settling put on the computer stays
\* noted in footprint.json until it's taken away or forget() loses the note.
THEOREM TrackedAlways == Spec => []Tracked
  <1>1. TypeOK /\ NotesInv => Tracked
    BY DEF NotesInv
  <1> QED BY <1>1, NotesHold, PTL

\* luft-packages never removes what was on the computer without the packages.
THEOREM OthersEntriesAreSafe == Spec => OthersEntriesStay
  <1>1. TypeOK /\ NotesInv /\ [Next]_vars => [Mine \subseteq here']_vars
    BY NotesNext
  <1> QED BY <1>1, NotesHold, PTL DEF Spec, OthersEntriesStay

-----------------------------------------------------------------------------
(* When a note may be lost: the order of a request's steps. *)

\* A step that proceeds stays in its stage, or goes from bring to the error, from apply to
\* restore, or in boot to its end.
LEMMA ProceedOrder ==
    ASSUME NEW ok \in BOOLEAN, Proceed(ok), stage \in {"bring", "apply", "restore", "takeaway", "boot"}
    PROVE  /\ stage' = stage \/ (stage = "bring" /\ stage' = "finish" /\ step' = "fail")
                             \/ (stage = "apply" /\ stage' = "restore" /\ step' = "stop")
           /\ ok /\ stage' = stage => step' = Follow(stage, step) /\ (failed' = failed)
           /\ ~ok /\ stage = "takeaway" => (failed' = TRUE)
  <1>1. CASE ok
    BY <1>1 DEF Proceed, Works
  <1>2. CASE ~ok
    BY <1>2 DEF Proceed, Fails, Goto
  <1> QED BY <1>1, <1>2

\* A step outside take_away that touches neither the list nor the request keeps the order.
LEMMA Ordinary ==
    ASSUME ControlInv, UNCHANGED <<requested, kind, current, next, outcome>>,
           stage \in {"bring", "apply", "restore", "boot"},
           \/ stage' = stage
           \/ stage \in {"bring", "apply"} /\ stage' \in {"apply", "restore"}
           \/ stage = "bring" /\ stage' = "finish" /\ step' = "fail"
    PROVE  ControlInv'
  BY DEF ControlInv, TakingAway, Forgetting, Asked, NothingLeft

\* In take_away, whatever doesn't change the footprint.
LEMMA Elsewhere ==
    ASSUME ControlInv, UNCHANGED <<requested, kind, current, next, outcome, noted, mem>>,
           stage = "takeaway", NEW ok \in BOOLEAN, Proceed(ok),
           step \in {"stop", "link", "refresh", "after"}
    PROVE  ControlInv'
  <1>1. stage' = "takeaway"
    BY ProceedOrder
  <1>2. ~ok => failed'
    BY ProceedOrder
  <1>3. ok => step' = Follow("takeaway", step) /\ (failed' = failed)
    BY <1>1, ProceedOrder
  <1>4. ok => (step = "after" /\ step' = "end") \/ step' \in {"link", "refresh", "clear"}
    BY <1>3 DEF Follow
  <1> QED BY <1>1, <1>2, <1>3, <1>4, Zenon
           DEF ControlInv, TakingAway, Forgetting, Asked, NothingLeft

LEMMA ClearEmpties ==
    ASSUME TypeOK, ControlInv, Clear PROVE ControlInv'
  <1> USE DEF disk, live, task
  <1>1. PICK leaving \in SUBSET mem, kept \in SUBSET mem :
          /\ leaving = {r \in mem : ~Declares(Arriving, r)}
          /\ Proceed(kept = {})
          /\ mem' = mem \ (leaving \ kept)
    <2> DEFINE leaving == {r \in mem : ~Declares(Arriving, r)}
    <2>1. PICK gone \in SUBSET (Under(leaving) \cap here) :
            /\ Proceed((leaving \cap here) \ gone = {})
            /\ mem' = mem \ (leaving \ ((leaving \cap here) \ gone))
      BY DEF Clear
    <2> QED BY <2>1
  <1>2. UNCHANGED <<requested, kind, current, next, outcome, noted>> /\ step = "clear"
        /\ stage \in {"apply", "restore", "takeaway", "boot"}
    BY DEF Clear
  <1>3. CASE stage # "takeaway"
    <2>1. stage' = stage \/ (stage = "apply" /\ stage' = "restore")
      BY <1>1, <1>2, <1>3, ProceedOrder
    <2> QED BY <1>2, <1>3, <2>1, Ordinary
  <1>4. CASE stage = "takeaway"
    <2>1. stage' = "takeaway"
      BY <1>1, <1>4, ProceedOrder
    <2>2. leaving = mem
      BY <1>1, <1>4 DEF Arriving, Declares, Declared
    <2>3. CASE kept = {}
      <3>1. mem' = {} /\ step' = "save"
        BY <1>1, <1>2, <1>4, <2>1, <2>2, <2>3, ProceedOrder DEF Follow
      <3> QED BY <1>2, <1>4, <2>1, <3>1 DEF ControlInv, TakingAway, Forgetting, Asked, NothingLeft
    <2>4. CASE kept # {}
      <3>1. failed' = TRUE
        BY <1>1, <1>4, <2>4, ProceedOrder
      <3> QED BY <1>2, <1>4, <2>1, <3>1 DEF ControlInv, TakingAway, Forgetting, Asked, NothingLeft
    <2> QED BY <2>3, <2>4
  <1> QED BY <1>3, <1>4

LEMMA SaveEmpties ==
    ASSUME TypeOK, ControlInv, SaveFootprint PROVE ControlInv'
  <1> USE DEF disk, live, task
  <1>1. PICK ok \in BOOLEAN : Proceed(ok) /\ noted' = IF ok THEN mem ELSE noted
    BY DEF SaveFootprint
  <1>2. UNCHANGED <<requested, kind, current, next, outcome, mem>> /\ step = "save"
        /\ stage \in {"apply", "restore", "takeaway", "boot"}
    BY DEF SaveFootprint
  <1>3. CASE stage # "takeaway"
    <2>1. stage' = stage \/ (stage = "apply" /\ stage' = "restore")
      BY <1>1, <1>2, <1>3, ProceedOrder
    <2> QED BY <1>2, <1>3, <2>1, Ordinary
  <1>4. CASE stage = "takeaway"
    <2>1. stage' = "takeaway"
      BY <1>1, <1>4, ProceedOrder
    <2>2. CASE ok
      <3>1. step' = "after" /\ (failed' = failed)
        BY <1>1, <1>2, <1>4, <2>1, <2>2, ProceedOrder DEF Follow
      <3>2. ~failed => noted' = {}
        BY <1>1, <1>2, <1>4, <2>2 DEF ControlInv, TakingAway
      <3> QED BY <1>2, <1>4, <2>1, <3>1, <3>2, Zenon
              DEF ControlInv, TakingAway, Forgetting, Asked, NothingLeft
    <2>3. CASE ~ok
      <3>1. failed' = TRUE
        BY <1>1, <1>4, <2>3, ProceedOrder
      <3> QED BY <1>2, <1>4, <2>1, <3>1 DEF ControlInv, TakingAway, Forgetting, Asked, NothingLeft
    <2> QED BY <2>2, <2>3
  <1> QED BY <1>3, <1>4

LEMMA ControlNext ==
    ASSUME TypeOK, NotesInv, ControlInv, [Next]_vars PROVE ControlInv'
  <1> USE DEF disk, world, libs, live, task, place
  <1>1. ASSUME NEW n \in SUBSET Packages, Begin(n) PROVE ControlInv'
    BY <1>1 DEF Begin, Goto, ControlInv, TakingAway, Forgetting, Asked, NothingLeft
  <1>2. CASE BeginRefused
    BY <1>2 DEF BeginRefused, Goto, ControlInv, TakingAway, Forgetting, Asked, NothingLeft
  <1>3. CASE Rebuild
    BY <1>3 DEF Rebuild, Goto, ControlInv, TakingAway, Forgetting, Asked, NothingLeft
  <1>4. CASE BuildInto \/ NoteFootprint \/ Record \/ SwapAside \/ SwapPlace \/ Settle
             \/ CreateTmpfiles \/ StartArriving
    <2>1. UNCHANGED <<requested, kind, current, next, outcome>>
          /\ stage \in {"bring", "apply", "restore", "boot"}
      BY <1>4 DEF BuildInto, NoteFootprint, Record, SwapAside, SwapPlace, Settle, CreateTmpfiles,
                  StartArriving
    <2>2. (\E ok \in BOOLEAN : Proceed(ok)) \/ (stage = "bring" /\ stage' = "apply")
      BY <1>4 DEF BuildInto, NoteFootprint, Record, SwapAside, SwapPlace, Settle, CreateTmpfiles,
                  StartArriving, Proceed, Goto
    <2> QED BY <2>1, <2>2, ProceedOrder, Ordinary
  <1>5. CASE StopLeaving \/ Link \/ Refresh \/ AfterRemoval
    <2>1. UNCHANGED <<requested, kind, current, next, outcome, noted, mem>>
          /\ stage \in {"apply", "restore", "takeaway"} /\ step \in {"stop", "link", "refresh", "after"}
      BY <1>5 DEF StopLeaving, Link, Relink, Refresh, AfterRemoval
    <2>2. \E ok \in BOOLEAN : Proceed(ok)
      BY <1>5 DEF StopLeaving, Link, Relink, Refresh, AfterRemoval, Proceed
    <2> QED BY <2>1, <2>2, ProceedOrder, Ordinary, Elsewhere
  <1>6. CASE Clear
    BY <1>6, ClearEmpties
  <1>7. CASE SaveFootprint
    BY <1>7, SaveEmpties
  <1>8. CASE Applied
    BY <1>8 DEF Applied, Goto, ControlInv, TakingAway, Forgetting, Asked, NothingLeft
  <1>9. CASE Restored
    BY <1>9 DEF Restored, Goto, ControlInv, TakingAway, Forgetting, Asked, NothingLeft
  <1>10. CASE TakenAway
    BY <1>10 DEF TakenAway, Goto, ControlInv, TakingAway, Forgetting, Asked, NothingLeft
  <1>11. CASE Failed
    <2>1. UNCHANGED <<requested, kind, current, next, noted, mem>> /\ stage = "finish"
      BY <1>11 DEF Failed
    <2>2. CASE kind = "change" /\ current = {}
      <3>1. stage' = "finish" /\ step' = "forget" /\ failed' = TRUE /\ outcome' = outcome
        BY <1>11, <2>2 DEF Failed
      <3> QED BY <2>1, <2>2, <3>1 DEF ControlInv, TakingAway, Forgetting, Asked, NothingLeft
    <2>3. CASE ~(kind = "change" /\ current = {})
      <3>1. stage' = "idle" /\ (outcome' = "error" \/ (kind = "rebuild" /\ outcome' = outcome))
        BY <1>11, <2>3 DEF Failed, Goto, ControlInv, Asked, TypeOK
      <3>2. kind = "rebuild" => requested' # {}
        BY <2>1 DEF ControlInv, Asked
      <3> QED BY <2>1, <3>1, <3>2 DEF ControlInv, TakingAway, Forgetting, Asked, NothingLeft
    <2> QED BY <2>2, <2>3
  <1>12. CASE ForgetOne
    <2>1. UNCHANGED <<kind, current, next, outcome, stage, step, failed, mem>>
          /\ stage = "finish" /\ step = "forget"
      BY <1>12 DEF ForgetOne
    <2>2. noted' = noted \/ noted' = {}
      BY <1>12 DEF ForgetOne, ForgetPackages, ForgetBuilds, ForgetFootprint, ForgetLibraryCache
    <2> QED BY <2>1, <2>2 DEF ControlInv, TakingAway, Forgetting, Asked, NothingLeft
  <1>13. CASE Forgotten
    <2>1. UNCHANGED <<requested, kind, current, next, noted, mem>> /\ noted = {}
          /\ stage = "finish" /\ step = "forget"
          /\ \/ stage' = "idle" /\ outcome' = "error"
             \/ stage' = "finish" /\ step' = "store" /\ outcome' = outcome
      BY <1>13 DEF Forgotten, Goto
    <2> QED BY <2>1 DEF ControlInv, TakingAway, Forgetting, Asked, NothingLeft
  <1>14. CASE ForgetFails
    BY <1>14 DEF ForgetFails, Goto, ControlInv, TakingAway, Forgetting, Asked, NothingLeft
  <1>15. CASE Store
    BY <1>15 DEF Store, Goto, ControlInv, TakingAway, Forgetting, Asked, NothingLeft
  <1>16. CASE Prune
    <2>1. requested = {} /\ kind = "change" => made \subseteq lost /\ noted = {}
      BY <1>16 DEF Prune, ControlInv, Forgetting, NotesInv, Tracked, Covers, TypeOK
    <2>2. UNCHANGED <<requested, kind, made, lost, noted>> /\ stage = "finish" /\ stage' = "idle"
      BY <1>16 DEF Prune, Goto
    <2>3. kind = "rebuild" => requested # {}
      BY <2>2 DEF ControlInv, Asked
    <2>4. kind \in {"change", "rebuild"}
      BY DEF TypeOK
    <2> QED BY <2>1, <2>2, <2>3, <2>4 DEF ControlInv, TakingAway, Forgetting, Asked, NothingLeft
  <1>17. CASE PowerCut \/ BootLink \/ Booted
    <2>1. CASE PowerCut
      BY <2>1 DEF PowerCut, Goto, ControlInv, TakingAway, Forgetting, Asked, NothingLeft
    <2>2. CASE BootLink
      <3>1. stage = "off" /\ outcome' = outcome /\ requested' = requested
            /\ (stage' = "idle" \/ (stage' = "boot" /\ next' = requested /\ requested # {}))
        BY <2>2 DEF BootLink, Links, QueueRebuild, Goto
      <3> QED BY <3>1 DEF ControlInv, TakingAway, Forgetting, Asked, NothingLeft
    <2>3. CASE Booted
      BY <2>3 DEF Booted, Goto, ControlInv, TakingAway, Forgetting, Asked, NothingLeft
    <2> QED BY <1>17, <2>1, <2>2, <2>3
  <1>18. ASSUME NEW e \in Entries, SomeoneMakes(e) PROVE ControlInv'
    BY <1>18 DEF SomeoneMakes, ControlInv, TakingAway, Forgetting, Asked, NothingLeft
  <1>19. ASSUME NEW p \in Packages, NEW e \in Entries, PackageMakes(p, e) PROVE ControlInv'
    BY <1>19 DEF PackageMakes, ControlInv, TakingAway, Forgetting, Asked, NothingLeft
  <1>20. CASE Waits \/ UNCHANGED vars
    BY <1>20 DEF Waits, vars, ControlInv, TakingAway, Forgetting, Asked, NothingLeft
  <1> QED BY <1>1, <1>2, <1>3, <1>4, <1>5, <1>6, <1>7, <1>8, <1>9, <1>10, <1>11, <1>12, <1>13,
             <1>14, <1>15, <1>16, <1>17, <1>18, <1>19, <1>20 DEF Next, Work

LEMMA ControlInit == Init => ControlInv
  BY DEF Init, ControlInv, TakingAway, Forgetting, Asked, NothingLeft

\* The notes, and the order in which change_locked, rebuild and take_away go through their steps.
THEOREM Invariance == Spec => []IInv
  <1>1. IInv /\ [Next]_vars => IInv'
    BY TypeNext, NotesNext, ControlNext DEF IInv
  <1>2. Init => IInv
    BY InitType, NotesInit, ControlInit DEF IInv
  <1> QED BY <1>1, <1>2, PTL DEF Spec

\* After the last package was removed, nothing settling made is left but what was lost before.
THEOREM NothingIsLeft == Spec => []NothingLeft
  <1>1. IInv => NothingLeft
    BY DEF IInv, ControlInv
  <1> QED BY <1>1, Invariance, PTL

\* forget() only drops a note when a change of an empty list failed.
THEOREM LosingIsRare == Spec => OnlyFailedFirstChangeLoses
  <1>1. IInv /\ [Next]_vars =>
           [lost' \subseteq lost \/ (step = "forget" /\ failed /\ current = {})]_vars
    <2> SUFFICES ASSUME IInv, [Next]_vars
                 PROVE  lost' \subseteq lost \/ (step = "forget" /\ failed /\ current = {})
      OBVIOUS
    <2>1. CASE ForgetOne
      BY <2>1 DEF ForgetOne, ForgetPackages, ForgetBuilds, ForgetFootprint, ForgetLibraryCache,
                  IInv, ControlInv, Forgetting
    <2>2. CASE Clear
      BY <2>2 DEF Clear
    <2>3. CASE ~ForgetOne /\ ~Clear
      <3>1. lost' = lost
        BY <2>3 DEF Next, Work, Begin, BeginRefused, Rebuild, PowerCut, Waits, SomeoneMakes,
             PackageMakes, BuildInto, NoteFootprint, Record, SwapAside, SwapPlace, StopLeaving,
             Link, Refresh, Settle, CreateTmpfiles, SaveFootprint, AfterRemoval, StartArriving,
             Applied, Restored, TakenAway, Failed, Forgotten, ForgetFails, Store, Prune, BootLink,
             Booted, vars, world
      <3> QED BY <3>1
    <2> QED BY <2>1, <2>2, <2>3
  <1> QED BY <1>1, Invariance, PTL DEF Spec, OnlyFailedFirstChangeLoses

-----------------------------------------------------------------------------
(***************************************************************************)
(* What luft-packages promises whoever asks it: every step of activation,  *)
(* of its undoing and of a start is one that PackagesInUse allows, or      *)
(* none, for every set of packages and any number of failures.             *)
(***************************************************************************)
(* Which build is where while a request goes on. *)

\* swap_in puts the new build in place and the one before aside, and apply brings it into use.
Bringing ==
    /\ stage = "bring" /\ step \in {"note", "record", "aside", "place"} => new = next
    /\ stage = "bring" /\ step \in {"record", "aside"} => was = Merged
    /\ stage = "bring" /\ step = "place" => build = {} /\ was = (IF link THEN previous ELSE {})
    /\ stage = "apply" => build = next /\ (was # {} => previous = was)
    /\ stage = "apply" /\ step \notin {"stop", "link"} => link
    /\ stage = "apply" /\ step \notin {"stop", "link", "refresh"} => overlay = next

\* restore puts the one before back in place; what is linked if that fails, is one of the two or
\* none.
Undoing ==
    stage = "restore" =>
        /\ step \in {"stop", "link"} => build = next /\ (was # {} => previous = was)
        /\ step \notin {"stop", "link"} => Merged \in {was, next, {}}
        /\ step \notin {"stop", "link"} /\ (~failed \/ step = "refresh") => Merged = was
        /\ step \notin {"stop", "link", "refresh"} /\ ~failed => overlay = was

\* take_away only unlinks the build.
Unlinking ==
    stage = "takeaway" =>
        /\ Merged \in {was, {}}
        /\ step \notin {"stop", "link"} /\ (~failed \/ step = "refresh") => ~link
        /\ step \notin {"stop", "link", "refresh"} /\ ~failed => overlay = {}

\* What is left to do after the answer is done with the packages in use.
Ending ==
    stage = "finish" =>
        /\ step = "forget" /\ ~failed => ~link /\ overlay = {}
        /\ step = "store" => Merged = next /\ overlay = next
        /\ step = "prune" /\ kind = "change" => requested = next /\ Merged = next /\ overlay = next

\* A computer that's off uses nothing.
Dark == stage = "off" => ~link /\ overlay = {}

\* A rebuild asks for the list, and an empty list stays empty until a change is stored.
Listed ==
    /\ stage \in {"bring", "apply", "restore"} /\ kind = "rebuild" => next = requested
    /\ /\ kind = "change" /\ current = {}
       /\ stage \in {"bring", "apply", "restore", "takeaway"} \/ (stage = "finish" /\ step # "prune")
       => requested = {}

\* After a change that is done only a rebuild that has nothing to build keeps its answer.
DoneIsInUse ==
    outcome = "done" =>
        /\ stage = "idle" \/ (stage = "finish" /\ step = "prune" /\ kind = "rebuild")
        /\ Merged = requested /\ overlay = requested

UseInv == Bringing /\ Undoing /\ Unlinking /\ Ending /\ Dark /\ Listed /\ DoneIsInUse

\* The units that run while the ones of one build make place for those of another.
UnitsInv ==
    /\ stage = "bring" /\ step \in {"record", "aside", "place"} => before = running
    /\ stage \in {"apply", "restore"} /\ before = was =>
          was \cap next \subseteq running /\ running \subseteq was \cup next
    /\ stage = "restore" /\ before = was /\ ~failed /\ step # "stop" => running \subseteq was
    /\ stage = "restore" /\ before = was /\ ~failed /\ step = "end" => was \subseteq running

-----------------------------------------------------------------------------
(* UseInv is inductive. *)

\* A step elsewhere on the computer.
LEMMA UseElsewhere ==
    ASSUME UseInv, UNCHANGED <<requested, build, new, previous, link, overlay, task, place>>
    PROVE  UseInv'
  BY DEF UseInv, Bringing, Undoing, Unlinking, Ending, Dark, Listed, DoneIsInUse, Merged, task, place

\* A step of a stage that neither moves builds nor brings one into use: where it goes on is all
\* that counts.
LEMMA UseProceeds ==
    ASSUME TypeOK, ControlInv, UseInv, NEW ok \in BOOLEAN, Proceed(ok),
           UNCHANGED <<requested, build, new, previous, link, overlay, kind, current, next, was, outcome>>,
           \/ stage \in {"apply", "restore", "takeaway"}
              /\ step \in {"stop", "settle", "tmpfiles", "clear", "save", "after", "start"}
           \/ stage = "bring" /\ step = "record"
           \/ stage = "boot"
    PROVE  UseInv'
  <1>1. failed \in BOOLEAN /\ failed' \in BOOLEAN
    BY ProceedType, Zenon DEF TypeOK
  <1>2. Merged' = Merged
    BY DEF Merged
  <1>3. CASE ok
    <2>1. stage' = stage /\ step' = Follow(stage, step) /\ failed' = failed
      BY <1>3 DEF Proceed, Works
    <2>2. UNCHANGED outcome /\ outcome # "done"
      BY DEF ControlInv, Asked, UseInv, DoneIsInUse
    <2> QED BY <1>1, <1>2, <2>1, <2>2
            DEF Follow, UseInv, Bringing, Undoing, Unlinking, Ending, Dark, Listed, DoneIsInUse
  <1>4. CASE ~ok
    <2>1. Fails
      BY <1>4 DEF Proceed
    <2>2. UNCHANGED outcome /\ outcome # "done"
      BY DEF ControlInv, Asked, UseInv, DoneIsInUse
    <2>3. CASE stage = "bring"
      BY <1>1, <1>2, <2>1, <2>2, <2>3
         DEF Fails, Goto, UseInv, Bringing, Undoing, Unlinking, Ending, Dark, Listed, DoneIsInUse
    <2>4. CASE stage = "apply"
      <3>1. stage' = "restore" /\ step' = "stop"
        BY <2>1, <2>4 DEF Fails, Goto
      <3> QED
        BY <1>2, <2>2, <2>4, <3>1
         DEF UseInv, Bringing, Undoing, Unlinking, Ending, Dark, Listed, DoneIsInUse
    <2>5. CASE stage \in {"restore", "takeaway"}
      <3>1. stage' = stage /\ step' = FollowFailure(stage, step) /\ failed' = TRUE
        BY <2>1, <2>5 DEF Fails
      <3>2. step' # "refresh"
        BY <2>5, <3>1 DEF FollowFailure, Follow
      <3>3. step = "stop" => step' = "link"
        BY <3>1 DEF FollowFailure, Follow
      <3>4. step # "stop" => step' \notin {"stop", "link"}
        BY <2>5, <3>1 DEF FollowFailure, Follow
      <3> QED
        BY <1>2, <2>2, <2>5, <3>1, <3>2, <3>3, <3>4
         DEF UseInv, Bringing, Undoing, Unlinking, Ending, Dark, Listed, DoneIsInUse
    <2>6. CASE stage = "boot"
      BY <1>2, <2>1, <2>2, <2>6
         DEF Fails, UseInv, Bringing, Undoing, Unlinking, Ending, Dark, Listed, DoneIsInUse
    <2> QED BY <2>3, <2>4, <2>5, <2>6
  <1> QED BY <1>3, <1>4

\* While packages are brought in.
LEMMA UseBrings ==
    ASSUME TypeOK, ControlInv, UseInv, BuildInto \/ NoteFootprint \/ SwapAside \/ SwapPlace
    PROVE  UseInv'
  <1> USE DEF disk, live, task, UseInv, Bringing, Undoing, Unlinking, Ending, Dark, Listed,
              DoneIsInUse, Merged
  <1>1. outcome # "done"
    BY DEF BuildInto, NoteFootprint, SwapAside, SwapPlace
  <1>2. CASE BuildInto
    <2>1. PICK ok \in BOOLEAN : Proceed(ok) /\ new' = IF ok THEN next ELSE {}
      BY <1>2 DEF BuildInto
    <2>2. UNCHANGED <<requested, build, previous, link, overlay, kind, current, next, was, outcome>>
          /\ stage = "bring" /\ step = "build"
      BY <1>2 DEF BuildInto
    <2>3. CASE ok
      <3>1. stage' = "bring" /\ step' = "note"
        BY <2>1, <2>2, <2>3 DEF Proceed, Works, Follow
      <3> QED BY <1>1, <2>1, <2>2, <2>3, <3>1
    <2>4. CASE ~ok
      <3>1. stage' = "finish" /\ step' = "fail"
        BY <2>1, <2>2, <2>4 DEF Proceed, Fails, Goto
      <3> QED BY <1>1, <2>2, <3>1
    <2> QED BY <2>3, <2>4
  <1>3. CASE NoteFootprint
    <2>1. UNCHANGED <<requested, build, new, previous, link, overlay, kind, current, next, outcome>>
          /\ stage' = stage /\ step' = "record" /\ stage \in {"bring", "boot"} /\ step = "note"
          /\ (stage = "bring" => was' = Merged)
      BY <1>3 DEF NoteFootprint, Works, Follow
    <2> QED BY <1>1, <2>1
  <1>4. CASE SwapAside
    <2>1. PICK ok \in BOOLEAN :
            /\ Proceed(ok)
            /\ IF ok THEN previous' = build /\ build' = {}
                     ELSE previous' \in {previous, {}} /\ UNCHANGED build
      BY <1>4 DEF SwapAside
    <2>2. UNCHANGED <<requested, new, link, overlay, kind, current, next, was, outcome>>
          /\ stage = "bring" /\ step = "aside"
      BY <1>4 DEF SwapAside
    <2>3. CASE ok
      <3>1. stage' = "bring" /\ step' = "place"
        BY <2>1, <2>2, <2>3 DEF Proceed, Works, Follow
      <3> QED BY <1>1, <2>1, <2>2, <2>3, <3>1
    <2>4. CASE ~ok
      <3>1. stage' = "finish" /\ step' = "fail"
        BY <2>1, <2>2, <2>4 DEF Proceed, Fails, Goto
      <3> QED BY <1>1, <2>2, <3>1
    <2> QED BY <2>3, <2>4
  <1>5. CASE SwapPlace
    <2>1. UNCHANGED <<requested, previous, link, overlay, kind, current, next, was, outcome>>
          /\ stage = "bring" /\ step = "place"
      BY <1>5 DEF SwapPlace
    <2>2. CASE stage' = "apply" /\ step' = "stop" /\ build' = new
      BY <1>1, <2>1, <2>2
    <2>3. CASE stage' = "finish" /\ step' = "fail"
      BY <1>1, <2>1, <2>3
    <2> QED BY <1>5, <2>1, <2>2, <2>3 DEF SwapPlace, Fails, Goto
  <1> QED BY <1>2, <1>3, <1>4, <1>5

\* Linking and unlinking.
LEMMA UseLinks ==
    ASSUME TypeOK, ControlInv, UseInv, Link PROVE UseInv'
  <1> USE DEF disk, live, task
  <1>1. /\ UNCHANGED <<requested, overlay, kind, current, next, was, outcome, new>>
        /\ stage \in {"apply", "restore", "takeaway"} /\ step = "link"
    BY DEF Link, Relink
  <1>2. outcome # "done" /\ failed \in BOOLEAN /\ link \in BOOLEAN
    BY <1>1, Zenon DEF ControlInv, Asked, UseInv, DoneIsInUse, TypeOK
  <1>3. CASE stage = "apply"
    <2>1. PICK ok \in BOOLEAN : Proceed(ok) /\ link' = IF ok THEN stage = "apply" ELSE link
      BY <1>3 DEF Link
    <2>2. UNCHANGED <<build, previous>>
      BY <1>3 DEF Link
    <2>3. CASE ok
      <3>1. stage' = "apply" /\ step' = "refresh" /\ link'
        BY <1>1, <1>3, <2>1, <2>3 DEF Proceed, Works, Follow
      <3> QED
        BY <1>1, <1>2, <1>3, <2>2, <3>1
        DEF UseInv, Bringing, Undoing, Unlinking, Ending, Dark, Listed, DoneIsInUse, Merged
    <2>4. CASE ~ok
      <3>1. stage' = "restore" /\ step' = "stop" /\ link' = link
        BY <1>1, <1>3, <2>1, <2>4 DEF Proceed, Fails, Goto
      <3> QED
        BY <1>1, <1>2, <1>3, <2>2, <3>1
        DEF UseInv, Bringing, Undoing, Unlinking, Ending, Dark, Listed, DoneIsInUse, Merged
    <2> QED BY <2>3, <2>4
  <1>4. CASE stage = "takeaway"
    <2>1. PICK ok \in BOOLEAN : Proceed(ok) /\ link' = IF ok THEN stage = "apply" ELSE link
      BY <1>4 DEF Link
    <2>2. UNCHANGED <<build, previous>>
      BY <1>4 DEF Link
    <2>3. CASE ok
      <3>1. stage' = "takeaway" /\ step' = "refresh" /\ link' = FALSE
        BY <1>1, <1>4, <2>1, <2>3 DEF Proceed, Works, Follow
      <3> QED
        BY <1>1, <1>2, <1>4, <2>2, <3>1
        DEF UseInv, Bringing, Undoing, Unlinking, Ending, Dark, Listed, DoneIsInUse, Merged
    <2>4. CASE ~ok
      <3>1. stage' = "takeaway" /\ step' = "clear" /\ failed' = TRUE /\ link' = link
        BY <1>1, <1>4, <2>1, <2>4 DEF Proceed, Fails, FollowFailure
      <3> QED
        BY <1>1, <1>2, <1>4, <2>2, <3>1
        DEF UseInv, Bringing, Undoing, Unlinking, Ending, Dark, Listed, DoneIsInUse, Merged
    <2> QED BY <2>3, <2>4
  <1>5. CASE stage = "restore"
    <2>1. Relink /\ build = next /\ (was # {} => previous = was)
      BY <1>1, <1>5 DEF Link, UseInv, Undoing
    <2>2. CASE Works /\ build' = (IF was = {} THEN {} ELSE previous) /\ link' = (was # {})
      <3>1. stage' = "restore" /\ step' = "refresh" /\ Merged' = was
        BY <1>1, <1>5, <2>1, <2>2 DEF Works, Follow, Merged
      <3> QED
        BY <1>1, <1>2, <1>5, <3>1
        DEF UseInv, Bringing, Undoing, Unlinking, Ending, Dark, Listed, DoneIsInUse
    <2>3. CASE Fails /\ link' = link /\ build' \in {build, {}, was}
      <3>1. stage' = "restore" /\ step' = "clear" /\ failed' = TRUE
        BY <1>1, <1>5, <2>3 DEF Fails, FollowFailure
      <3>2. Merged' \in {was, next, {}}
        BY <2>1, <2>3 DEF Merged
      <3> QED
        BY <1>1, <1>2, <1>5, <3>1, <3>2
        DEF UseInv, Bringing, Undoing, Unlinking, Ending, Dark, Listed, DoneIsInUse
    <2>4. (Works /\ build' = (IF was = {} THEN {} ELSE previous) /\ link' = (was # {}))
          \/ (Fails /\ link' = link /\ build' \in {build, {}, was})
      BY <2>1 DEF Relink
    <2> QED BY <2>2, <2>3, <2>4
  <1> QED BY <1>1, <1>3, <1>4, <1>5

\* What is linked comes into use.
LEMMA UseRefreshes ==
    ASSUME TypeOK, ControlInv, UseInv, Refresh PROVE UseInv'
  <1> USE DEF disk, live, task
  <1>1. PICK ok \in BOOLEAN : Proceed(ok) /\ overlay' = IF ok THEN Merged ELSE overlay
    BY DEF Refresh
  <1>2. /\ UNCHANGED <<requested, build, new, previous, link, kind, current, next, was, outcome>>
        /\ stage \in {"apply", "restore", "takeaway"} /\ step = "refresh" /\ Merged' = Merged
    BY DEF Refresh, Merged
  <1>3. outcome # "done" /\ failed \in BOOLEAN /\ link \in BOOLEAN
    BY <1>2, Zenon DEF ControlInv, Asked, UseInv, DoneIsInUse, TypeOK
  <1>4. CASE ok
    <2>1. stage' = stage /\ step' \in {"settle", "clear"} /\ failed' = failed /\ overlay' = Merged
      BY <1>1, <1>2, <1>4 DEF Proceed, Works, Follow
    <2>2. stage = "apply" => Merged = next
      BY <1>2 DEF UseInv, Bringing, Merged
    <2>3. stage = "takeaway" => Merged = {} /\ ~link
      BY <1>2 DEF UseInv, Unlinking, Merged
    <2> QED
      BY <1>2, <1>3, <2>1, <2>2, <2>3
      DEF UseInv, Bringing, Undoing, Unlinking, Ending, Dark, Listed, DoneIsInUse
  <1>5. CASE ~ok /\ stage = "apply"
    <2>1. stage' = "restore" /\ step' = "stop" /\ overlay' = overlay
      BY <1>1, <1>2, <1>5 DEF Proceed, Fails, Goto
    <2> QED
      BY <1>2, <1>3, <1>5, <2>1
      DEF UseInv, Bringing, Undoing, Unlinking, Ending, Dark, Listed, DoneIsInUse
  <1>6. CASE ~ok /\ stage # "apply"
    <2>1. stage' = stage /\ step' = "clear" /\ failed' = TRUE /\ overlay' = overlay
      BY <1>1, <1>2, <1>6 DEF Proceed, Fails, FollowFailure, Follow
    <2> QED
      BY <1>2, <1>3, <1>6, <2>1
      DEF UseInv, Bringing, Undoing, Unlinking, Ending, Dark, Listed, DoneIsInUse
  <1> QED BY <1>4, <1>5, <1>6

\* The end of a request.
LEMMA UseEnds ==
    ASSUME TypeOK, ControlInv, UseInv,
           Applied \/ Restored \/ TakenAway \/ Failed \/ ForgetOne \/ Forgotten \/ ForgetFails
              \/ Store \/ Prune
    PROVE  UseInv'
  <1> USE DEF disk, live, task
  <1>1. failed \in BOOLEAN /\ link \in BOOLEAN
    BY Zenon DEF TypeOK
  <1>2. CASE Applied \/ Restored \/ TakenAway
    <2>1. /\ UNCHANGED <<requested, build, new, link, overlay, kind, current, next, was, outcome, failed>>
          /\ stage \in {"apply", "restore", "takeaway"} /\ step = "end" /\ stage' = "finish"
          /\ \/ step' = "fail"
             \/ stage = "apply" /\ step' = (IF kind = "change" THEN "store" ELSE "prune")
             \/ stage = "takeaway" /\ ~failed /\ step' = "forget"
      BY <1>2 DEF Applied, Restored, TakenAway, Goto
    <2>2. outcome # "done" /\ Merged' = Merged
      BY <2>1 DEF UseInv, DoneIsInUse, Merged
    <2>3. stage = "apply" => Merged = next /\ overlay = next
      BY <2>1 DEF UseInv, Bringing, Merged
    <2> QED
      BY <1>1, <2>1, <2>2, <2>3
      DEF UseInv, Bringing, Undoing, Unlinking, Ending, Dark, Listed, DoneIsInUse
  <1>3. CASE Failed
    <2>1. /\ UNCHANGED <<requested, build, new, previous, link, overlay, kind, current, next, was>>
          /\ stage = "finish" /\ step = "fail" /\ Merged' = Merged
          /\ \/ kind = "change" /\ stage' = "finish" /\ step' = "forget" /\ failed' = TRUE
                /\ outcome' = outcome
             \/ stage' = "idle" /\ outcome' \in {outcome, "error"}
      BY <1>3 DEF Failed, Goto, Merged
    <2>2. outcome' # "done"
      BY <2>1 DEF UseInv, DoneIsInUse
    <2> QED
      BY <2>1, <2>2
      DEF UseInv, Bringing, Undoing, Unlinking, Ending, Dark, Listed, DoneIsInUse
  <1>4. CASE ForgetOne
    <2>1. /\ UNCHANGED <<link, overlay, kind, current, next, was, outcome, stage, step, failed>>
          /\ requested' \in {requested, {}} /\ stage = "finish" /\ step = "forget"
      BY <1>4 DEF ForgetOne, ForgetPackages, ForgetBuilds, ForgetFootprint, ForgetLibraryCache, place
    <2>2. outcome # "done"
      BY <2>1 DEF UseInv, DoneIsInUse
    <2> QED
      BY <2>1, <2>2
      DEF UseInv, Bringing, Undoing, Unlinking, Ending, Dark, Listed, DoneIsInUse
  <1>5. CASE Forgotten
    <2>1. /\ UNCHANGED <<requested, build, link, overlay, kind, current, next, was, failed>>
          /\ stage = "finish" /\ step = "forget" /\ Merged' = Merged
          /\ \/ failed /\ stage' = "idle" /\ outcome' = "error"
             \/ ~failed /\ stage' = "finish" /\ step' = "store" /\ outcome' = outcome
      BY <1>1, <1>5 DEF Forgotten, Goto, Merged
    <2>2. outcome' # "done"
      BY <2>1 DEF UseInv, DoneIsInUse
    <2>3. ~failed => Merged = {} /\ overlay = {} /\ next = {}
      BY <1>1, <2>1 DEF UseInv, Ending, Merged, ControlInv, Forgetting
    <2> QED
      BY <2>1, <2>2, <2>3
      DEF UseInv, Bringing, Undoing, Unlinking, Ending, Dark, Listed, DoneIsInUse
  <1>6. CASE ForgetFails
    <2>1. /\ UNCHANGED <<requested, build, link, overlay, kind, current, next, was, failed>>
          /\ stage = "finish" /\ step = "forget" /\ Merged' = Merged
          /\ \/ stage' = "idle" /\ outcome' = "error"
             \/ stage' = "finish" /\ step' = "fail" /\ outcome' = outcome
      BY <1>1, <1>6 DEF ForgetFails, Goto, Merged
    <2>2. outcome' # "done"
      BY <2>1 DEF UseInv, DoneIsInUse
    <2> QED
      BY <2>1, <2>2
      DEF UseInv, Bringing, Undoing, Unlinking, Ending, Dark, Listed, DoneIsInUse
  <1>7. CASE Store
    <2>1. /\ UNCHANGED <<build, link, overlay, kind, current, next, was, failed, outcome>>
          /\ stage = "finish" /\ step = "store" /\ stage' = "finish" /\ Merged' = Merged
          /\ \/ requested' = next /\ step' = "prune"
             \/ requested' = requested /\ step' = "fail"
      BY <1>7 DEF Store, Goto, Merged
    <2>2. outcome # "done"
      BY <2>1 DEF UseInv, DoneIsInUse
    <2> QED
      BY <2>1, <2>2
      DEF UseInv, Bringing, Undoing, Unlinking, Ending, Dark, Listed, DoneIsInUse
  <1>8. CASE Prune
    <2>1. /\ UNCHANGED <<requested, build, link, overlay, kind, current, next, was, failed>>
          /\ stage = "finish" /\ step = "prune" /\ stage' = "idle" /\ Merged' = Merged
          /\ kind # "change" => outcome' = outcome
      BY <1>8 DEF Prune, Goto, Merged
    <2> QED
      BY <2>1
      DEF UseInv, Bringing, Undoing, Unlinking, Ending, Dark, Listed, DoneIsInUse
  <1> QED BY <1>2, <1>3, <1>4, <1>5, <1>6, <1>7, <1>8

\* Asking, a power cut and a start.
LEMMA UseBegins ==
    ASSUME TypeOK, ControlInv, UseInv,
           (\E n \in SUBSET Packages : Begin(n)) \/ BeginRefused \/ Rebuild \/ PowerCut
              \/ BootLink \/ Booted
    PROVE  UseInv'
  <1> USE DEF disk, live, task
  <1>1. failed \in BOOLEAN /\ link \in BOOLEAN
    BY Zenon DEF TypeOK
  <1>2. ASSUME NEW n \in SUBSET Packages, Begin(n) PROVE UseInv'
    <2>1. /\ UNCHANGED <<requested, build, new, previous, link, overlay>>
          /\ Merged' = Merged /\ kind' = "change" /\ current' = requested
          /\ next' = n /\ outcome' = "none"
          /\ \/ n = {} /\ stage' = "takeaway" /\ step' = "stop" /\ was' = Merged
             \/ stage' = "bring" /\ step' = "build"
      BY <1>2 DEF Begin, Goto, Merged
    <2> QED
      BY <2>1
      DEF UseInv, Bringing, Undoing, Unlinking, Ending, Dark, Listed, DoneIsInUse
  <1>3. CASE BeginRefused
    <2>1. /\ UNCHANGED <<requested, build, new, previous, link, overlay>>
          /\ kind' = "change" /\ current' = requested /\ outcome' = "none"
          /\ stage' = "finish" /\ step' = "fail"
      BY <1>3 DEF BeginRefused, Goto
    <2> QED
      BY <2>1
      DEF UseInv, Bringing, Undoing, Unlinking, Ending, Dark, Listed, DoneIsInUse
  <1>4. CASE Rebuild
    <2>1. /\ UNCHANGED <<requested, build, new, previous, link, overlay, outcome>>
          /\ stage = "idle" /\ requested # {} /\ Merged' = Merged
          /\ kind' = "rebuild" /\ next' = requested
          /\ IF build = requested THEN stage' = "finish" /\ step' = "prune"
                                  ELSE stage' = "bring" /\ step' = "build"
      BY <1>4 DEF Rebuild, Goto, Merged
    <2>2. outcome = "done" => build = requested
      BY <2>1 DEF UseInv, DoneIsInUse, Merged
    <2> QED
      BY <2>1, <2>2
      DEF UseInv, Bringing, Undoing, Unlinking, Ending, Dark, Listed, DoneIsInUse
  <1>5. CASE PowerCut
    <2>1. stage' = "off" /\ link' = FALSE /\ overlay' = {} /\ outcome' = "none"
      BY <1>5 DEF PowerCut, Goto
    <2> QED
      BY <2>1
      DEF UseInv, Bringing, Undoing, Unlinking, Ending, Dark, Listed, DoneIsInUse
  <1>6. CASE BootLink
    <2>1. stage \in {"off", "boot"} /\ stage' \in {"idle", "boot"} /\ outcome' = outcome
      BY <1>6 DEF BootLink, Links, QueueRebuild, Goto
    <2> QED
      BY <2>1
      DEF UseInv, Bringing, Undoing, Unlinking, Ending, Dark, Listed, DoneIsInUse, ControlInv, Asked
  <1>7. CASE Booted
    <2>1. stage = "boot" /\ stage' = "idle" /\ outcome' = outcome
      BY <1>7 DEF Booted, Goto
    <2> QED
      BY <2>1
      DEF UseInv, Bringing, Undoing, Unlinking, Ending, Dark, Listed, DoneIsInUse, ControlInv, Asked
  <1> QED BY <1>2, <1>3, <1>4, <1>5, <1>6, <1>7

LEMMA UseNext ==
    ASSUME TypeOK, ControlInv, UseInv, [Next]_vars PROVE UseInv'
  <1> USE DEF disk, world, libs, live, task, place
  <1>1. CASE BuildInto \/ NoteFootprint \/ SwapAside \/ SwapPlace
    BY <1>1, UseBrings
  <1>2. CASE Link
    BY <1>2, UseLinks
  <1>3. CASE Refresh
    BY <1>3, UseRefreshes
  <1>4. CASE Record \/ StopLeaving \/ Settle \/ CreateTmpfiles \/ Clear \/ SaveFootprint
             \/ AfterRemoval \/ StartArriving
    <2>1. /\ UNCHANGED <<requested, build, new, previous, link, overlay, kind, current, next, was,
                         outcome>>
          /\ \/ stage \in {"apply", "restore", "takeaway"}
                /\ step \in {"stop", "settle", "tmpfiles", "clear", "save", "after", "start"}
             \/ stage = "bring" /\ step = "record"
             \/ stage = "boot"
      BY <1>4 DEF Record, StopLeaving, Settle, CreateTmpfiles, Clear, SaveFootprint, AfterRemoval,
                  StartArriving
    <2>2. \E ok \in BOOLEAN : Proceed(ok)
      <3>1. CASE Clear
        <4>1. PICK kept : Proceed(kept = {})
          BY <3>1 DEF Clear
        <4> QED BY <4>1
      <3>2. CASE ~Clear
        BY <1>4, <3>2 DEF Record, StopLeaving, Settle, CreateTmpfiles, SaveFootprint, AfterRemoval,
                          StartArriving
      <3> QED BY <3>1, <3>2
    <2> QED BY <2>1, <2>2, UseProceeds
  <1>5. CASE Applied \/ Restored \/ TakenAway \/ Failed \/ ForgetOne \/ Forgotten \/ ForgetFails
             \/ Store \/ Prune
    BY <1>5, UseEnds
  <1>6. CASE (\E n \in SUBSET Packages : Begin(n)) \/ BeginRefused \/ Rebuild \/ PowerCut
             \/ BootLink \/ Booted
    BY <1>6, UseBegins
  <1>7. ASSUME NEW e \in Entries, SomeoneMakes(e) PROVE UseInv'
    BY <1>7, UseElsewhere DEF SomeoneMakes
  <1>8. ASSUME NEW p \in Packages, NEW e \in Entries, PackageMakes(p, e) PROVE UseInv'
    BY <1>8, UseElsewhere DEF PackageMakes
  <1>9. CASE Waits \/ UNCHANGED vars
    BY <1>9, UseElsewhere DEF Waits, vars
  <1> QED
    BY <1>1, <1>2, <1>3, <1>4, <1>5, <1>6, <1>7, <1>8, <1>9 DEF Next, Work

LEMMA UseInit == Init => UseInv
  BY DEF Init, UseInv, Bringing, Undoing, Unlinking, Ending, Dark, Listed, DoneIsInUse

\* Through bring_in, apply, restore and take_away it stays known which build is in place, linked
\* and in use, and which one the system goes back to.
THEOREM UseHolds == Spec => [](IInv /\ UseInv)
  <1>1. IInv /\ UseInv /\ [Next]_vars => UseInv'
    BY UseNext DEF IInv
  <1> QED BY <1>1, Invariance, UseInit, PTL DEF Spec

\* After a change that was reported done, the running system uses exactly the list.
THEOREM DoneIsInStep == Spec => []InStep
  <1>1. UseInv => InStep
    BY DEF UseInv, DoneIsInUse, InStep
  <1> QED BY <1>1, UseHolds, PTL

-----------------------------------------------------------------------------
(* The units: restore stops those of the new build and starts those of the one before. *)

\* A step that starts and stops nothing.
LEMMA UnitsProceed ==
    ASSUME TypeOK, UnitsInv, NEW ok \in BOOLEAN, Proceed(ok), UNCHANGED <<running, before, was, next>>,
           stage \in {"bring", "apply", "restore", "takeaway", "boot"},
           step \in {"record", "aside", "link", "refresh", "settle", "tmpfiles", "clear", "save", "after"}
    PROVE  UnitsInv'
  <1>1. failed \in BOOLEAN /\ failed' \in BOOLEAN
    BY ProceedType, Zenon DEF TypeOK
  <1>2. CASE ok
    <2>1. stage' = stage /\ step' = Follow(stage, step) /\ failed' = failed
      BY <1>2 DEF Proceed, Works
    <2>2. step' \notin {"stop", "record"} /\ (stage = "restore" => step' # "end")
      BY <2>1 DEF Follow
    <2>3. stage = "bring" => step \in {"record", "aside", "place"} \/ step' \notin {"record", "aside", "place"}
      BY <2>1 DEF Follow
    <2>4. stage = "restore" => step # "stop"
      OBVIOUS
    <2> QED BY <1>1, <2>1, <2>2, <2>3, <2>4 DEF UnitsInv
  <1>3. CASE ~ok
    <2>1. Fails
      BY <1>3 DEF Proceed
    <2> QED BY <1>1, <2>1 DEF Fails, Goto, UnitsInv
  <1> QED BY <1>2, <1>3

\* Stopping and starting.
LEMMA UnitsMove ==
    ASSUME TypeOK, UnitsInv, StopLeaving \/ StartArriving PROVE UnitsInv'
  <1> USE DEF task
  <1>1. UNCHANGED <<before, was, next>> /\ failed \in BOOLEAN
    BY Zenon DEF StopLeaving, StartArriving, TypeOK
  <1>2. CASE StopLeaving
    <2>1. PICK stopped \in SUBSET (Leaving \ Arriving), ok \in BOOLEAN :
            /\ ok => stopped = Leaving \ Arriving
            /\ Proceed(ok)
            /\ running' = running \ stopped
      BY <1>2 DEF StopLeaving
    <2>2. stage \in {"apply", "restore", "takeaway"} /\ step = "stop"
      BY <1>2 DEF StopLeaving
    <2>3. CASE ok
      <3>1. stage' = stage /\ step' = "link"
        BY <2>1, <2>2, <2>3 DEF Proceed, Works, Follow
      <3> QED BY <1>1, <2>1, <2>2, <2>3, <3>1 DEF UnitsInv, Leaving, Arriving
    <2>4. CASE ~ok
      <3>1. \/ stage = "apply" /\ stage' = "restore" /\ step' = "stop"
            \/ stage' = stage /\ stage # "apply" /\ failed' = TRUE
        BY <2>1, <2>2, <2>4 DEF Proceed, Fails, Goto
      <3> QED BY <1>1, <2>1, <2>2, <3>1 DEF UnitsInv, Leaving, Arriving
    <2> QED BY <2>3, <2>4
  <1>3. CASE StartArriving
    <2>1. PICK started \in SUBSET (Arriving \ Leaving), ok \in BOOLEAN :
            /\ ok => started = Arriving \ Leaving
            /\ Proceed(ok)
            /\ running' = running \cup started
      BY <1>3 DEF StartArriving
    <2>2. stage \in {"apply", "restore", "boot"} /\ step = "start"
      BY <1>3 DEF StartArriving
    <2>3. CASE ok
      <3>1. stage' = stage /\ step' = "end" /\ failed' = failed
        BY <2>1, <2>2, <2>3 DEF Proceed, Works, Follow
      <3> QED BY <1>1, <2>1, <2>2, <2>3, <3>1 DEF UnitsInv, Leaving, Arriving
    <2>4. CASE ~ok
      <3>1. \/ stage = "apply" /\ stage' = "restore" /\ step' = "stop"
            \/ stage' = stage /\ stage # "apply" /\ failed' = TRUE
        BY <2>1, <2>2, <2>4 DEF Proceed, Fails, Goto
      <3> QED BY <1>1, <2>1, <2>2, <3>1 DEF UnitsInv, Leaving, Arriving
    <2> QED BY <2>3, <2>4
  <1> QED BY <1>2, <1>3

LEMMA UnitsNext ==
    ASSUME TypeOK, UnitsInv, [Next]_vars PROVE UnitsInv'
  <1> USE DEF disk, world, libs, live, task, place
  <1>1. CASE Record \/ SwapAside \/ Link \/ Refresh \/ Settle \/ CreateTmpfiles \/ Clear
             \/ SaveFootprint \/ AfterRemoval
    <2>1. /\ UNCHANGED <<running, before, was, next>>
          /\ stage \in {"bring", "apply", "restore", "takeaway", "boot"}
          /\ step \in {"record", "aside", "link", "refresh", "settle", "tmpfiles", "clear", "save",
                       "after"}
      BY <1>1 DEF Record, SwapAside, Link, Refresh, Settle, CreateTmpfiles, Clear, SaveFootprint,
                  AfterRemoval
    <2>2. \E ok \in BOOLEAN : Proceed(ok)
      <3>1. CASE Clear
        <4>1. PICK kept : Proceed(kept = {})
          BY <3>1 DEF Clear
        <4> QED BY <4>1
      <3>2. CASE ~Clear
        BY <1>1, <3>2 DEF Record, SwapAside, Link, Relink, Refresh, Settle, CreateTmpfiles,
                          SaveFootprint, AfterRemoval, Proceed
      <3> QED BY <3>1, <3>2
    <2> QED BY <2>1, <2>2, UnitsProceed
  <1>2. CASE StopLeaving \/ StartArriving
    BY <1>2, UnitsMove
  <1>3. CASE BuildInto
    <2>1. step' = "note" \/ stage' = "finish"
      BY <1>3 DEF BuildInto, Proceed, Works, Follow, Fails, Goto
    <2>2. stage' \in {"bring", "finish"}
      BY <1>3 DEF BuildInto, Proceed, Works, Fails, Goto
    <2> QED BY <2>1, <2>2 DEF UnitsInv
  <1>4. CASE NoteFootprint
    <2>1. before' = running /\ running' = running /\ stage' \in {"bring", "boot"}
      BY <1>4 DEF NoteFootprint, Works
    <2> QED BY <2>1 DEF UnitsInv
  <1>5. CASE SwapPlace
    <2>1. /\ UNCHANGED <<running, before, was, next>> /\ stage = "bring" /\ step = "place"
          /\ (stage' = "apply" /\ step' = "stop") \/ stage' = "finish"
      BY <1>5 DEF SwapPlace, Fails, Goto
    <2> QED BY <2>1 DEF UnitsInv
  <1>6. CASE Applied \/ Restored \/ TakenAway \/ Failed \/ Forgotten \/ ForgetFails \/ Store
             \/ Prune \/ BeginRefused \/ PowerCut \/ Booted
    <2>1. stage' \in {"finish", "idle", "off"}
      BY <1>6 DEF Applied, Restored, TakenAway, Failed, Forgotten, ForgetFails, Store, Prune,
                  BeginRefused, PowerCut, Booted, Goto
    <2> QED BY <2>1 DEF UnitsInv
  <1>7. CASE BootLink \/ Rebuild \/ \E n \in SUBSET Packages : Begin(n)
    <2>1. stage' \in {"boot", "idle", "finish", "takeaway"} \/ (stage' = "bring" /\ step' = "build")
      BY <1>7 DEF BootLink, Links, QueueRebuild, Rebuild, Begin, Goto
    <2> QED BY <2>1 DEF UnitsInv
  <1>8. CASE \/ ForgetOne \/ Waits \/ UNCHANGED vars
             \/ \E e \in Entries : SomeoneMakes(e)
             \/ \E p \in Packages, e \in Entries : PackageMakes(p, e)
    <2>1. UNCHANGED <<running, before, was, next, stage, step, failed>>
      BY <1>8 DEF ForgetOne, SomeoneMakes, PackageMakes, Waits, vars
    <2> QED BY <2>1 DEF UnitsInv
  <1> QED BY <1>1, <1>2, <1>3, <1>4, <1>5, <1>6, <1>7, <1>8 DEF Next, Work

LEMMA UnitsInit == Init => UnitsInv
  BY DEF Init, UnitsInv

\* When every step of restore worked, the running system uses what it used before bring_in, and
\* the units that ran, run.
THEOREM RestorePutsBack == Spec => []PutBack
  <1>1. (IInv /\ UseInv) /\ UnitsInv /\ [Next]_vars => UnitsInv'
    BY UnitsNext DEF IInv
  <1>2. IInv /\ UseInv /\ UnitsInv => PutBack
    <2> SUFFICES ASSUME IInv, UseInv, UnitsInv, stage = "restore", step = "end", ~failed
                 PROVE  Merged = was /\ overlay = was /\ (before = was => running = was)
      BY DEF PutBack
    <2>1. Merged = was /\ overlay = was
      BY DEF UseInv, Undoing
    <2>2. before = was => running = was
      BY DEF UnitsInv
    <2> QED BY <2>1, <2>2
  <1> QED BY <1>1, <1>2, UseHolds, UnitsInit, PTL DEF Spec

-----------------------------------------------------------------------------
(* Every step is one that PackagesInUse allows, or none. *)

LEMMA InitPromised == Init => Promise!Init
  BY DEF Init, Promise!Init, Phase, Fallback, Merged

\* A step that whoever asked doesn't see.
LEMMA Unseen ==
    ASSUME UNCHANGED <<requested, overlay, outcome, next>>, Phase' = Phase, Fallback' = Fallback
    PROVE  UNCHANGED Promise!vars
  BY DEF Promise!vars

\* A request that goes wrong for good.
LEMMA GivenUp ==
    ASSUME UNCHANGED <<requested, overlay, outcome>>, Phase \in {"busy", "used"}, Phase' = "failing",
           Fallback' \in {Fallback, next, {}}
    PROVE  Promise!GiveUp
  BY DEF Promise!GiveUp

\* Where a step of activation goes on.
LEMMA ProceedsBusy ==
    ASSUME NEW ok \in BOOLEAN, Proceed(ok)
    PROVE  /\ stage \in {"apply", "restore", "takeaway"} => stage' \in {"apply", "restore", "takeaway"}
           /\ stage = "boot" => stage' = "boot"
           /\ stage = "bring" /\ ok => stage' = "bring" /\ step' = Follow(stage, step)
           /\ stage = "bring" /\ ~ok => stage' = "finish" /\ step' = "fail"
  <1>1. CASE ok
    BY <1>1 DEF Proceed, Works
  <1>2. CASE ~ok
    BY <1>2 DEF Proceed, Fails, Goto
  <1> QED BY <1>1, <1>2

LEMMA BringsPromised ==
    ASSUME UseInv, BuildInto \/ NoteFootprint \/ Record \/ SwapAside \/ SwapPlace
    PROVE  Promise!GiveUp \/ UNCHANGED Promise!vars
  <1> USE DEF disk, live, task
  <1>1. UNCHANGED <<requested, overlay, outcome, next, link>>
    BY DEF BuildInto, NoteFootprint, Record, SwapAside, SwapPlace
  <1>2. CASE stage = "boot"
    <2>1. UNCHANGED <<build, link>> /\ stage' = "boot"
      BY <1>2, ProceedsBusy DEF BuildInto, NoteFootprint, Works, Record, SwapAside, SwapPlace
    <2>2. Phase' = Phase /\ Fallback' = Fallback
      BY <1>2, <2>1 DEF Phase, Fallback, Merged
    <2> QED BY <1>1, <2>2, Unseen
  <1>3. CASE stage = "bring" /\ stage' \in {"bring", "apply"}
    <2>1. Phase = "busy" /\ Phase' = "busy"
      BY <1>3 DEF Phase
    <2>2. Fallback' = Fallback
      <3>1. CASE BuildInto
        <4>1. PICK ok \in BOOLEAN : Proceed(ok)
          BY <3>1 DEF BuildInto
        <4>2. step = "build" /\ build' = build
          BY <3>1 DEF BuildInto
        <4>3. stage' = "bring" /\ step' = "note"
          <5>1. ok
            BY <1>3, <4>1 DEF Proceed, Fails, Goto
          <5> QED BY <1>3, <4>1, <4>2, <5>1 DEF Proceed, Works, Follow
        <4> QED BY <1>1, <1>3, <4>2, <4>3 DEF Fallback, Merged
      <3>2. CASE NoteFootprint
        <4>1. step' = "record" /\ step = "note" /\ was' = Merged
          BY <1>3, <3>2 DEF NoteFootprint, Works, Follow
        <4> QED BY <1>3, <4>1 DEF Fallback
      <3>3. CASE Record \/ SwapAside \/ SwapPlace
        <4>1. step \in {"record", "aside", "place"} /\ was' = was
          BY <3>3 DEF Record, SwapAside, SwapPlace
        <4>2. stage' = "apply" \/ step' \in {"aside", "place"}
          <5>1. CASE SwapPlace
            BY <1>3, <5>1 DEF SwapPlace, Goto, Fails
          <5>2. CASE ~SwapPlace
            BY <1>3, <3>3, <5>2, ProceedsBusy DEF Record, SwapAside, Follow
          <5> QED BY <5>1, <5>2
        <4> QED BY <1>3, <4>1, <4>2 DEF Fallback
      <3> QED BY <3>1, <3>2, <3>3
    <2> QED BY <1>1, <2>1, <2>2, Unseen
  <1>4. CASE stage = "bring" /\ stage' = "finish"
    <2>1. step' = "fail"
      <3>1. CASE SwapPlace
        BY <1>4, <3>1 DEF SwapPlace, Goto, Fails
      <3>2. CASE ~SwapPlace
        BY <1>4, <3>2, ProceedsBusy DEF BuildInto, NoteFootprint, Works, Record, SwapAside
      <3> QED BY <3>1, <3>2
    <2>2. Phase = "busy" /\ Phase' = "failing" /\ Fallback' = Merged'
      BY <1>4, <2>1 DEF Phase, Fallback
    <2>3. Merged' \in {Fallback, {}}
      <3>1. CASE BuildInto
        BY <1>1, <1>4, <3>1 DEF BuildInto, Fallback, Merged
      <3>2. CASE Record
        BY <1>1, <1>4, <3>2 DEF Record, Fallback, Merged, UseInv, Bringing
      <3>3. CASE SwapAside
        <4>1. build' = build /\ step = "aside"
          BY <1>4, <3>3, ProceedsBusy DEF SwapAside
        <4> QED BY <1>1, <1>4, <4>1 DEF Fallback, Merged, UseInv, Bringing
      <3>4. CASE SwapPlace
        <4>1. build' = build /\ step = "place"
          BY <1>4, <3>4 DEF SwapPlace, Goto
        <4> QED BY <1>1, <1>4, <4>1 DEF Merged, UseInv, Bringing
      <3> QED BY <1>4, <3>1, <3>2, <3>3, <3>4 DEF NoteFootprint, Works
    <2> QED BY <1>1, <2>2, <2>3, GivenUp
  <1>5. \/ stage = "boot"
        \/ stage = "bring" /\ stage' \in {"bring", "apply", "finish"}
    <2>1. CASE SwapPlace
      BY <2>1 DEF SwapPlace, Goto, Fails
    <2>2. CASE ~SwapPlace
      BY <2>2, ProceedsBusy DEF BuildInto, NoteFootprint, Works, Record, SwapAside
    <2> QED BY <2>1, <2>2
  <1> QED BY <1>2, <1>3, <1>4, <1>5

\* While the running system is changed, only systemd-sysext's refresh is seen: it takes what is
\* asked for into use, or puts back what was.
LEMMA ActivationPromised ==
    ASSUME ControlInv, UseInv,
           StopLeaving \/ Link \/ Refresh \/ Settle \/ CreateTmpfiles \/ Clear \/ SaveFootprint
              \/ AfterRemoval \/ StartArriving
    PROVE  Promise!Take \/ Promise!PutBack \/ UNCHANGED Promise!vars
  <1> USE DEF disk, live, task
  <1>1. /\ UNCHANGED <<requested, outcome, next, was, kind>>
        /\ stage \in {"apply", "restore", "takeaway", "boot"}
    BY DEF StopLeaving, Link, Relink, Refresh, Settle, CreateTmpfiles, Clear, SaveFootprint,
           AfterRemoval, StartArriving
  <1>2. \E ok \in BOOLEAN : Proceed(ok)
    <2>1. CASE Clear
      <3>1. PICK kept : Proceed(kept = {})
        BY <2>1 DEF Clear
      <3> QED BY <3>1
    <2>2. CASE ~Clear
      BY <2>2 DEF StopLeaving, Link, Relink, Refresh, Settle, CreateTmpfiles, SaveFootprint,
                  AfterRemoval, StartArriving, Proceed
    <2> QED BY <2>1, <2>2
  <1>3. stage = "boot" => stage' = "boot" /\ UNCHANGED <<build, link, overlay>>
    <2>1. stage = "boot" => stage' = "boot"
      BY <1>2, ProceedsBusy
    <2>2. stage = "boot" => UNCHANGED <<build, link, overlay>>
      BY DEF StopLeaving, Link, Refresh, Settle, CreateTmpfiles, Clear, SaveFootprint,
             AfterRemoval, StartArriving
    <2> QED BY <2>1, <2>2
  <1>4. stage # "boot" => {stage, stage'} \subseteq {"apply", "restore", "takeaway"}
    BY <1>1, <1>2, ProceedsBusy
  <1>5. Phase' = Phase /\ Fallback' = Fallback
    BY <1>1, <1>3, <1>4 DEF Phase, Fallback, Merged
  <1>6. CASE UNCHANGED overlay
    BY <1>1, <1>5, <1>6, Unseen
  <1>7. CASE overlay' # overlay
    <2>1. Refresh
      BY <1>7 DEF StopLeaving, Link, Settle, CreateTmpfiles, Clear, SaveFootprint, AfterRemoval,
                  StartArriving
    <2>2. overlay' = Merged /\ stage \in {"apply", "restore", "takeaway"} /\ step = "refresh"
      BY <1>7, <2>1 DEF Refresh
    <2>3. Phase = "busy" /\ Fallback = was
      BY <2>2 DEF Phase, Fallback
    <2>4. CASE stage = "restore"
      <3>1. overlay' = Fallback
        BY <2>2, <2>3, <2>4 DEF UseInv, Undoing
      <3>2. Promise!PutBack
        BY <1>1, <1>5, <2>3, <3>1 DEF Promise!PutBack
      <3> QED BY <3>2
    <2>5. CASE stage # "restore"
      <3>1. overlay' = next
        BY <2>2, <2>5 DEF UseInv, Bringing, Unlinking, ControlInv, TakingAway, Merged
      <3>2. Promise!Take
        BY <1>1, <1>5, <2>3, <3>1 DEF Promise!Take
      <3> QED BY <3>2
    <2> QED BY <2>4, <2>5
  <1> QED BY <1>6, <1>7

\* The answer of activation.
LEMMA AnswerPromised ==
    ASSUME TypeOK, ControlInv, UseInv, Applied \/ Restored \/ TakenAway
    PROVE  Promise!Works \/ Promise!GiveUp
  <1> USE DEF disk, live, task
  <1>1. /\ UNCHANGED <<requested, build, link, overlay, kind, next, was, outcome, failed>>
        /\ stage \in {"apply", "restore", "takeaway"} /\ step = "end" /\ stage' = "finish"
    BY DEF Applied, Restored, TakenAway, Goto
  <1>2. Phase = "busy" /\ Fallback = was /\ Fallback' = Merged /\ Merged' = Merged
    BY <1>1 DEF Phase, Fallback, Merged
  <1>3. kind \in {"change", "rebuild"}
    BY DEF TypeOK
  <1>4. CASE step' = "fail"
    <2>1. Phase' = "failing"
      BY <1>1, <1>4 DEF Phase
    <2>2. Merged \in {was, next, {}}
      BY <1>1 DEF UseInv, Bringing, Undoing, Unlinking, Merged
    <2> QED BY <1>1, <1>2, <2>1, <2>2, GivenUp
  <1>5. CASE step' # "fail"
    <2>1. \/ stage = "apply" /\ step' = (IF kind = "change" THEN "store" ELSE "prune")
          \/ stage = "takeaway" /\ ~failed /\ step' = "forget"
      BY <1>5 DEF Applied, Restored, TakenAway, Goto
    <2>2. overlay = next /\ Merged = next
      BY <1>1, <2>1 DEF UseInv, Bringing, Unlinking, ControlInv, TakingAway, Merged
    <2>3. Phase' = (IF stage = "apply" /\ kind = "rebuild" THEN "free" ELSE "used")
      BY <1>1, <1>3, <2>1 DEF Phase, ControlInv, TakingAway
    <2>4. stage = "apply" /\ kind = "rebuild" => requested = next
      BY DEF UseInv, Listed
    <2>5. Promise!Works
      BY <1>1, <1>2, <2>2, <2>3, <2>4 DEF Promise!Works
    <2> QED BY <2>5
  <1> QED BY <1>4, <1>5

\* What is left of a request after that.
LEMMA EndPromised ==
    ASSUME TypeOK, ControlInv, UseInv,
           Failed \/ ForgetOne \/ Forgotten \/ ForgetFails \/ Store \/ Prune
    PROVE  \/ Promise!Fail \/ Promise!Discard \/ Promise!Store \/ Promise!GiveUp \/ Promise!Done
           \/ UNCHANGED Promise!vars
  <1> USE DEF disk, live, task, place
  <1>1. stage = "finish" /\ UNCHANGED <<link, overlay, next, kind>>
    BY DEF Failed, ForgetOne, Forgotten, ForgetFails, Store, Prune
  <1>2. Fallback = Merged /\ (stage' \in {"finish", "idle"} => Fallback' = Merged')
    BY <1>1 DEF Fallback
  <1>3. stage' = "idle" => Phase' = "free"
    BY DEF Phase
  <1>4. failed \in BOOLEAN /\ kind \in {"change", "rebuild"}
    BY Zenon DEF TypeOK
  <1>5. CASE Failed
    <2>1. step = "fail" /\ Phase = "failing" /\ Merged' = Merged /\ requested' = requested
      BY <1>1, <1>5 DEF Failed, Phase, Merged
    <2>2. CASE stage' = "finish" /\ step' = "forget" /\ failed' = TRUE /\ outcome' = outcome
      <3>1. Phase' = "failing"
        BY <2>2 DEF Phase
      <3> QED BY <1>1, <1>2, <2>1, <2>2, <3>1, Unseen
    <2>3. CASE stage' = "idle" /\ outcome' \in {outcome, "error"}
      <3>1. Promise!Fail
        BY <1>1, <1>2, <1>3, <2>1, <2>3 DEF Promise!Fail
      <3> QED BY <3>1
    <2> QED BY <1>1, <1>5, <2>2, <2>3 DEF Failed, Goto
  <1>6. CASE ForgetOne
    <2>1. step = "forget" /\ kind = "change" /\ UNCHANGED <<stage, step, failed, outcome>>
      BY <1>1, <1>6 DEF ForgetOne, ControlInv, Forgetting
    <2>2. Phase = (IF failed THEN "failing" ELSE "used") /\ Phase' = Phase
      BY <1>1, <1>4, <2>1 DEF Phase
    <2>3. CASE ForgetPackages
      <3>1. requested' = {} /\ Merged' = Merged
        BY <1>1, <2>3 DEF ForgetPackages, Merged
      <3>2. CASE failed
        <4>1. requested = {}
          BY <1>1, <2>1, <3>2 DEF UseInv, Listed, ControlInv, Forgetting
        <4> QED BY <1>1, <1>2, <2>1, <2>2, <3>1, <4>1, Unseen
      <3>3. CASE ~failed
        <4>1. next = {}
          BY <1>1, <2>1, <3>3 DEF ControlInv, Forgetting
        <4>2. Promise!Store
          BY <1>1, <1>2, <2>1, <2>2, <3>1, <3>3, <4>1 DEF Promise!Store
        <4> QED BY <4>2
      <3> QED BY <3>2, <3>3
    <2>4. CASE ForgetBuilds
      <3>1. requested' = requested /\ (Merged' = Merged \/ Merged' = {})
        BY <1>1, <1>6, <2>4 DEF ForgetOne, ForgetBuilds, Merged
      <3>2. CASE failed
        <4>1. requested = {}
          BY <1>1, <2>1, <3>2 DEF UseInv, Listed, ControlInv, Forgetting
        <4>2. CASE Merged' = {}
          <5>1. Promise!Discard
            BY <1>1, <1>2, <2>1, <2>2, <3>1, <3>2, <4>1, <4>2 DEF Promise!Discard
          <5> QED BY <5>1
        <4>3. CASE Merged' = Merged
          BY <1>1, <1>2, <2>1, <2>2, <3>1, <4>3, Unseen
        <4> QED BY <3>1, <4>2, <4>3
      <3>3. CASE ~failed
        <4>1. Merged = {}
          BY <1>1, <2>1, <3>3 DEF UseInv, Ending, Merged
        <4> QED BY <1>1, <1>2, <2>1, <2>2, <3>1, <4>1, Unseen
      <3> QED BY <3>2, <3>3
    <2>5. CASE ForgetFootprint \/ ForgetLibraryCache
      <3>1. requested' = requested /\ Merged' = Merged
        BY <1>1, <2>5 DEF ForgetFootprint, ForgetLibraryCache, Merged
      <3> QED BY <1>1, <1>2, <2>1, <2>2, <3>1, Unseen
    <2> QED BY <1>6, <2>3, <2>4, <2>5 DEF ForgetOne
  <1>7. CASE Forgotten \/ ForgetFails
    <2>1. step = "forget" /\ kind = "change" /\ Merged' = Merged /\ requested' = requested
      BY <1>1, <1>7 DEF Forgotten, ForgetFails, ControlInv, Forgetting, Merged
    <2>2. Phase = (IF failed THEN "failing" ELSE "used")
      BY <1>1, <1>4, <2>1 DEF Phase
    <2>3. CASE failed
      <3>1. stage' = "idle" /\ outcome' = "error"
        BY <1>7, <2>3 DEF Forgotten, ForgetFails, Goto
      <3>2. Promise!Fail
        BY <1>1, <1>2, <1>3, <2>1, <2>2, <2>3, <3>1 DEF Promise!Fail
      <3> QED BY <3>2
    <2>4. CASE ~failed /\ Forgotten
      <3>1. stage' = "finish" /\ step' = "store" /\ outcome' = outcome
        BY <2>4 DEF Forgotten, Goto
      <3>2. Phase' = "used"
        BY <1>1, <2>1, <3>1 DEF Phase
      <3> QED BY <1>1, <1>2, <2>1, <2>2, <2>4, <3>1, <3>2, Unseen
    <2>5. CASE ~failed /\ ForgetFails
      <3>1. stage' = "finish" /\ step' = "fail" /\ outcome' = outcome
        BY <2>5 DEF ForgetFails, Goto
      <3>2. Phase' = "failing"
        BY <3>1 DEF Phase
      <3> QED BY <1>1, <1>2, <2>1, <2>2, <2>5, <3>1, <3>2, GivenUp
    <2> QED BY <1>4, <1>7, <2>3, <2>4, <2>5
  <1>8. CASE Store
    <2>1. /\ step = "store" /\ kind = "change" /\ stage' = "finish" /\ outcome' = outcome
          /\ Merged' = Merged
          /\ \/ requested' = next /\ step' = "prune"
             \/ requested' = requested /\ step' = "fail"
      BY <1>1, <1>8 DEF Store, Goto, ControlInv, Forgetting, Merged
    <2>2. Phase = "used" /\ Phase' = (IF step' = "fail" THEN "failing" ELSE "used")
      BY <1>1, <2>1 DEF Phase
    <2>3. CASE requested' = next /\ step' = "prune"
      <3>1. Promise!Store
        BY <1>1, <1>2, <2>1, <2>2, <2>3 DEF Promise!Store
      <3> QED BY <3>1
    <2>4. CASE requested' = requested /\ step' = "fail"
      BY <1>1, <1>2, <2>1, <2>2, <2>4, GivenUp
    <2> QED BY <2>1, <2>3, <2>4
  <1>9. CASE Prune
    <2>1. /\ step = "prune" /\ stage' = "idle" /\ Merged' = Merged /\ requested' = requested
          /\ outcome' \in (IF kind = "change" THEN {"done", "error"} ELSE {outcome})
      BY <1>1, <1>9 DEF Prune, Goto, Merged
    <2>2. CASE kind = "change"
      <3>1. Phase = "used" /\ requested = next /\ overlay = next
        BY <1>1, <2>1, <2>2 DEF Phase, UseInv, Ending
      <3>2. Promise!Done
        BY <1>1, <1>2, <1>3, <2>1, <2>2, <3>1 DEF Promise!Done
      <3> QED BY <3>2
    <2>3. CASE kind = "rebuild"
      <3>1. Phase = "free"
        BY <1>1, <2>1, <2>3 DEF Phase
      <3> QED BY <1>1, <1>2, <1>3, <2>1, <2>3, <3>1, Unseen
    <2> QED BY <1>4, <2>2, <2>3
  <1> QED BY <1>5, <1>6, <1>7, <1>8, <1>9

\* Asking, a power cut and a start.
LEMMA BeginPromised ==
    ASSUME TypeOK, UseInv,
           (\E n \in SUBSET Packages : Begin(n)) \/ BeginRefused \/ Rebuild \/ PowerCut
              \/ BootLink \/ Booted
    PROVE  [Promise!Next]_(Promise!vars)
  <1> USE DEF disk, live, task
  <1>1. ASSUME NEW n \in SUBSET Packages, Begin(n) PROVE Promise!Ask(n)
    <2>1. /\ UNCHANGED <<requested, overlay>> /\ stage = "idle"
          /\ next' = n /\ outcome' = "none" /\ Merged' = Merged
          /\ \/ stage' = "takeaway" /\ was' = Merged
             \/ stage' = "bring" /\ step' = "build"
      BY <1>1 DEF Begin, Goto, Merged
    <2>2. Phase = "free" /\ Fallback = Merged /\ Phase' = "busy" /\ Fallback' = Merged
      BY <2>1 DEF Phase, Fallback
    <2> QED BY <2>1, <2>2 DEF Promise!Ask
  <1>2. ASSUME BeginRefused PROVE Promise!Refuse
    <2>1. /\ UNCHANGED <<requested, overlay>> /\ stage = "idle" /\ outcome' = "none"
          /\ Merged' = Merged /\ stage' = "finish" /\ step' = "fail"
      BY <1>2 DEF BeginRefused, Goto, Merged
    <2>2. Phase = "free" /\ Fallback = Merged /\ Phase' = "failing" /\ Fallback' = Merged
      BY <2>1 DEF Phase, Fallback
    <2> QED BY <2>1, <2>2 DEF Promise!Refuse
  <1>3. ASSUME Rebuild PROVE Promise!Rebuild \/ UNCHANGED Promise!vars
    <2>1. /\ UNCHANGED <<requested, overlay, outcome>> /\ stage = "idle" /\ requested # {}
          /\ next' = requested /\ kind' = "rebuild" /\ Merged' = Merged
          /\ \/ stage' = "finish" /\ step' = "prune"
             \/ stage' = "bring" /\ step' = "build"
      BY <1>3 DEF Rebuild, Goto, Merged
    <2>2. Phase = "free" /\ Fallback = Merged /\ Fallback' = Merged
      BY <2>1 DEF Phase, Fallback
    <2>3. CASE stage' = "finish" /\ step' = "prune"
      <3>1. Phase' = "free"
        BY <2>1, <2>3 DEF Phase
      <3>2. UNCHANGED Promise!vars
        BY <2>1, <2>2, <3>1 DEF Promise!vars
      <3> QED BY <3>2
    <2>4. CASE stage' = "bring" /\ step' = "build"
      <3>1. Phase' = "busy"
        BY <2>4 DEF Phase
      <3>2. Promise!Rebuild
        BY <2>1, <2>2, <3>1 DEF Promise!Rebuild
      <3> QED BY <3>2
    <2> QED BY <2>1, <2>3, <2>4
  <1>4. ASSUME PowerCut PROVE Promise!PowerCut
    <2>1. /\ stage # "off" /\ stage' = "off" /\ link' = FALSE /\ overlay' = {} /\ outcome' = "none"
          /\ requested' = requested
      BY <1>4 DEF PowerCut, Goto
    <2>2. Phase # "off" /\ Phase' = "off" /\ Fallback' = {}
      BY <2>1 DEF Phase, Fallback, Merged
    <2> QED BY <2>1, <2>2 DEF Promise!PowerCut
  <1>5. ASSUME BootLink PROVE Promise!Start
    <2>1. stage = "off" /\ link = FALSE /\ overlay = {}
      <3>1. stage = "off"
        BY <1>5 DEF BootLink
      <3>2. ~link /\ overlay = {}
        BY <3>1 DEF UseInv, Dark
      <3> QED BY <3>1, <3>2, Zenon DEF TypeOK
    <2>2. /\ UNCHANGED <<requested, outcome>> /\ stage' \in {"idle", "boot"}
          /\ overlay' \in {requested, {}} /\ Merged' = overlay'
      BY <1>5, <2>1 DEF BootLink, Links, QueueRebuild, Goto, Merged
    <2>3. Phase = "off" /\ Phase' = "free" /\ Fallback' = overlay'
      BY <2>1, <2>2 DEF Phase, Fallback
    <2> QED BY <2>2, <2>3 DEF Promise!Start
  <1>6. ASSUME Booted PROVE UNCHANGED Promise!vars
    <2>1. /\ UNCHANGED <<requested, overlay, outcome, next>> /\ Merged' = Merged
          /\ stage = "boot" /\ stage' = "idle"
      BY <1>6 DEF Booted, Goto, Merged
    <2>2. Phase' = Phase /\ Fallback' = Fallback
      BY <2>1 DEF Phase, Fallback
    <2> QED BY <2>1, <2>2, Unseen
  <1> QED BY <1>1, <1>2, <1>3, <1>4, <1>5, <1>6 DEF Promise!Next

LEMMA NextPromised ==
    ASSUME IInv, UseInv, [Next]_vars PROVE [Promise!Next]_(Promise!vars)
  <1> USE DEF IInv, Promise!Next
  <1>1. CASE BuildInto \/ NoteFootprint \/ Record \/ SwapAside \/ SwapPlace
    BY <1>1, BringsPromised
  <1>2. CASE StopLeaving \/ Link \/ Refresh \/ Settle \/ CreateTmpfiles \/ Clear \/ SaveFootprint
             \/ AfterRemoval \/ StartArriving
    BY <1>2, ActivationPromised
  <1>3. CASE Applied \/ Restored \/ TakenAway
    BY <1>3, AnswerPromised
  <1>4. CASE Failed \/ ForgetOne \/ Forgotten \/ ForgetFails \/ Store \/ Prune
    BY <1>4, EndPromised
  <1>5. CASE (\E n \in SUBSET Packages : Begin(n)) \/ BeginRefused \/ Rebuild \/ PowerCut
             \/ BootLink \/ Booted
    BY <1>5, BeginPromised
  <1>6. CASE \/ Waits \/ UNCHANGED vars
             \/ \E e \in Entries : SomeoneMakes(e)
             \/ \E p \in Packages, e \in Entries : PackageMakes(p, e)
    <2>1. UNCHANGED <<requested, overlay, outcome, next, was, kind, build, link, stage, step, failed>>
      BY <1>6 DEF SomeoneMakes, PackageMakes, Waits, vars, disk, live, task, place
    <2>2. Phase' = Phase /\ Fallback' = Fallback
      BY <2>1 DEF Phase, Fallback, Merged
    <2> QED BY <2>1, <2>2, Unseen
  <1> QED BY <1>1, <1>2, <1>3, <1>4, <1>5, <1>6 DEF Next, Work

\* Activation, with every step that may fail, its undoing and power cuts, implements what
\* PackagesInUse promises: the list is only replaced by what is in use, and what is in use is what
\* was asked for, what was in use before, or nothing.
THEOREM PromiseKept == Spec => KeepsPromise
  <1>1. (IInv /\ UseInv) /\ [Next]_vars => [Promise!Next]_(Promise!vars)
    BY NextPromised
  <1> QED BY <1>1, InitPromised, UseHolds, PTL DEF Spec, KeepsPromise, Promise!Spec
===============================================================================
