------------------------ MODULE PackageSourcesProofs ------------------------
(***************************************************************************)
(* What is in use always has its sources, and a request reported done left *)
(* a current build, for any number of versions, packages and repositories. *)
(***************************************************************************)
EXTENDS PackageSources, TLAPS

SourceSets == [repos : SUBSET Repos, files : SUBSET Names]

-----------------------------------------------------------------------------
(* Builds. *)

\* Each package of a build comes from somewhere it may be taken from.
LEMMA ResolveMakes ==
    ASSUME NEW wanted \in SUBSET Names, NEW s \in SourceSets, NEW b \in Resolve(wanted, s)
    PROVE  /\ b \in Build /\ b # None /\ b.requested = wanted
           /\ \A n \in DOMAIN b.from : n \in Names /\ b.from[n] \in From(n, wanted, s)
  <1> DEFINE brought == wanted \cup UNION {Needs[n] : n \in wanted}
  <1>1. brought \in SUBSET Names
    BY SourcesAssumption
  <1>2. PICK f \in [brought -> Origins] :
           /\ \A n \in brought : f[n] \in From(n, wanted, s)
           /\ b = [requested |-> wanted, from |-> f]
    BY DEF Resolve
  <1>3. b \in Build
    BY <1>1, <1>2 DEF Build
  <1>4. DOMAIN b.from = brought /\ b.from = f /\ b.requested = wanted
    BY <1>2
  <1> HIDE DEF brought
  <1> QED BY <1>1, <1>2, <1>3, <1>4, SourcesAssumption

LEMMA FromWhere ==
    ASSUME NEW wanted, NEW s \in SourceSets, NEW n, NEW from \in From(n, wanted, s)
    PROVE  \/ from = "fedora"
           \/ from \in s.repos
           \/ from = "file" /\ n \in wanted /\ n \in s.files
  BY DEF From, SourceSets

\* A build covers the sources it was made from, and larger ones.
LEMMA ResolveCovers ==
    ASSUME NEW wanted \in SUBSET Names, NEW s \in SourceSets, NEW b \in Resolve(wanted, s),
           NEW t \in SourceSets, s.repos \subseteq t.repos, wanted \cap s.files \subseteq t.files
    PROVE  Cover(t, b)
  <1> SUFFICES ASSUME NEW n \in DOMAIN b.from
               PROVE  b.from[n] = "fedora" \/ b.from[n] \in t.repos \/ (b.from[n] = "file" /\ n \in t.files)
    BY DEF Cover
  <1>1. b.from[n] \in From(n, wanted, s)
    BY ResolveMakes
  <1> QED BY <1>1, FromWhere

\* What a build may still be made from doesn't come from a repository that's gone.
LEMMA CoveredLacks ==
    ASSUME NEW s \in SourceSets, NEW b, Cover(s, b), NEW r \in Repos, r \notin s.repos, b # None
    PROVE  FromRepository(b, r) = {}
  BY SourcesAssumption DEF Cover, FromRepository, SourceSets

LEMMA SourcesType == ASSUME TypeOK PROVE Sources \in SourceSets
  BY DEF TypeOK, Sources, SourceSets
-----------------------------------------------------------------------------
(* Type correctness. *)

LEMMA NoBuildsType == NoBuilds \in [Versions -> Build \cup {None}]
  BY DEF NoBuilds

LEMMA TypeInit == Init => TypeOK
  <1> SUFFICES ASSUME Init PROVE TypeOK
    OBVIOUS
  <1>1. sources \in SourceSets
    BY DEF Init, Sources, SourceSets
  <1>2. builds \in [Versions -> Build \cup {None}] /\ booted \in deployed /\ deployed \subseteq Versions
    BY NoBuildsType DEF Init
  <1> QED BY <1>1, <1>2 DEF Init, TypeOK, Places, SourceSets

\* The files the request works on are those of the state folder.
LEMMA EmptyType ==
    ASSUME TypeOK, NEW all \in BOOLEAN, Empty(all)
    PROVE  /\ requested' \subseteq Names /\ files' \subseteq Names /\ repos' \subseteq Repos
           /\ builds' \in [Versions -> Build \cup {None}] /\ byFile' \subseteq requested'
  BY NoBuildsType DEF Empty, TypeOK

LEMMA FaultType == ASSUME TypeOK, Fault PROVE faulted' \subseteq Places
  BY DEF TypeOK, Fault

LEMMA TypeNext == ASSUME TypeOK, Begun, [Next]_vars PROVE TypeOK'
  <1> USE DEF list, system, live, request, counts
  <1>0. Sources \in SourceSets
    BY SourcesType
  <1>1. ASSUME NEW n \in Names, Install(n) \/ Remove(n) \/ InstallFile(n) PROVE TypeOK'
    <2>1. CASE Install(n)
      BY <1>0, <2>1 DEF Install, Begin, Ask, Goto, TypeOK, Places, SourceSets
    <2>2. CASE Remove(n)
      BY <1>0, <2>2 DEF Remove, Begin, Ask, Goto, Activation, TypeOK, Places, SourceSets
    <2>3. CASE InstallFile(n)
      BY <2>3 DEF InstallFile, Begin, Ask, Goto, TypeOK, Places
    <2> QED BY <1>1, <2>1, <2>2, <2>3
  <1>2. ASSUME NEW r \in Repos, AddRepository(r) \/ RemoveRepository(r) PROVE TypeOK'
    <2>1. CASE AddRepository(r)
      BY <2>1 DEF AddRepository, Ask, TypeOK
    <2>2. CASE RemoveRepository(r)
      <3> DEFINE from == FromRepository(Merged, r)
      <3>1. /\ Ask /\ leaving' = r /\ file' = None /\ UNCHANGED <<files, due>>
            /\ sources' = [repos |-> repos \ {r}, files |-> files]
            /\ Goto(IF from = {} THEN "unlist" ELSE Activation(requested \ from))
            /\ Begin(IF from = {} THEN "unlist" ELSE "change", requested \ from)
        BY <2>2 DEF RemoveRepository
      <3> HIDE DEF from
      <3> QED BY <3>1 DEF Begin, Ask, Goto, Activation, TypeOK, Places
    <2> QED BY <1>2, <2>1, <2>2
  <1>3. CASE Rebuild
    BY <1>0, <1>3 DEF Rebuild, Begin, Goto, TypeOK, Places, SourceSets
  <1>4. CASE Activate
    <2>1. builds' \in [Versions -> Build \cup {None}] /\ link' \in BOOLEAN /\ inUse' \in Build \cup {None}
      <3>1. ASSUME NEW b \in Resolve(next, sources), builds' = [builds EXCEPT ![booted] = b],
                   link' = TRUE, inUse' = builds'[booted]
            PROVE  builds' \in [Versions -> Build \cup {None}] /\ inUse' \in Build \cup {None}
        BY <3>1, ResolveMakes DEF TypeOK, SourceSets
      <3> QED BY <1>4, <3>1 DEF Activate, TypeOK
    <2>2. pc' \in Places /\ faulted' \subseteq Places
      BY <1>4, FaultType DEF Activate, Goto, Undo, Well, TypeOK, Places
    <2> QED BY <1>4, <2>1, <2>2 DEF Activate, TypeOK
  <1>5. CASE TakeAway
    <2>1. link' \in BOOLEAN /\ inUse' \in Build \cup {None} /\ pc' \in Places
      BY <1>5 DEF TakeAway, Goto, Undo, TypeOK, Places
    <2>2. faulted' \subseteq Places
      BY <1>5, FaultType DEF TakeAway, Well, TypeOK
    <2> QED BY <1>5, <2>1, <2>2 DEF TakeAway, TypeOK
  <1>6. CASE Forget
    <2>1. Empty(TRUE) \/ Empty(FALSE)
      BY <1>6 DEF Forget
    <2> QED BY <1>6, <2>1, EmptyType, FaultType DEF Forget, Goto, Undo, Well, TypeOK, Places
  <1>7. CASE Save \/ Discard \/ List \/ Keep \/ Unlist \/ Drop
    <2>1. CASE Save
      <3>1. byFile' \subseteq requested' /\ requested' \subseteq Names
        BY <2>1 DEF Save, TypeOK, Begun
      <3> QED BY <2>1, <3>1, FaultType DEF Save, Goto, Undo, Well, TypeOK, Places
    <2>2. CASE Discard \/ Drop
      BY <2>2, FaultType DEF Discard, Drop, Goto, Well, TypeOK, Places
    <2>3. CASE List \/ Keep \/ Unlist
      BY <2>3, FaultType DEF List, Keep, Unlist, Goto, Well, TypeOK, Places
    <2> QED BY <1>7, <2>1, <2>2, <2>3
  <1>8. ASSUME NEW v \in Versions, PrepareOne(v) PROVE TypeOK'
    <2>1. builds' \in [Versions -> Build \cup {None}]
      <3>1. ASSUME NEW b \in Resolve(next, sources), builds' = [builds EXCEPT ![v] = b]
            PROVE  builds' \in [Versions -> Build \cup {None}]
        BY <3>1, ResolveMakes DEF TypeOK, SourceSets
      <3> QED BY <1>8, <3>1 DEF PrepareOne, TypeOK
    <2> QED BY <1>8, <2>1, FaultType DEF PrepareOne, Well, TypeOK
  <1>9. CASE Prune
    <2>1. builds' \in [Versions -> Build \cup {None}]
      BY <1>9 DEF Prune, TypeOK
    <2> QED BY <1>9, <2>1, FaultType DEF Prune, Goto, Well, TypeOK, Places
  <1>10. CASE UndoChange
    <2>1. Empty(TRUE) \/ Empty(FALSE) \/ UNCHANGED <<requested, files, repos, builds, byFile>>
      BY <1>10 DEF UndoChange
    <2>2. /\ requested' \subseteq Names /\ files' \subseteq Names /\ repos' \subseteq Repos
          /\ builds' \in [Versions -> Build \cup {None}] /\ byFile' \subseteq requested'
      BY <2>1, EmptyType DEF TypeOK
    <2> QED BY <1>10, <2>2, FaultType DEF UndoChange, Goto, Well, TypeOK, Places
  <1>11. ASSUME NEW v \in Versions, Stage(v) PROVE TypeOK'
    BY <1>11 DEF Stage, TypeOK
  <1>12. ASSUME NEW v \in Versions, Restart(v) PROVE TypeOK'
    <2>1. /\ requested' \subseteq Names /\ files' \subseteq Names /\ repos' \subseteq Repos
          /\ builds' \in [Versions -> Build \cup {None}] /\ byFile' \subseteq requested'
      <3>1. CASE Empty(FALSE)
        BY <3>1, EmptyType
      <3>2. CASE /\ builds' \in {builds} \cup {[builds EXCEPT ![w] = None] : w \in Swapping}
                 /\ UNCHANGED <<requested, files, repos, byFile>>
        BY <3>2 DEF TypeOK, Swapping
      <3> QED BY <1>12, <3>1, <3>2 DEF Restart
    <2>2. link' \in BOOLEAN /\ due' \in BOOLEAN
      BY <1>12, Zenon DEF Restart
    <2>3. inUse' \in Build \cup {None}
      BY <1>12, <2>1 DEF Restart
    <2> QED BY <1>12, <2>1, <2>2, <2>3 DEF Restart, Goto, TypeOK, Places
  <1>13. CASE Waits \/ UNCHANGED vars
    BY <1>13 DEF Waits, vars, TypeOK
  <1> QED BY <1>1, <1>2, <1>3, <1>4, <1>5, <1>6, <1>7, <1>8, <1>9, <1>10, <1>11, <1>12, <1>13
          DEF Next, Work

-----------------------------------------------------------------------------
(* The order of a request's steps, and the list while it is changed. *)

Control == Begun /\ Listed /\ SourcesThere /\ Others

LEMMA ControlInit == Init => Control
  BY DEF Init, Control, Begun, Listed, SourcesThere, Others

LEMMA ControlNext == ASSUME TypeOK, Control, [Next]_vars PROVE Control'
  <1> USE DEF list, system, live, request, counts, Control
  <1> USE SourcesAssumption
  <1>1. ASSUME NEW n \in Names, Install(n) \/ Remove(n) \/ InstallFile(n) PROVE Control'
    <2>1. CASE Install(n)
      BY <2>1 DEF Install, Begin, Ask, Goto, Sources, TypeOK, Begun, Listed, SourcesThere, Others
    <2>2. CASE Remove(n)
      BY <2>2 DEF Remove, Begin, Ask, Goto, Activation, Sources, TypeOK, Begun, Listed, SourcesThere, Others
    <2>3. CASE InstallFile(n)
      BY <2>3 DEF InstallFile, Begin, Ask, Goto, TypeOK, Begun, Listed, SourcesThere, Others
    <2> QED BY <1>1, <2>1, <2>2, <2>3
  <1>2. ASSUME NEW r \in Repos, AddRepository(r) \/ RemoveRepository(r) PROVE Control'
    <2>1. CASE AddRepository(r)
      BY <2>1 DEF AddRepository, Ask, Begun, Listed, SourcesThere, Others
    <2>2. CASE RemoveRepository(r)
      <3> DEFINE from == FromRepository(Merged, r)
      <3>1. /\ Ask /\ leaving' = r /\ file' = None /\ UNCHANGED <<files, due>>
            /\ sources' = [repos |-> repos \ {r}, files |-> files]
            /\ Goto(IF from = {} THEN "unlist" ELSE Activation(requested \ from))
            /\ Begin(IF from = {} THEN "unlist" ELSE "change", requested \ from)
        BY <2>2 DEF RemoveRepository
      <3> HIDE DEF from
      <3> QED BY <3>1 DEF Begin, Ask, Goto, Activation, Begun, Listed, SourcesThere, Others
    <2> QED BY <1>2, <2>1, <2>2
  <1>3. CASE Rebuild
    BY <1>3 DEF Rebuild, Begin, Goto, Sources, TypeOK, Begun, Listed, SourcesThere, Others
  <1>4. CASE Activate
    BY <1>4 DEF Activate, Goto, Undo, TypeOK, Begun, Listed, SourcesThere, Others
  <1>5. CASE TakeAway
    BY <1>5 DEF TakeAway, Goto, Undo, TypeOK, Begun, Listed, SourcesThere, Others
  <1>6. CASE Forget
    BY <1>6 DEF Forget, Empty, Goto, Undo, TypeOK, Begun, Listed, SourcesThere, Others
  <1>7. CASE Save \/ Discard \/ Unlist \/ Drop
    BY <1>7 DEF Save, Discard, Unlist, Drop, Goto, Undo, TypeOK, Begun, Listed, SourcesThere, Others
  <1>8. CASE List \/ Keep
    BY <1>8 DEF List, Keep, Goto, TypeOK, Begun, Listed, SourcesThere, Others
  <1>9. ASSUME NEW v \in Versions, PrepareOne(v) PROVE Control'
    BY <1>9 DEF PrepareOne, Begun, Listed, SourcesThere, Others
  <1>10. CASE Prune
    BY <1>10 DEF Prune, Goto, TypeOK, Begun, Listed, SourcesThere, Others
  <1>11. CASE UndoChange
    BY <1>11 DEF UndoChange, Goto, Begun, Listed, SourcesThere, Others
  <1>12. ASSUME NEW v \in Versions, Stage(v) PROVE Control'
    BY <1>12 DEF Stage, Begun, Listed, SourcesThere, Others
  <1>13. ASSUME NEW v \in Versions, Restart(v) PROVE Control'
    BY <1>13 DEF Restart, Goto, Begun, Listed, SourcesThere, Others
  <1>14. CASE Waits \/ UNCHANGED vars
    BY <1>14 DEF Waits, vars, Begun, Listed, SourcesThere, Others
  <1> QED BY <1>1, <1>2, <1>3, <1>4, <1>5, <1>6, <1>7, <1>8, <1>9, <1>10, <1>11, <1>12, <1>13, <1>14
          DEF Next, Work
-----------------------------------------------------------------------------
(* The builds and the one in use. *)

LEMMA BuildsInit == Init => LinkedIsInUse /\ FilesWereAsked
  BY DEF Init, LinkedIsInUse, FilesWereAsked, NoBuilds

\* A build that was just made is one dnf was given only the right files for.
LEMMA ResolveAsked ==
    ASSUME NEW wanted \in SUBSET Names, NEW s \in SourceSets, NEW b \in Resolve(wanted, s),
           NEW n \in DOMAIN b.from, b.from[n] = "file"
    PROVE  n \in b.requested
  <1>1. b.from[n] \in From(n, wanted, s) /\ b.requested = wanted
    BY ResolveMakes
  <1> QED BY <1>1, SourcesAssumption DEF From, SourceSets

\* Builds only change by making one, or by losing some.
LEMMA BuildsChange ==
    ASSUME TypeOK, [Next]_vars
    PROVE  \A v \in Versions :
              \/ builds'[v] \in {builds[v], None}
              \/ /\ builds'[v] \in Resolve(next, sources)
                 /\ \/ Activate /\ v = booted
                    \/ PrepareOne(v)
  <1> USE DEF list, system, live, request, counts
  <1> SUFFICES ASSUME NEW v \in Versions
               PROVE  \/ builds'[v] \in {builds[v], None}
                      \/ /\ builds'[v] \in Resolve(next, sources)
                         /\ \/ Activate /\ v = booted
                            \/ PrepareOne(v)
    OBVIOUS
  <1>1. CASE Activate
    BY <1>1 DEF Activate, TypeOK
  <1>2. ASSUME NEW w \in Versions, PrepareOne(w)
        PROVE  \/ builds'[v] \in {builds[v], None}
               \/ builds'[v] \in Resolve(next, sources) /\ v = w
    BY <1>2 DEF PrepareOne, TypeOK
  <1>3. CASE Forget \/ UndoChange
    BY <1>3 DEF Forget, UndoChange, Empty, NoBuilds
  <1>4. CASE Prune
    BY <1>4 DEF Prune, TypeOK
  <1>5. ASSUME NEW w \in Versions, Restart(w) PROVE builds'[v] \in {builds[v], None}
    BY <1>5 DEF Restart, Empty, NoBuilds, TypeOK
  <1>6. CASE UNCHANGED builds
    BY <1>6
  <1>7. \/ Activate \/ Forget \/ UndoChange \/ Prune \/ UNCHANGED builds
        \/ \E w \in Versions : PrepareOne(w) \/ Restart(w)
    <2>1. CASE Save \/ TakeAway \/ Discard \/ List \/ Keep \/ Unlist \/ Drop \/ Rebuild \/ Waits
      BY <2>1 DEF Save, TakeAway, Discard, List, Keep, Unlist, Drop, Rebuild, Begin, Waits, vars
    <2>2. CASE \E n \in Names : Install(n) \/ Remove(n) \/ InstallFile(n)
      BY <2>2 DEF Install, Remove, InstallFile, Begin
    <2>3. CASE \E r \in Repos : AddRepository(r) \/ RemoveRepository(r)
      BY <2>3 DEF AddRepository, RemoveRepository, Begin
    <2>4. CASE \E w \in Versions : Stage(w)
      BY <2>4 DEF Stage
    <2> QED BY <2>1, <2>2, <2>3, <2>4 DEF Next, Work, vars
  <1> QED BY <1>1, <1>2, <1>3, <1>4, <1>5, <1>6, <1>7

\* What is in use, and which version runs, only changes by activation and by a restart.
LEMMA LiveChanges ==
    ASSUME [Next]_vars
    PROVE  \/ Activate \/ TakeAway \/ \E v \in Versions : Restart(v)
           \/ UNCHANGED <<live, booted>>
  <1> USE DEF system
  <1>1. CASE Save \/ Discard \/ List \/ Keep \/ Prune \/ Unlist \/ UndoChange \/ Drop
    BY <1>1 DEF Save, Discard, List, Keep, Prune, Unlist, UndoChange, Drop
  <1>2. CASE Forget \/ Rebuild \/ Waits
    BY <1>2 DEF Forget, Rebuild, Begin, Waits, vars
  <1>3. CASE \E n \in Names : Install(n) \/ Remove(n) \/ InstallFile(n)
    BY <1>3 DEF Install, Remove, InstallFile, Begin
  <1>4. CASE \E r \in Repos : AddRepository(r) \/ RemoveRepository(r)
    BY <1>4 DEF AddRepository, RemoveRepository, Begin
  <1>5. CASE \E v \in Versions : PrepareOne(v) \/ Stage(v)
    BY <1>5 DEF PrepareOne, Stage
  <1> QED BY <1>1, <1>2, <1>3, <1>4, <1>5 DEF Next, Work, vars

LEMMA BuildsNext ==
    ASSUME TypeOK, Control, LinkedIsInUse, FilesWereAsked, [Next]_vars
    PROVE  (LinkedIsInUse /\ FilesWereAsked)'
  <1>1. FilesWereAsked'
    <2> SUFFICES ASSUME NEW v \in Versions, builds'[v] # None, NEW n \in DOMAIN builds'[v].from,
                        builds'[v].from[n] = "file"
                 PROVE  n \in builds'[v].requested
      BY DEF FilesWereAsked
    <2>1. CASE builds'[v] = builds[v]
      BY <2>1 DEF FilesWereAsked
    <2>2. CASE builds'[v] \in Resolve(next, sources)
      <3>1. next \in SUBSET Names /\ sources \in SourceSets
        BY DEF TypeOK, SourceSets
      <3> QED BY <2>2, <3>1, ResolveAsked
    <2> QED BY <2>1, <2>2, BuildsChange
  <1>2. LinkedIsInUse'
    <2> SUFFICES ASSUME link', builds'[booted'] # None PROVE inUse' = builds'[booted']
      BY DEF LinkedIsInUse
    <2>1. CASE Activate
      BY <2>1 DEF Activate, live, system, LinkedIsInUse, TypeOK
    <2>2. CASE TakeAway
      BY <2>2 DEF TakeAway, live, system, LinkedIsInUse
    <2>3. ASSUME NEW w \in Versions, Restart(w) PROVE inUse' = builds'[booted']
      BY <2>3 DEF Restart
    <2>4. CASE UNCHANGED <<live, booted>> /\ ~Activate
      <3>1. builds'[booted] \in {builds[booted], None}
        <4>1. booted \in Versions
          BY DEF TypeOK
        <4>2. ~PrepareOne(booted)
          BY DEF PrepareOne, Control, Others
        <4> QED BY <2>4, <4>1, <4>2, BuildsChange
      <3> QED BY <2>4, <3>1 DEF live, LinkedIsInUse
    <2> QED BY <2>1, <2>2, <2>3, <2>4, LiveChanges
  <1> QED BY <1>1, <1>2
-----------------------------------------------------------------------------
(* A request that goes well: its build is current until it ends, or none is in use. *)

Current == BuildIsCurrent /\ NoneInUse /\ UnlistsUnused /\ DoneIsCurrent

LEMMA CurrentInit == Init => Current
  BY DEF Init, Current, BuildIsCurrent, NoneInUse, UnlistsUnused, DoneIsCurrent, Acted

\* A current build stays one when nothing it needs goes away.
LEMMA CoverGrows ==
    ASSUME NEW s \in SourceSets, NEW t \in SourceSets, NEW b, Cover(s, b), s.repos \subseteq t.repos,
           \A n \in DOMAIN b.from : b.from[n] = "file" /\ n \in s.files => n \in t.files
    PROVE  Cover(t, b)
  BY DEF Cover

LEMMA ActivateMakes ==
    ASSUME TypeOK, Control, Activate, pc' \in Acted
    PROVE  /\ builds'[booted] # None /\ builds'[booted].requested = next
           /\ Cover([repos |-> repos \ {leaving}, files |-> files], builds'[booted])
           /\ link' /\ inUse' = builds'[booted]
  <1>1. next \in SUBSET Names /\ sources \in SourceSets /\ booted \in Versions
    BY DEF TypeOK, SourceSets
  <1>2. PICK b \in Resolve(next, sources) : builds' = [builds EXCEPT ![booted] = b]
    BY DEF Activate, Undo, Goto, Acted
  <1>3. link' = TRUE /\ inUse' = builds'[booted]
    BY DEF Activate, Undo, Goto, Acted
  <1>4. builds'[booted] = b
    BY <1>1, <1>2 DEF TypeOK
  <1>5. [repos |-> repos \ {leaving}, files |-> files] \in SourceSets
    BY DEF TypeOK, SourceSets
  <1>6. Cover([repos |-> repos \ {leaving}, files |-> files], b)
    BY <1>1, <1>5, ResolveCovers DEF Activate, Control, SourcesThere
  <1> QED BY <1>1, <1>3, <1>4, <1>6, ResolveMakes

\* What is left of the sources once `leaving' is gone.
Left == [repos |-> repos \ {leaving}, files |-> files]

LEMMA LeftType == ASSUME TypeOK PROVE Left \in SourceSets
  BY DEF TypeOK, Left, SourceSets

LEMMA CurrentNext ==
    ASSUME TypeOK, Control, FilesWereAsked, Current, [Next]_vars PROVE Current'
  <1> USE DEF list, system, live, request, counts
  <1>a. None \notin repos /\ booted \in Versions
    BY SourcesAssumption DEF TypeOK
  <1>b. ASSUME pc' \notin Acted \cup {"idle", "forget"} PROVE Current'
    BY <1>b DEF Current, BuildIsCurrent, NoneInUse, UnlistsUnused, DoneIsCurrent, Acted
  <1>c. ASSUME pc' = "idle", outcome' # "done" PROVE Current'
    BY <1>c DEF Current, BuildIsCurrent, NoneInUse, UnlistsUnused, DoneIsCurrent, Acted
  <1>1. ASSUME NEW n \in Names, Install(n) \/ Remove(n) \/ InstallFile(n) PROVE Current'
    <2>1. pc' \in {"undo", "activate", "takeaway"}
      BY <1>1 DEF Install, Remove, InstallFile, Activation, Goto
    <2> QED BY <2>1, <1>b DEF Acted
  <1>2. ASSUME NEW r \in Repos, AddRepository(r) PROVE Current'
    BY <1>2, <1>c DEF AddRepository, Ask
  <1>3. ASSUME NEW r \in Repos, RemoveRepository(r) PROVE Current'
    <2> DEFINE from == FromRepository(Merged, r)
    <2>1. /\ leaving' = r /\ UNCHANGED <<builds, booted, link>>
          /\ pc' = (IF from = {} THEN "unlist" ELSE Activation(requested \ from))
          /\ op' = (IF from = {} THEN "unlist" ELSE "change")
      BY <1>3 DEF RemoveRepository, Goto, Begin
    <2>2. CASE from = {}
      <3>1. FromRepository(Merged, leaving)' = {}
        BY <2>1, <2>2 DEF FromRepository, Merged
      <3> QED BY <2>1, <2>2, <3>1
              DEF Current, BuildIsCurrent, NoneInUse, UnlistsUnused, DoneIsCurrent, Acted
    <2>3. CASE from # {}
      <3>1. pc' \in {"activate", "takeaway"}
        BY <2>1, <2>3 DEF Activation
      <3> QED BY <3>1, <1>b DEF Acted
    <2> QED BY <2>2, <2>3
  <1>4. CASE Rebuild
    <2>1. CASE pc' = "idle"
      BY <1>4, <2>1, <1>c DEF Rebuild, Begin
    <2>2. CASE pc' = "activate"
      BY <2>2, <1>b DEF Acted
    <2>3. CASE pc' = "list"
      <3>1. /\ requested # {} /\ CurrentFor(builds, booted, requested, Sources)
            /\ next' = requested /\ op' = "rebuild" /\ leaving' = None
            /\ UNCHANGED <<requested, repos, files, builds, booted>>
        BY <1>4, <2>3 DEF Rebuild, Begin, Goto
      <3>2. Left' = Sources
        BY <3>1, <1>a DEF Left, Sources
      <3>3. Cover(Left', builds'[booted'])
        BY <3>1, <3>2 DEF CurrentFor
      <3> QED BY <2>3, <3>1, <3>3
              DEF Current, BuildIsCurrent, NoneInUse, UnlistsUnused, DoneIsCurrent, Acted, CurrentFor, Left
    <2> QED BY <1>4, <2>1, <2>2, <2>3 DEF Rebuild, Goto
  <1>5. CASE Activate
    <2>1. pc' \in {"list", "save", "drop", "undo"} /\ next # {}
      BY <1>5 DEF Activate, Goto, Undo, Control, Listed
    <2>2. CASE pc' \in Acted
      <3>1. UNCHANGED <<list, booted, request>>
        BY <1>5 DEF Activate
      <3> QED BY <1>5, <2>1, <2>2, <3>1, ActivateMakes
              DEF Current, BuildIsCurrent, NoneInUse, UnlistsUnused, DoneIsCurrent
    <2>3. CASE pc' \notin Acted
      BY <2>1, <2>3, <1>b
    <2> QED BY <2>2, <2>3
  <1>6. CASE TakeAway
    <2>1. CASE pc' = "forget"
      BY <1>6, <2>1 DEF TakeAway, Goto, Undo, Control, Begun,
         Current, BuildIsCurrent, NoneInUse, UnlistsUnused, DoneIsCurrent, Acted
    <2>2. CASE pc' # "forget"
      BY <1>6, <2>2, <1>b DEF TakeAway, Goto, Undo, Acted
    <2> QED BY <2>1, <2>2
  <1>7. CASE Forget
    <2>1. CASE pc' = "save"
      BY <1>7, <2>1 DEF Forget, Control, Listed,
         Current, BuildIsCurrent, NoneInUse, UnlistsUnused, DoneIsCurrent, Acted
    <2>2. CASE pc' # "save"
      BY <1>7, <2>2, <1>b DEF Forget, Goto, Undo, Acted
    <2> QED BY <2>1, <2>2
  <1>8. CASE Save
    <2>1. CASE pc' = "discard"
      <3>1. UNCHANGED <<builds, booted, next, repos, leaving, files, op, inUse, link>> /\ pc = "save"
        BY <1>8 DEF Save
      <3>2. op # "unlist"
        BY <3>1 DEF Control, Begun
      <3> QED BY <2>1, <3>1, <3>2
              DEF Current, BuildIsCurrent, NoneInUse, UnlistsUnused, DoneIsCurrent, Acted
    <2>2. CASE pc' # "discard"
      BY <1>8, <2>2, <1>b DEF Save, Goto, Undo, Acted
    <2> QED BY <2>1, <2>2
  <1>9. CASE Discard
    <2>1. CASE pc' = "list"
      <3>1. /\ UNCHANGED <<builds, booted, next, repos, leaving, op, inUse, link, outcome>>
            /\ files' = files \ (current \ next) /\ pc = "discard"
        BY <1>9, <2>1 DEF Discard, Goto
      <3>2. op = "change"
        BY <3>1 DEF Control, Begun
      <3>3. CASE next # {}
        <4>1. /\ builds[booted] # None /\ builds[booted].requested = next
              /\ Cover(Left, builds[booted]) /\ link /\ inUse = builds[booted]
          BY <3>1, <3>2, <3>3 DEF Current, BuildIsCurrent, Acted, Left
        <4>2. Left \in SourceSets /\ Left' \in SourceSets
          BY <3>1 DEF Left, SourceSets, TypeOK
        <4>3. \A n \in DOMAIN builds[booted].from :
                 builds[booted].from[n] = "file" /\ n \in Left.files => n \in Left'.files
          BY <1>a, <3>1, <4>1 DEF FilesWereAsked, Left
        <4>4. Cover(Left', builds[booted])
          BY <3>1, <4>1, <4>2, <4>3, CoverGrows DEF Left
        <4> QED BY <2>1, <3>1, <3>2, <3>3, <4>1, <4>4
                DEF Current, BuildIsCurrent, NoneInUse, UnlistsUnused, DoneIsCurrent, Acted, Left
      <3>4. CASE next = {}
        BY <2>1, <3>1, <3>2, <3>4
           DEF Current, BuildIsCurrent, NoneInUse, UnlistsUnused, DoneIsCurrent, Acted
      <3> QED BY <3>3, <3>4
    <2>2. CASE pc' # "list"
      BY <1>9, <2>2, <1>b DEF Discard, Goto, Acted
    <2> QED BY <2>1, <2>2
  <1>10. ASSUME \/ List \/ Keep \/ \E v \in Versions : PrepareOne(v)
         PROVE  Current'
    <2>1. CASE pc' \in {"others", "prune"}
      <3>1. /\ UNCHANGED <<booted, next, repos, files, leaving, op, inUse, link, outcome>>
            /\ pc \in {"list", "others"}
        BY <1>10 DEF List, Keep, PrepareOne
      <3>2. builds'[booted] = builds[booted]
        BY <1>10, <1>a DEF List, Keep, PrepareOne, Control, Others, TypeOK
      <3> QED BY <2>1, <3>1, <3>2
              DEF Current, BuildIsCurrent, NoneInUse, UnlistsUnused, DoneIsCurrent, Acted
    <2>2. CASE pc' \notin {"others", "prune"}
      BY <1>10, <2>2, <1>b DEF List, Keep, PrepareOne, Goto, Acted
    <2> QED BY <2>1, <2>2
  <1>11. CASE Prune
    <2>1. CASE pc' \in {"unlist", "idle"}
      <3>1. /\ UNCHANGED <<booted, requested, next, repos, files, leaving, op, inUse, link>>
            /\ pc = "prune" /\ builds'[booted] = builds[booted]
        BY <1>11, <1>a, <2>1 DEF Prune, Goto, Control, Others, TypeOK
      <3>2. op # "unlist" /\ requested = next
        BY <3>1 DEF Control, Begun, Listed
      <3>3. CASE pc' = "unlist"
        BY <3>1, <3>2, <3>3 DEF Current, BuildIsCurrent, NoneInUse, UnlistsUnused, DoneIsCurrent, Acted
      <3>4. CASE pc' = "idle"
        <4>1. leaving = None
          BY <1>11, <3>4 DEF Prune, Goto
        <4>2. Left = Sources'
          BY <1>a, <3>1, <4>1 DEF Left, Sources
        <4> QED BY <3>1, <3>2, <3>4, <4>2 DEF Current, BuildIsCurrent, NoneInUse, UnlistsUnused,
                   DoneIsCurrent, Ready, CurrentFor, Acted, Left
      <3> QED BY <2>1, <3>3, <3>4
    <2>2. CASE pc' \notin {"unlist", "idle"}
      BY <1>11, <2>2, <1>b DEF Prune, Goto, Acted
    <2> QED BY <2>1, <2>2
  <1>12. CASE Unlist
    <2>1. CASE outcome' # "done"
      BY <1>12, <2>1, <1>c DEF Unlist, Goto
    <2>2. CASE outcome' = "done"
      <3>1. /\ UNCHANGED <<builds, booted, requested, next, files, op, inUse, link>>
            /\ pc = "unlist" /\ pc' = "idle" /\ repos' = repos \ {leaving} /\ op # "unlist"
        BY <1>12, <2>2 DEF Unlist, Goto, Control, Begun
      <3>2. requested = next /\ Left = Sources'
        BY <3>1 DEF Control, Listed, Left, Sources
      <3> QED BY <3>1, <3>2 DEF Current, BuildIsCurrent, NoneInUse, UnlistsUnused,
                 DoneIsCurrent, Ready, CurrentFor, Acted, Left
    <2> QED BY <2>1, <2>2
  <1>13. CASE UndoChange
    BY <1>13, <1>b DEF UndoChange, Goto, Acted
  <1>14. CASE Drop
    BY <1>14, <1>c DEF Drop, Goto
  <1>15. ASSUME NEW v \in Versions, Restart(v) PROVE Current'
    BY <1>15, <1>c DEF Restart, Goto
  <1>16. ASSUME (\E v \in Versions : Stage(v)) \/ Waits \/ UNCHANGED vars PROVE Current'
    <2>1. UNCHANGED <<requested, files, repos, builds, booted, link, inUse, pc, op, current, next, leaving,
                      outcome>>
      BY <1>16 DEF Stage, Waits, vars
    <2> QED BY <2>1 DEF Current, BuildIsCurrent, NoneInUse, UnlistsUnused, DoneIsCurrent, Acted,
               Ready, CurrentFor, Sources, FromRepository, Merged
  <1> QED BY <1>1, <1>2, <1>3, <1>4, <1>5, <1>6, <1>7, <1>8, <1>9, <1>10, <1>11, <1>12, <1>13, <1>14,
             <1>15, <1>16 DEF Next, Work
-----------------------------------------------------------------------------
(* Package files. *)

LEMMA FiledInit == Init => Filed
  BY DEF Init, Filed

LEMMA FiledNext == ASSUME TypeOK, Control, Filed, [Next]_vars PROVE Filed'
  <1> USE DEF list, system, live, request, counts
  <1>a. None \notin files /\ (file # None => file \in next)
    BY SourcesAssumption DEF TypeOK, Control, Begun
  <1>1. ASSUME NEW n \in Names, Install(n) \/ Remove(n) \/ InstallFile(n) PROVE Filed'
    BY <1>1 DEF Install, Remove, InstallFile, Begin, Ask, Activation, Goto, Filed, Unspoilt
  <1>2. ASSUME NEW r \in Repos, AddRepository(r) \/ RemoveRepository(r) PROVE Filed'
    <2>1. CASE AddRepository(r)
      BY <2>1 DEF AddRepository, Ask, Filed, Unspoilt
    <2>2. CASE RemoveRepository(r)
      <3>1. /\ pc = "idle" /\ pc' \in {"unlist", "activate", "takeaway"}
            /\ UNCHANGED <<requested, files, restarts, faulted>>
        BY <2>2 DEF RemoveRepository, Ask, Activation, Goto, Begin
      <3> QED BY <3>1 DEF Filed, Unspoilt
    <2> QED BY <1>2, <2>1, <2>2
  <1>3. CASE Rebuild
    BY <1>3 DEF Rebuild, Begin, Goto, Filed, Unspoilt
  <1>4. CASE Activate \/ TakeAway
    <2>1. /\ pc \in {"activate", "takeaway"} /\ pc' \in {"save", "list", "forget", "undo", "drop"}
          /\ UNCHANGED <<requested, files, file, restarts>> /\ faulted \subseteq faulted'
          /\ pc' = "list" => pc = "activate" /\ op = "rebuild"
      BY <1>4 DEF Activate, TakeAway, Goto, Undo, Fault, Well, Control, Begun
    <2>2. pc' = "list" => file = None
      BY <2>1 DEF Control, Begun
    <2>3. Unspoilt' => Unspoilt
      BY <2>1 DEF Unspoilt
    <2>4. Unspoilt' /\ pc' = "list" => files' \subseteq requested'
      BY <1>a, <2>1, <2>2, <2>3 DEF Filed
    <2> QED BY <2>1, <2>3, <2>4 DEF Filed
  <1>5. CASE Forget
    <2>1. CASE Empty(TRUE) /\ Goto("save")
      BY <2>1 DEF Empty, Goto, Filed
    <2>2. CASE Fault
      BY <1>5, <2>2 DEF Forget, Fault, Filed, Unspoilt
    <2> QED BY <1>5, <2>1, <2>2 DEF Forget
  <1>6. CASE Save
    <2>1. CASE requested' = next /\ pc' = "discard" /\ faulted' = faulted
      <3>1. pc = "save" /\ UNCHANGED <<files, file, current, next, restarts>> /\ requested \subseteq current
        BY <1>6 DEF Save, Control, Listed
      <3>2. Unspoilt' => files \subseteq current \cup {file}
        BY <2>1, <3>1 DEF Filed, Unspoilt
      <3>3. Unspoilt' => files \subseteq next \cup (current \ next)
        BY <1>a, <3>2
      <3> QED BY <2>1, <3>1, <3>3 DEF Filed
    <2>2. CASE Fault
      <3>1. /\ pc = "save" /\ UNCHANGED <<files, file, restarts, op>> /\ faulted \subseteq faulted'
            /\ \/ requested' = requested /\ pc' = "undo"
               \/ faulted' = faulted /\ requested' = next /\ pc' = "discard"
        BY <1>6, <2>2 DEF Save, Fault, Well, Undo, Goto, Control, Begun
      <3>2. Unspoilt' => Unspoilt
        BY <3>1 DEF Unspoilt
      <3>3. CASE requested' = requested /\ pc' = "undo"
        BY <3>1, <3>2, <3>3 DEF Filed
      <3>4. CASE faulted' = faulted /\ requested' = next /\ pc' = "discard"
        BY <2>1, <3>4
      <3> QED BY <3>1, <3>3, <3>4
    <2> QED BY <1>6, <2>1, <2>2 DEF Save, Goto, Well
  <1>7. CASE Discard
    <2>1. CASE Fault
      BY <1>7, <2>1 DEF Discard, Fault, Filed, Unspoilt
    <2>2. CASE files' = files \ (current \ next) /\ pc' = "list" /\ faulted' = faulted
      BY <1>7, <2>2 DEF Discard, Filed, Unspoilt, Control, Listed, Begun
    <2> QED BY <1>7, <2>1, <2>2 DEF Discard, Goto, Well
  <1>8. CASE List \/ Keep \/ Prune \/ Unlist
    <2>1. /\ pc \in {"list", "others", "prune", "unlist"} /\ UNCHANGED <<requested, files, file, restarts>>
          /\ faulted \subseteq faulted' /\ pc' \in {"others", "prune", "unlist", "drop", "idle"}
      BY <1>8 DEF List, Keep, Prune, Unlist, Goto, Fault, Well
    <2> QED BY <2>1 DEF Filed, Unspoilt
  <1>9. ASSUME NEW v \in Versions, PrepareOne(v) PROVE Filed'
    <2>1. /\ pc = "others" /\ UNCHANGED <<requested, files, file, restarts, pc>> /\ faulted \subseteq faulted'
      BY <1>9 DEF PrepareOne, Fault, Well
    <2> QED BY <2>1 DEF Filed, Unspoilt
  <1>10. CASE UndoChange
    <2>1. CASE Fault
      BY <1>10, <2>1 DEF UndoChange, Fault, Filed, Unspoilt
    <2>2. CASE Empty(TRUE) /\ pc' = "drop"
      BY <2>2 DEF Empty, Filed
    <2>3. CASE UNCHANGED <<requested, files, faulted>> /\ pc' = "drop"
      BY <1>10, <2>3 DEF UndoChange, Filed, Unspoilt
    <2> QED BY <1>10, <2>1, <2>2, <2>3 DEF UndoChange, Goto, Well
  <1>11. CASE Drop
    <2>1. CASE Fault
      BY <1>11, <2>1 DEF Drop, Fault, Filed, Unspoilt
    <2>2. CASE files' = files \ {file} /\ faulted' = faulted
      BY <1>11, <2>2 DEF Drop, Goto, Filed, Unspoilt
    <2> QED BY <1>11, <2>1, <2>2 DEF Drop, Well
  <1>12. ASSUME NEW v \in Versions, Restart(v) PROVE Filed'
    BY <1>12 DEF Restart, Filed, Unspoilt, TypeOK
  <1>13. ASSUME (\E v \in Versions : Stage(v)) \/ Waits \/ UNCHANGED vars PROVE Filed'
    BY <1>13 DEF Stage, Waits, vars, Filed, Unspoilt
  <1> QED BY <1>1, <1>2, <1>3, <1>4, <1>5, <1>6, <1>7, <1>8, <1>9, <1>10, <1>11, <1>12, <1>13 DEF Next, Work

-----------------------------------------------------------------------------
(* What install_file drops. *)

\* A file is only kept for a package that isn't listed, and once it is, only a later step fails.
LEMMA DroppedNext == ASSUME TypeOK, Control, Dropped, [Next]_vars PROVE Dropped'
  <1> USE DEF list, system, live, request, counts
  <1>1. file' # None => file' \notin current'
    <2>1. CASE UNCHANGED request
      BY <2>1 DEF Dropped
    <2>2. ASSUME NEW n \in Names, Install(n) \/ Remove(n) \/ InstallFile(n)
          PROVE  file' # None => file' \notin current'
      BY <2>2 DEF Install, Remove, InstallFile, Begin
    <2>3. ASSUME NEW r \in Repos, RemoveRepository(r) PROVE file' = None
      BY <2>3 DEF RemoveRepository
    <2>4. CASE Rebuild
      BY <2>4 DEF Rebuild
    <2>5. CASE \/ Work \/ Waits \/ UNCHANGED vars \/ \E r \in Repos : AddRepository(r)
               \/ \E v \in Versions : Stage(v) \/ Restart(v)
      BY <2>1, <2>5 DEF Work, Activate, TakeAway, Forget, Save, Discard, List, PrepareOne, Keep, Prune,
                        Unlist, UndoChange, Drop, Waits, vars, AddRepository, Stage, Restart
    <2> QED BY <2>2, <2>3, <2>4, <2>5 DEF Next
  <1>2. ASSUME pc' = "drop" PROVE requested' \subseteq current' \/ faulted' \cap SavedThenFails # {}
    <2>1. CASE UNCHANGED <<pc, requested, current, faulted>>
      BY <1>2, <2>1 DEF Dropped
    <2>2. CASE Activate
      BY <1>2, <2>2 DEF Activate, Goto, Control, Listed
    <2>3. CASE UndoChange
      <3>1. requested' \subseteq requested /\ current' = current /\ pc = "undo"
        BY <2>3 DEF UndoChange, Empty
      <3> QED BY <3>1 DEF Control, Listed
    <2>4. CASE Discard \/ Keep \/ Prune
      <3>1. pc \in SavedThenFails /\ pc \in faulted'
        BY <1>2, <2>4 DEF Discard, Keep, Prune, Goto, Fault, SavedThenFails
      <3> QED BY <3>1
    <2>5. CASE TakeAway \/ Forget \/ Save \/ List \/ Unlist \/ Drop
      BY <1>2, <2>5 DEF TakeAway, Forget, Save, List, Unlist, Drop, Goto, Undo, Control, Begun
    <2>6. ASSUME NEW v \in Versions, PrepareOne(v) \/ Restart(v) PROVE FALSE
      BY <1>2, <2>6 DEF PrepareOne, Restart, Goto
    <2>7. ASSUME NEW n \in Names, Install(n) \/ Remove(n) \/ InstallFile(n) PROVE FALSE
      BY <1>2, <2>7 DEF Install, Remove, InstallFile, Goto, Activation
    <2>8. ASSUME NEW r \in Repos, RemoveRepository(r) PROVE FALSE
      BY <1>2, <2>8 DEF RemoveRepository, Goto, Activation
    <2>9. CASE Rebuild
      BY <1>2, <2>9 DEF Rebuild, Goto
    <2>10. CASE \/ Waits \/ UNCHANGED vars \/ \E r \in Repos : AddRepository(r)
                \/ \E v \in Versions : Stage(v)
      BY <2>1, <2>10 DEF Waits, vars, AddRepository, Stage
    <2> QED BY <2>2, <2>3, <2>4, <2>5, <2>6, <2>7, <2>8, <2>9, <2>10 DEF Next, Work
  <1> QED BY <1>1, <1>2 DEF Dropped

-----------------------------------------------------------------------------
(* The invariant and what follows from it. *)

\* What the properties of a request rest on holds through every step, failure, staged version and
\* restart.
THEOREM SourcesInvariance == Spec => []SourcesInv
  <1> DEFINE I == TypeOK /\ Control /\ LinkedIsInUse /\ FilesWereAsked /\ Current /\ Filed /\ Dropped
  <1>1. Init => I
    BY TypeInit, ControlInit, BuildsInit, CurrentInit, FiledInit DEF Init, Dropped
  <1>2. I /\ [Next]_vars => I'
    BY TypeNext, ControlNext, BuildsNext, CurrentNext, FiledNext, DroppedNext DEF Control
  <1>3. I => SourcesInv
    BY DEF SourcesInv, Control, Current
  <1> HIDE DEF I
  <1> QED BY <1>1, <1>2, <1>3, PTL DEF Spec

\* The state of luft-packages stays what its files can hold.
THEOREM SourcesTyping == Spec => []TypeOK
  <1>1. SourcesInv => TypeOK
    BY DEF SourcesInv
  <1> QED BY <1>1, SourcesInvariance, PTL

\* A change or rebuild that was reported done left a current build, or none for an empty list.
THEOREM DoneMeansCurrent == Spec => []DoneIsCurrent
  <1>1. SourcesInv => DoneIsCurrent
    BY DEF SourcesInv
  <1> QED BY <1>1, SourcesInvariance, PTL

\* Unless the computer stopped or a file couldn't be removed, no file is kept that isn't needed.
THEOREM NoFileStrays == Spec => []NoStrayFiles
  <1>1. SourcesInv => NoStrayFiles
    BY DEF SourcesInv, Filed, Unspoilt, NoStrayFiles
  <1> QED BY <1>1, SourcesInvariance, PTL

\* The file of a package that stays in the list is only deleted with everything else, or by an
\* InstallFile that saved the list and had a later step fail.
THEOREM FilesAreKept == Spec => FilesStay
  <1> DEFINE Kept == byFile \cap requested' \cap files \subseteq files'
  <1> DEFINE Excused ==
        \/ pc = "forget"
        \/ pc = "drop" /\ ~(requested \subseteq current) /\ faulted \cap SavedThenFails # {}
  <1>1. SourcesInv /\ [Next]_vars => [Kept \/ Excused]_vars
    <2> USE DEF list, system, live, request, counts
    <2> SUFFICES ASSUME SourcesInv, [Next]_vars, ~Excused PROVE Kept
      OBVIOUS
    <2>1. CASE Discard
      <3>1. requested' = next /\ files \ (current \ next) \subseteq files'
        BY <2>1 DEF Discard, SourcesInv, Listed, Begun
      <3> QED BY <3>1
    <2>2. CASE files \subseteq files'
      BY <2>2
    <2>3. CASE Drop
      <3>1. requested \subseteq current /\ (file # None => file \notin current)
        BY <2>3 DEF Drop, SourcesInv, Dropped
      <3>2. requested' = requested /\ files \ {file} \subseteq files' /\ requested \subseteq Names
        BY <2>3 DEF Drop, SourcesInv, TypeOK
      <3>3. file \notin requested
        BY <3>1, <3>2, SourcesAssumption
      <3> QED BY <3>2, <3>3
    <2>4. CASE pc = "undo" /\ current = {}
      BY <2>4 DEF SourcesInv, Listed, TypeOK
    <2>5. Discard \/ Drop \/ (pc = "undo" /\ current = {}) \/ files \subseteq files'
      <3>1. CASE Activate \/ TakeAway \/ Save \/ List \/ Keep \/ Prune \/ Unlist \/ Rebuild \/ Waits
        BY <3>1 DEF Activate, TakeAway, Save, List, Keep, Prune, Unlist, Rebuild, Waits, vars
      <3>2. CASE Forget \/ UndoChange
        BY <3>2 DEF Forget, UndoChange
      <3>3. CASE \E n \in Names : Install(n) \/ Remove(n) \/ InstallFile(n)
        BY <3>3 DEF Install, Remove, InstallFile
      <3>4. CASE \E r \in Repos : AddRepository(r) \/ RemoveRepository(r)
        BY <3>4 DEF AddRepository, RemoveRepository
      <3>5. CASE \E v \in Versions : PrepareOne(v) \/ Stage(v)
        BY <3>5 DEF PrepareOne, Stage
      <3>6. CASE \E v \in Versions : Restart(v)
        BY <3>6 DEF Restart
      <3> QED BY <3>1, <3>2, <3>3, <3>4, <3>5, <3>6 DEF Next, Work, vars
    <2> QED BY <2>1, <2>2, <2>3, <2>4, <2>5
  <1> QED BY <1>1, SourcesInvariance, PTL DEF Spec, FilesStay

\* Whatever fails and whichever version is started, the running system doesn't come to use a
\* package from a repository that isn't there, but for the two errors InUseHasSources names.
THEOREM SourcesOutliveUse == Spec => InUseHasSources
  <1> DEFINE Excused == (pc = "undo" /\ current = {}) \/ (pc = "unlist" /\ Merged = None)
  <1>1. SourcesInv /\ [Next]_vars => [HasSources /\ ~HasSources' => Excused]_vars
    <2> USE DEF list, system, live, request, counts
    <2> SUFFICES ASSUME SourcesInv, [Next]_vars, HasSources, ~Excused PROVE HasSources'
      OBVIOUS
    <2> SUFFICES ASSUME NEW x \in Repos, x \notin repos' PROVE FromRepository(inUse', x) = {}
      BY DEF HasSources, FromRepository
    <2>a. TypeOK /\ Control /\ [Next]_vars
      BY DEF SourcesInv, Control
    <2>b. CASE inUse' = None
      BY <2>b DEF FromRepository
    <2>c. CASE inUse' = inUse /\ repos \subseteq repos'
      BY <2>c DEF HasSources
    <2>1. CASE Activate
      <3>1. CASE UNCHANGED live
        BY <2>1, <2>c, <3>1 DEF Activate
      <3>2. CASE ~UNCHANGED live
        <4>1. next \in SUBSET Names /\ sources \in SourceSets /\ booted \in Versions
          BY <2>a DEF TypeOK, SourceSets
        <4>2. PICK b \in Resolve(next, sources) : inUse' = b
          <5>1. PICK b \in Resolve(next, sources) :
                   builds' = [builds EXCEPT ![booted] = b] /\ inUse' = builds'[booted]
            BY <2>1, <3>2 DEF Activate
          <5> QED BY <4>1, <5>1, <2>a DEF TypeOK
        <4>3. sources.repos \subseteq repos /\ repos' = repos
          BY <2>1, <2>a DEF Activate, Control, SourcesThere
        <4>4. b # None /\ Cover(sources, b)
          BY <4>1, <4>2, ResolveMakes, ResolveCovers
        <4> QED BY <4>1, <4>2, <4>3, <4>4, CoveredLacks
      <3> QED BY <3>1, <3>2
    <2>2. CASE TakeAway
      BY <2>2, <2>b, <2>c DEF TakeAway
    <2>3. CASE Forget
      BY <2>3, <2>b DEF Forget, SourcesInv, NoneInUse
    <2>4. CASE UndoChange
      BY <2>4, <2>c DEF UndoChange
    <2>5. CASE Unlist
      <3>1. inUse' = inUse /\ pc = "unlist" /\ Merged # None /\ repos \ {leaving} \subseteq repos'
        BY <2>5 DEF Unlist
      <3>2. link /\ inUse = builds[booted] /\ builds[booted] # None
        BY <3>1 DEF Merged, SourcesInv, LinkedIsInUse
      <3>3. CASE x # leaving
        BY <3>1, <3>3 DEF HasSources
      <3>4. CASE x = leaving /\ op = "unlist"
        <4>1. FromRepository(inUse, leaving) = {}
          BY <3>1, <3>2, <3>4 DEF SourcesInv, UnlistsUnused, Merged
        <4> QED BY <3>1, <3>4, <4>1
      <3>5. CASE x = leaving /\ op # "unlist"
        <4>1. next # {}
          BY <3>1, <3>2, <3>5, SourcesAssumption DEF SourcesInv, NoneInUse, Acted
        <4>2. Cover(Left, builds[booted]) /\ Left \in SourceSets
          BY <2>a, <3>1, <3>5, <4>1, LeftType DEF SourcesInv, BuildIsCurrent, Acted, Left
        <4>3. leaving \notin Left.repos
          BY DEF Left
        <4> QED BY <3>1, <3>2, <3>5, <4>2, <4>3, CoveredLacks
      <3> QED BY <3>3, <3>4, <3>5
    <2>6. ASSUME NEW v \in Versions, Restart(v) PROVE FromRepository(inUse', x) = {}
      <3>1. CASE link'
        <4>1. inUse' = builds'[v] /\ CurrentFor(builds', v, requested', Sources')
          BY <2>6, <3>1 DEF Restart
        <4>2. Sources' \in SourceSets
          <5>1. TypeOK'
            BY <2>a, TypeNext DEF Control
          <5>2. repos' \in SUBSET Repos /\ files' \in SUBSET Names
            BY <5>1 DEF TypeOK
          <5> QED BY <5>2 DEF Sources, SourceSets
        <4>3. x \notin Sources'.repos
          BY DEF Sources
        <4> QED BY <4>1, <4>2, <4>3, CoveredLacks DEF CurrentFor
      <3>2. CASE ~link'
        BY <2>6, <2>b, <3>2 DEF Restart
      <3> QED BY <3>1, <3>2
    <2>7. \/ Activate \/ TakeAway \/ Forget \/ UndoChange \/ Unlist \/ \E v \in Versions : Restart(v)
          \/ inUse' = inUse /\ repos \subseteq repos'
      <3>1. CASE Save \/ Discard \/ List \/ Keep \/ Prune \/ Drop \/ Rebuild \/ Waits
        BY <3>1 DEF Save, Discard, List, Keep, Prune, Drop, Rebuild, Begin, Waits, vars
      <3>2. CASE \E n \in Names : Install(n) \/ Remove(n) \/ InstallFile(n)
        BY <3>2 DEF Install, Remove, InstallFile, Begin
      <3>3. CASE \E r \in Repos : AddRepository(r) \/ RemoveRepository(r)
        BY <3>3 DEF AddRepository, RemoveRepository, Begin
      <3>4. CASE \E v \in Versions : PrepareOne(v) \/ Stage(v)
        BY <3>4 DEF PrepareOne, Stage
      <3> QED BY <3>1, <3>2, <3>3, <3>4 DEF Next, Work, vars
    <2> QED BY <2>c, <2>1, <2>2, <2>3, <2>4, <2>5, <2>6, <2>7
  <1> QED BY <1>1, SourcesInvariance, PTL DEF Spec, InUseHasSources
=============================================================================
