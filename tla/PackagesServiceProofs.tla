----------------------- MODULE PackagesServiceProofs ------------------------
(***************************************************************************)
(* What the busy flag, the lock file and the idle count of luft-packages   *)
(* promise, for any number of calls.                                       *)
(***************************************************************************)
EXTENDS PackagesService, FiniteSetTheorems, TLAPS

-----------------------------------------------------------------------------
(* Type correctness. *)

LEMMA GoType ==
    ASSUME pc \in [Calls -> Places], NEW c \in Calls, NEW place \in Places, Go(c, place)
    PROVE  /\ pc' \in [Calls -> Places] /\ pc'[c] = place
           /\ \A d \in Calls \ {c} : pc'[d] = pc[d]
  BY DEF Go

LEMMA WantedType ==
    ASSUME TypeOK, NEW c \in Calls PROVE Wanted(c) \in SUBSET Packages
  <1>1. read[c] \in SUBSET Packages /\ (kind[c] \in Changes => name[c] \in Packages)
    BY DEF TypeOK
  <1>2. CASE kind[c] = "install"
    BY <1>1, <1>2 DEF Wanted, Changes
  <1>3. CASE kind[c] = "remove"
    BY <1>1, <1>3 DEF Wanted
  <1>4. CASE kind[c] \notin {"install", "remove"}
    BY <1>1, <1>4 DEF Wanted
  <1> QED BY <1>2, <1>3, <1>4

LEMMA TypeInit == Init => TypeOK
  <1> SUFFICES ASSUME Init PROVE TypeOK
    OBVIOUS
  <1>1. /\ requested \subseteq Packages /\ built \subseteq Packages /\ inUse \subseteq Packages
        /\ inodes \in Nat /\ lockFile \in {0, inodes} /\ jobs \subseteq Calls
        /\ busy \in BOOLEAN /\ active \in Nat /\ crashes \in Nat
    BY DEF Init
  <1>2. /\ kind \in [Calls -> Kinds] /\ name \in [Calls -> Packages \cup {None}]
        /\ \A c \in Calls : kind[c] \in Changes => name[c] \in Packages
    BY DEF Init, Kinds, Changes
  <1>3. /\ pc \in [Calls -> Places] /\ opened \in [Calls -> Nat] /\ read \in [Calls -> SUBSET Packages]
        /\ \A c \in Calls : opened[c] <= inodes
    BY DEF Init, Places
  <1>4. answer \in [Calls -> {"none", "denied", "busy", "error", "lost", "done"}]
    BY DEF Init
  <1> QED BY <1>1, <1>2, <1>3, <1>4 DEF TypeOK

\* Only a call the service took on ends one, so the count never goes below zero.
LEMMA CountedType ==
    ASSUME TypeOK, Counted, NEW c \in HeldCalls PROVE active - 1 \in Nat
  <1>1. IsFiniteSet(HeldCalls)
    BY ServiceAssumption, FS_Subset DEF HeldCalls
  <1>2. Cardinality(HeldCalls) # 0
    BY <1>1, FS_EmptySet
  <1> QED BY <1>2 DEF Counted, TypeOK

LEMMA TypeNext == ASSUME TypeOK, Counted, [Next]_vars PROVE TypeOK'
  <1> USE DEF files, locks, process, asked
  <1>1. ASSUME NEW c \in Calls, Ask(c) PROVE TypeOK'
    <2>1. PICK k \in Kinds \ {"rebuild"}, n \in Packages \cup {None} :
             /\ kind' = [kind EXCEPT ![c] = k] /\ name' = [name EXCEPT ![c] = n]
             /\ k # "add" => n \in Packages
      BY <1>1 DEF Ask
    <2>2. kind' \in [Calls -> Kinds] /\ name' \in [Calls -> Packages \cup {None}]
      BY <2>1 DEF TypeOK
    <2>3. pc' \in [Calls -> Places]
      BY <1>1, GoType DEF Ask, TypeOK, Places
    <2>4. \A d \in Calls : kind'[d] \in Changes => name'[d] \in Packages
      BY <2>1 DEF TypeOK, Changes, Kinds
    <2> QED BY <1>1, <2>2, <2>3, <2>4 DEF Ask, TypeOK
  <1>2. ASSUME NEW c \in Calls, AskRebuild(c) PROVE TypeOK'
    <2>1. pc' \in [Calls -> Places]
      BY <1>2, GoType DEF AskRebuild, TypeOK, Places, Held
    <2>2. kind' \in [Calls -> Kinds] /\ \A d \in Calls : kind'[d] \in Changes => name'[d] \in Packages
      BY <1>2 DEF AskRebuild, TypeOK, Kinds, Changes
    <2> QED BY <1>2, <2>1, <2>2 DEF AskRebuild, TypeOK
  <1>3. ASSUME NEW c \in Calls, Refuse(c) PROVE TypeOK'
    <2>1. /\ pc' \in [Calls -> Places]
          /\ answer' \in [Calls -> {"none", "denied", "busy", "error", "lost", "done"}]
      BY <1>3, GoType DEF Refuse, Answer, TypeOK, Places
    <2> QED BY <1>3, <2>1 DEF Refuse, TypeOK
  <1>4. ASSUME NEW c \in Calls, Authorized(c) PROVE TypeOK'
    <2>1. pc' \in [Calls -> Places]
      BY <1>4, GoType DEF Authorized, TypeOK, Places, Held
    <2>2. busy' \in BOOLEAN
      BY <1>4, Zenon DEF Authorized
    <2> QED BY <1>4, <2>1, <2>2 DEF Authorized, TypeOK
  <1>5. ASSUME NEW c \in Calls, Work(c) PROVE TypeOK'
    <2>1. CASE Check(c) \/ Take(c) \/ Read(c) \/ Activate(c) \/ Save(c) \/ Rest(c)
      <3>1. pc' \in [Calls -> Places]
        BY <2>1, GoType DEF Check, Take, Read, Activate, Save, Rest, TypeOK, Places, Held, Holding
      <3>2. answer' \in [Calls -> {"none", "denied", "busy", "error", "lost", "done"}]
        BY <2>1 DEF Check, Take, Read, Activate, Save, Rest, TypeOK
      <3>3. requested' \subseteq Packages /\ built' \subseteq Packages
            /\ read' \in [Calls -> SUBSET Packages] /\ jobs' \subseteq Calls
        BY <2>1, WantedType DEF Check, Take, Read, Activate, Save, Rest, TypeOK
      <3>4. UNCHANGED <<inUse, inodes, lockFile, busy, active, crashes, kind, name, opened>>
        BY <2>1 DEF Check, Take, Read, Activate, Save, Rest
      <3> QED BY <3>1, <3>2, <3>3, <3>4 DEF TypeOK
    <2>2. CASE Open(c)
      <3>1. pc' \in [Calls -> Places]
        BY <2>2, GoType DEF Open, TypeOK, Places, Held
      <3>2. inodes' \in Nat /\ lockFile' \in {0, inodes'} /\ inodes <= inodes' /\ lockFile' <= inodes'
        BY <2>2 DEF Open, TypeOK
      <3>3. opened' = [opened EXCEPT ![c] = lockFile'] \/ opened' = opened
        BY <2>2 DEF Open
      <3>4. opened' \in [Calls -> Nat] /\ \A d \in Calls : opened'[d] <= inodes'
        BY <3>2, <3>3 DEF TypeOK
      <3>5. answer' \in [Calls -> {"none", "denied", "busy", "error", "lost", "done"}]
        BY <2>2 DEF Open, TypeOK
      <3> QED BY <2>2, <3>1, <3>2, <3>4, <3>5 DEF Open, TypeOK
    <2>3. CASE JobEnds(c)
      <3>1. pc' \in [Calls -> Places]
        <4>1. pc[c] \in Places
          BY DEF TypeOK
        <4>2. PICK place \in Places : Go(c, place)
          BY <2>3, <4>1 DEF JobEnds, Places, Held, Holding
        <4> QED BY <4>2, GoType DEF TypeOK
      <3>2. inUse' \subseteq Packages /\ built' \subseteq Packages
        BY <2>3, WantedType DEF JobEnds, TypeOK
      <3> QED BY <2>3, <3>1, <3>2 DEF JobEnds, TypeOK
    <2>4. CASE Forget(c) \/ Undo(c)
      <3>1. pc' \in [Calls -> Places]
        BY <2>4, GoType DEF Forget, Undo, TypeOK, Places, Held, Holding
      <3>2. requested' \subseteq Packages /\ built' \subseteq Packages /\ inodes' = inodes
            /\ lockFile' \in {0, inodes'}
        BY <2>4 DEF Forget, Undo, Empty, TypeOK
      <3>3. answer' \in [Calls -> {"none", "denied", "busy", "error", "lost", "done"}]
        BY <2>4 DEF Forget, Undo, TypeOK
      <3>4. UNCHANGED <<inUse, jobs, busy, active, crashes, kind, name, opened, read>>
        BY <2>4 DEF Forget, Undo
      <3> QED BY <3>1, <3>2, <3>3, <3>4 DEF TypeOK
    <2>5. CASE Finish(c)
      <3>1. pc' \in [Calls -> Places]
        BY <2>5, GoType DEF Finish, TypeOK, Places
      <3>2. busy' \in BOOLEAN
        BY <2>5, Zenon DEF Finish
      <3>3. active' \in Nat
        BY <2>5, CountedType DEF Finish, At, HeldCalls, Held
      <3> QED BY <2>5, <3>1, <3>2, <3>3 DEF Finish, TypeOK
    <2> QED BY <1>5, <2>1, <2>2, <2>3, <2>4, <2>5 DEF Work
  <1>6. CASE IdleExit \/ Crash
    <2>1. Stop /\ crashes' \in Nat
      BY <1>6 DEF IdleExit, Crash, TypeOK
    <2>2. pc' \in [Calls -> Places]
          /\ answer' \in [Calls -> {"none", "denied", "busy", "error", "lost", "done"}]
      BY <2>1 DEF Stop, TypeOK, Places
    <2> QED BY <2>1, <2>2 DEF Stop, TypeOK
  <1>7. CASE AllAnswered \/ UNCHANGED vars
    BY <1>7 DEF AllAnswered, vars, TypeOK
  <1> QED BY <1>1, <1>2, <1>3, <1>4, <1>5, <1>6, <1>7 DEF Next

-----------------------------------------------------------------------------
(* Counting, the busy flag and the lock. *)

\* A call that moves to where the service has it in hand.
LEMMA GoHeld ==
    ASSUME TypeOK, NEW c \in Calls, NEW place \in Held, Go(c, place)
    PROVE  pc'[c] \in Held /\ \A d \in Calls \ {c} : pc'[d] = pc[d]
  <1>1. place \in Places /\ pc \in [Calls -> Places]
    BY DEF Places, TypeOK
  <1> QED BY <1>1, GoType
\* What every step of a call's work does to where calls are.
LEMMA WorkMoves ==
    ASSUME TypeOK, NEW c \in Calls, Work(c)
    PROVE  /\ \A d \in Calls \ {c} : pc'[d] = pc[d]
           /\ \/ pc[c] = "release" /\ pc'[c] = "answered" /\ Finish(c)
              \/ pc[c] \in Held \ {"release"} /\ pc'[c] \in Held
              \/ pc'[c] = pc[c] /\ JobEnds(c)
  <1> USE DEF At
  <1>1. CASE Check(c) \/ Take(c) \/ Read(c) \/ Activate(c) \/ Save(c) \/ Rest(c) \/ Open(c)
    <2>1. PICK place \in Held : Go(c, place)
      BY <1>1 DEF Check, Take, Read, Activate, Save, Rest, Open, Held, Holding
    <2>2. pc[c] \in Held \ {"release"}
      BY <1>1 DEF Check, Take, Read, Activate, Save, Rest, Open, Held, Holding
    <2> QED BY <2>1, <2>2, GoHeld
  <1>2. CASE Forget(c) \/ Undo(c)
    <2>1. PICK place \in Held : Go(c, place)
      BY <1>2 DEF Forget, Undo, Held, Holding
    <2>2. pc[c] \in Held \ {"release"}
      BY <1>2 DEF Forget, Undo, Held, Holding
    <2> QED BY <2>1, <2>2, GoHeld
  <1>3. CASE JobEnds(c)
    <2>1. CASE pc[c] = "acting"
      <3>1. PICK place \in Held : Go(c, place)
        BY <1>3, <2>1 DEF JobEnds, Held, Holding
      <3>2. pc[c] \in Held \ {"release"}
        BY <2>1 DEF Held, Holding
      <3> QED BY <3>1, <3>2, GoHeld
    <2>2. CASE pc[c] # "acting"
      <3>1. Go(c, pc[c]) /\ pc[c] \in Places /\ pc \in [Calls -> Places]
        BY <1>3, <2>2 DEF JobEnds, TypeOK
      <3> QED BY <1>3, <3>1, GoType
    <2> QED BY <2>1, <2>2
  <1>4. CASE Finish(c)
    <2>1. Go(c, "answered") /\ pc[c] = "release" /\ "answered" \in Places /\ pc \in [Calls -> Places]
      BY <1>4 DEF Finish, TypeOK, Places
    <2> QED BY <1>4, <2>1, GoType
  <1> QED BY <1>1, <1>2, <1>3, <1>4 DEF Work

LEMMA CountedNext == ASSUME TypeOK, Counted, [Next]_vars PROVE Counted'
  <1> USE DEF files, locks, process, asked
  <1>0. IsFiniteSet(HeldCalls)
    BY ServiceAssumption, FS_Subset DEF HeldCalls
  <1>1. ASSUME NEW c \in Calls, Ask(c) \/ Refuse(c) PROVE Counted'
    <2>1. HeldCalls' = HeldCalls
      BY <1>1, GoType DEF Ask, Refuse, Answer, At, TypeOK, HeldCalls, Places, Held, Holding
    <2> QED BY <1>1, <2>1 DEF Ask, Refuse, Counted
  <1>2. ASSUME NEW c \in Calls, AskRebuild(c) \/ Authorized(c) PROVE Counted'
    <2>1. HeldCalls' = HeldCalls \cup {c} /\ c \notin HeldCalls
      BY <1>2, GoType DEF AskRebuild, Authorized, At, TypeOK, HeldCalls, Places, Held, Holding
    <2>2. Cardinality(HeldCalls') = Cardinality(HeldCalls) + 1
      BY <1>0, <2>1, FS_AddElement
    <2> QED BY <1>2, <2>2 DEF AskRebuild, Authorized, Counted
  <1>3. ASSUME NEW c \in Calls, Work(c) PROVE Counted'
    <2>1. CASE Finish(c)
      <3>1. HeldCalls' = HeldCalls \ {c} /\ c \in HeldCalls
        BY <2>1, GoType DEF Finish, At, TypeOK, HeldCalls, Places, Held, Holding
      <3>2. Cardinality(HeldCalls') = Cardinality(HeldCalls) - 1
        BY <1>0, <3>1, FS_RemoveElement
      <3> QED BY <2>1, <3>2 DEF Finish, Counted
    <2>2. CASE ~Finish(c)
      <3>1. HeldCalls' = HeldCalls
        BY <1>3, <2>2, WorkMoves DEF HeldCalls
      <3>2. active' = active
        BY <1>3, <2>2 DEF Work, Check, Open, Take, Read, Activate, JobEnds, Forget, Undo, Save, Rest
      <3> QED BY <3>1, <3>2 DEF Counted
    <2> QED BY <2>1, <2>2
  <1>4. CASE IdleExit \/ Crash
    <2>1. HeldCalls' = {} /\ active' = 0
      BY <1>4 DEF IdleExit, Crash, Stop, HeldCalls, Held, Holding
    <2> QED BY <2>1, FS_EmptySet DEF Counted
  <1>5. CASE AllAnswered \/ UNCHANGED vars
    BY <1>5 DEF AllAnswered, vars, Counted, HeldCalls
  <1> QED BY <1>1, <1>2, <1>3, <1>4, <1>5 DEF Next

\* A step other than a call's work keeps what is held, but for the call it adds or the exit.
LEMMA BusyNext ==
    ASSUME TypeOK, BusyWithChange, OneChange, [Next]_vars PROVE (BusyWithChange /\ OneChange)'
  <1> USE DEF process, asked
  <1>1. ASSUME NEW c \in Calls, Ask(c) \/ Refuse(c) PROVE (BusyWithChange /\ OneChange)'
    <2>1. /\ \A d \in Calls : (pc'[d] \in Held <=> pc[d] \in Held)
          /\ \A d \in HeldCalls : kind'[d] = kind[d]
          /\ busy' = busy
      BY <1>1, GoType DEF Ask, Refuse, Answer, At, TypeOK, HeldCalls, Places, Held, Holding
    <2> QED BY <2>1 DEF BusyWithChange, OneChange, HeldCalls
  <1>2. ASSUME NEW c \in Calls, AskRebuild(c) PROVE (BusyWithChange /\ OneChange)'
    <2>1. /\ kind'[c] = "rebuild" /\ \A d \in Calls \ {c} : kind'[d] = kind[d] /\ pc'[d] = pc[d]
          /\ busy' = busy
      BY <1>2, GoType DEF AskRebuild, TypeOK, Places, Held
    <2>2. "rebuild" \notin Changes
      BY DEF Changes
    <2> QED BY <2>1, <2>2 DEF BusyWithChange, OneChange, HeldCalls
  <1>3. ASSUME NEW c \in Calls, Authorized(c) PROVE (BusyWithChange /\ OneChange)'
    <2>1. /\ \A d \in Calls \ {c} : pc'[d] = pc[d]
          /\ kind' = kind
      BY <1>3, GoType DEF Authorized, TypeOK, Places, Held
    <2>2. busy \/ kind[c] \in Changes => busy'
      BY <1>3, Zenon DEF Authorized
    <2>3. kind[c] \in Changes => ~busy
      BY <1>3 DEF Authorized
    <2> QED BY <2>1, <2>2, <2>3 DEF BusyWithChange, OneChange, HeldCalls
  <1>4. ASSUME NEW c \in Calls, Work(c) PROVE (BusyWithChange /\ OneChange)'
    <2>0. kind' = kind
      BY <1>4 DEF Work, Check, Open, Take, Read, Activate, JobEnds, Forget, Undo, Save, Rest, Finish
    <2>1. \A d \in Calls : pc'[d] \in Held => pc[d] \in Held
      BY <1>4, WorkMoves DEF Held, Holding
    <2>2. CASE Finish(c)
      <3>1. pc[c] \in Held /\ pc'[c] \notin Held
        BY <1>4, <2>2, GoType DEF Finish, At, TypeOK, Places, Held, Holding
      <3>2. busy /\ kind[c] \notin Changes => busy'
        BY <2>2, Zenon DEF Finish
      <3> QED BY <2>0, <2>1, <3>1, <3>2 DEF BusyWithChange, OneChange, HeldCalls
    <2>3. CASE ~Finish(c)
      <3>1. busy' = busy
        BY <1>4, <2>3 DEF Work, Check, Open, Take, Read, Activate, JobEnds, Forget, Undo, Save, Rest
      <3> QED BY <2>0, <2>1, <3>1 DEF BusyWithChange, OneChange, HeldCalls
    <2> QED BY <2>2, <2>3
  <1>5. CASE IdleExit \/ Crash
    <2>1. HeldCalls' = {}
      BY <1>5 DEF IdleExit, Crash, Stop, HeldCalls, Held, Holding
    <2> QED BY <2>1 DEF BusyWithChange, OneChange, HeldCalls
  <1>6. CASE AllAnswered \/ UNCHANGED vars
    BY <1>6 DEF AllAnswered, vars, BusyWithChange, OneChange, HeldCalls
  <1> QED BY <1>1, <1>2, <1>3, <1>4, <1>5, <1>6 DEF Next

\* Only Take gives a call the lock; only Open chooses its file.
LEMMA LockMoves ==
    ASSUME TypeOK, [Next]_vars, NEW c \in Calls, HasLock(c)', ~HasLock(c)
    PROVE  Take(c)
  <1> USE DEF HasLock, At, files, locks, process, asked
  <1>1. ASSUME NEW d \in Calls, d # c, Ask(d) \/ AskRebuild(d) \/ Refuse(d) \/ Authorized(d) \/ Work(d)
        PROVE  FALSE
    <2>1. CASE Work(d)
      BY <1>1, <2>1, WorkMoves
    <2>2. CASE ~Work(d)
      BY <1>1, <2>2, GoType DEF Ask, AskRebuild, Refuse, Answer, Authorized, TypeOK, Places, Held
    <2> QED BY <2>1, <2>2
  <1>2. CASE Ask(c) \/ AskRebuild(c) \/ Refuse(c) \/ Authorized(c)
    BY <1>2, GoType DEF Ask, AskRebuild, Refuse, Answer, Authorized, TypeOK, Places, Held, Holding
  <1>3. CASE Check(c) \/ Open(c) \/ Finish(c)
    BY <1>3, GoType DEF Check, Open, Finish, TypeOK, Places, Held, Holding
  <1>4. CASE Read(c) \/ Activate(c) \/ Forget(c) \/ Undo(c) \/ Save(c) \/ Rest(c)
    BY <1>4 DEF Read, Activate, Forget, Undo, Save, Rest, Holding
  <1>5. CASE JobEnds(c)
    <2>1. pc[c] # "acting"
      BY DEF Holding
    <2>2. Go(c, pc[c]) /\ pc[c] \in Places /\ pc \in [Calls -> Places]
      BY <1>5, <2>1 DEF JobEnds, TypeOK
    <2> QED BY <2>2, GoType
  <1>6. CASE IdleExit \/ Crash
    BY <1>6 DEF IdleExit, Crash, Stop, Holding
  <1>7. CASE AllAnswered \/ UNCHANGED vars
    BY <1>7 DEF AllAnswered, vars
  <1> QED BY <1>1, <1>2, <1>3, <1>4, <1>5, <1>6, <1>7 DEF Next, Work

\* Nobody opens another file while it waits for a lock or has one.
LEMMA OpenedStays ==
    ASSUME TypeOK, [Next]_vars, NEW c \in Calls, HasLock(c) \/ At(c, "waiting")
    PROVE  opened'[c] = opened[c]
  <1> USE DEF HasLock, At, files, locks, process, asked
  <1>1. ASSUME NEW d \in Calls, Open(d) PROVE opened'[c] = opened[c]
    BY <1>1 DEF Open, Holding, TypeOK
  <1>2. CASE ~\E d \in Calls : Open(d)
    BY <1>2 DEF Next, Work, Ask, AskRebuild, Refuse, Authorized, Check, Take, Read, Activate,
                JobEnds, Forget, Undo, Save, Rest, Finish, IdleExit, Crash, Stop, AllAnswered, vars
  <1> QED BY <1>1, <1>2

\* A call that waits has just opened the file, or waited before.
LEMMA WaitingOpened ==
    ASSUME TypeOK, [Next]_vars, NEW c \in Calls, pc'[c] = "waiting", pc[c] # "waiting"
    PROVE  opened'[c] # 0
  <1> USE DEF At, files, locks, process, asked
  <1>1. ASSUME NEW d \in Calls, d # c, Ask(d) \/ AskRebuild(d) \/ Refuse(d) \/ Authorized(d) \/ Work(d)
        PROVE  FALSE
    <2>1. CASE Work(d)
      BY <1>1, <2>1, WorkMoves
    <2>2. CASE ~Work(d)
      BY <1>1, <2>2, GoType DEF Ask, AskRebuild, Refuse, Answer, Authorized, TypeOK, Places, Held
    <2> QED BY <2>1, <2>2
  <1>2. CASE Ask(c) \/ AskRebuild(c) \/ Refuse(c) \/ Authorized(c)
    BY <1>2, GoType DEF Ask, AskRebuild, Refuse, Answer, Authorized, TypeOK, Places, Held, Holding
  <1>3. CASE Open(c)
    <2>1. lockFile' # 0 \/ opened' = opened
      BY <1>3 DEF Open, TypeOK
    <2>2. CASE opened' = [opened EXCEPT ![c] = lockFile'] /\ lockFile' # 0
      BY <2>2 DEF TypeOK
    <2>3. CASE Go(c, "release")
      BY <2>3, GoType DEF TypeOK, Places, Held
    <2> QED BY <1>3, <2>1, <2>2, <2>3 DEF Open, TypeOK
  <1>4. CASE Check(c) \/ Take(c) \/ Read(c) \/ Activate(c) \/ Forget(c) \/ Undo(c) \/ Save(c)
             \/ Rest(c) \/ Finish(c)
    BY <1>4, GoType DEF Check, Take, Read, Activate, Forget, Undo, Save, Rest, Finish, TypeOK,
                        Places, Held, Holding
  <1>5. CASE JobEnds(c)
    <2>1. CASE pc[c] = "acting"
      BY <1>5, <2>1, GoType DEF JobEnds, TypeOK, Places, Held, Holding
    <2>2. CASE pc[c] # "acting"
      <3>1. Go(c, pc[c]) /\ pc[c] \in Places /\ pc \in [Calls -> Places]
        BY <1>5, <2>2 DEF JobEnds, TypeOK
      <3> QED BY <3>1, GoType
    <2> QED BY <2>1, <2>2
  <1>6. CASE IdleExit \/ Crash
    BY <1>6 DEF IdleExit, Crash, Stop
  <1>7. CASE AllAnswered \/ UNCHANGED vars
    BY <1>7 DEF AllAnswered, vars
  <1> QED BY <1>1, <1>2, <1>3, <1>4, <1>5, <1>6, <1>7 DEF Next, Work

LEMMA LockedNext == ASSUME TypeOK, Locked, [Next]_vars PROVE Locked'
  <1>1. ASSUME NEW c \in Calls, HasLock(c)' \/ At(c, "waiting")' PROVE opened'[c] # 0
    <2>1. CASE HasLock(c) \/ At(c, "waiting")
      BY <2>1, OpenedStays DEF Locked
    <2>2. CASE HasLock(c)' /\ ~HasLock(c)
      <3>1. At(c, "waiting")
        BY <2>2, LockMoves DEF Take
      <3> QED BY <3>1, OpenedStays DEF Locked
    <2>3. CASE At(c, "waiting")' /\ ~At(c, "waiting")
      BY <2>3, WaitingOpened DEF At
    <2> QED BY <1>1, <2>1, <2>2, <2>3
  <1>2. ASSUME NEW c \in Calls, NEW d \in Calls, HasLock(c)', HasLock(d)', opened'[c] = opened'[d], c # d
        PROVE  FALSE
    <2>1. \A e \in {c, d} : opened'[e] = opened[e]
      BY <1>2, OpenedStays, LockMoves DEF Take
    <2>2. CASE HasLock(c) /\ HasLock(d)
      BY <1>2, <2>1, <2>2 DEF Locked
    <2>3. CASE ~HasLock(c) /\ HasLock(d)
      BY <1>2, <2>1, <2>3, LockMoves DEF Take, HasLock
    <2>4. CASE HasLock(c) /\ ~HasLock(d)
      BY <1>2, <2>1, <2>4, LockMoves DEF Take, HasLock
    <2>5. CASE ~HasLock(c) /\ ~HasLock(d)
      <3>1. Take(c) /\ At(d, "waiting")
        BY <1>2, <2>5, LockMoves DEF Take
      <3>2. pc'[d] = "waiting"
        BY <1>2, <3>1, GoType DEF Take, At, TypeOK, Places, Held, Holding
      <3> QED BY <1>2, <3>2 DEF HasLock, Holding
    <2> QED BY <2>2, <2>3, <2>4, <2>5
  <1> QED BY <1>1, <1>2 DEF Locked

\* The number of a lock file never lies above how many there were.
LEMMA OneFile ==
    ASSUME TypeOK, Locked, inodes <= 1, NEW c \in Calls, NEW d \in Calls, HasLock(c), HasLock(d)
    PROVE  c = d
  <1>1. opened[c] = 1 /\ opened[d] = 1
    BY DEF TypeOK, Locked
  <1> QED BY <1>1 DEF Locked

-----------------------------------------------------------------------------
(* What a call read stays true, and an instance has a call that waits for it. *)

Acts(c) == pc[c] \in {"activate", "acting"}

\* Only a call that has the lock and is past its activation writes the list.
LEMMA ListWriters ==
    ASSUME [Next]_vars, requested' # requested
    PROVE  \E d \in Calls : HasLock(d) /\ ~Acts(d)
  <1> USE DEF files, locks, process, asked
  <1>1. \E d \in Calls : Forget(d) \/ Undo(d) \/ Save(d)
    BY DEF Next, Work, Ask, AskRebuild, Refuse, Authorized, Check, Open, Take, Read, Activate,
           JobEnds, Rest, Finish, IdleExit, Crash, Stop, AllAnswered, vars
  <1> QED BY <1>1 DEF Forget, Undo, Save, At, HasLock, Holding, Acts

\* A call acts because it just read the list, or acted before.
LEMMA ActsAfterReading ==
    ASSUME TypeOK, [Next]_vars, NEW c \in Calls, Acts(c)', ~Acts(c)
    PROVE  Read(c)
  <1> USE DEF Acts, At, files, locks, process, asked
  <1>1. ASSUME NEW d \in Calls, d # c, Ask(d) \/ AskRebuild(d) \/ Refuse(d) \/ Authorized(d) \/ Work(d)
        PROVE  FALSE
    <2>1. CASE Work(d)
      BY <1>1, <2>1, WorkMoves
    <2>2. CASE ~Work(d)
      BY <1>1, <2>2, GoType DEF Ask, AskRebuild, Refuse, Answer, Authorized, TypeOK, Places, Held
    <2> QED BY <2>1, <2>2
  <1>2. CASE Ask(c) \/ AskRebuild(c) \/ Refuse(c) \/ Authorized(c)
    BY <1>2, GoType DEF Ask, AskRebuild, Refuse, Answer, Authorized, TypeOK, Places, Held, Holding
  <1>3. CASE Check(c) \/ Take(c) \/ Open(c) \/ Forget(c) \/ Undo(c) \/ Save(c) \/ Rest(c) \/ Finish(c)
    BY <1>3, GoType DEF Check, Take, Open, Forget, Undo, Save, Rest, Finish, TypeOK, Places, Held,
                        Holding
  <1>4. CASE Activate(c)
    BY <1>4 DEF Activate
  <1>5. CASE JobEnds(c)
    <2>1. Go(c, pc[c]) /\ pc[c] \in Places /\ pc \in [Calls -> Places]
      BY <1>5 DEF JobEnds, TypeOK
    <2> QED BY <2>1, GoType
  <1>6. CASE IdleExit \/ Crash
    BY <1>6 DEF IdleExit, Crash, Stop
  <1>7. CASE AllAnswered \/ UNCHANGED vars
    BY <1>7 DEF AllAnswered, vars
  <1> QED BY <1>1, <1>2, <1>3, <1>4, <1>5, <1>6, <1>7 DEF Next, Work

LEMMA ReadNext == ASSUME TypeOK, Locked, ReadIsTrue, [Next]_vars PROVE ReadIsTrue'
  <1> SUFFICES ASSUME inodes' <= 1, NEW c \in Calls, Acts(c)'
               PROVE  requested' = read'[c]
    BY DEF ReadIsTrue, Acts
  <1>1. inodes <= 1
    <2>1. inodes' = inodes \/ inodes' = inodes + 1
      BY DEF Next, Work, Ask, AskRebuild, Refuse, Authorized, Check, Open, Take, Read, Activate,
             JobEnds, Forget, Undo, Empty, Save, Rest, Finish, IdleExit, Crash, Stop, AllAnswered, vars,
             locks
    <2> QED BY <2>1 DEF TypeOK
  <1>2. CASE ~Acts(c)
    <2>1. Read(c)
      BY <1>2, ActsAfterReading
    <2> QED BY <2>1 DEF Read, TypeOK, files
  <1>3. CASE Acts(c)
    <2>1. HasLock(c) /\ requested = read[c]
      BY <1>1, <1>3 DEF ReadIsTrue, Acts, HasLock, Holding
    <2>2. requested' = requested
      BY <1>1, <1>3, <2>1, ListWriters, OneFile
    <2>3. read'[c] = read[c]
      <3>1. CASE \E d \in Calls : Read(d)
        BY <1>3, <3>1 DEF Read, At, Acts, TypeOK
      <3>2. CASE ~\E d \in Calls : Read(d)
        BY <3>2 DEF Next, Work, Ask, AskRebuild, Refuse, Authorized, Check, Open, Take, Activate,
             JobEnds, Forget, Undo, Save, Rest, Finish, IdleExit, Crash, Stop, AllAnswered, vars
      <3> QED BY <3>1, <3>2
    <2> QED BY <2>1, <2>2, <2>3
  <1> QED BY <1>2, <1>3

LEMMA AwaitedNext == ASSUME TypeOK, Counted, Awaited, [Next]_vars PROVE Awaited'
  <1> USE DEF At, files, locks, process, asked
  <1> SUFFICES ASSUME crashes' = 0, NEW c \in jobs' PROVE pc'[c] = "acting"
    BY DEF Awaited
  <1>0. c \in Calls
    BY TypeNext DEF TypeOK
  <1>1. crashes = 0 /\ ~Crash
    BY DEF Next, Work, Ask, AskRebuild, Refuse, Authorized, Check, Open, Take, Read, Activate,
           JobEnds, Forget, Undo, Save, Rest, Finish, IdleExit, Crash, Stop, AllAnswered, vars, TypeOK
  <1>2. CASE c \notin jobs
    <2>1. Activate(c) /\ Go(c, "acting")
      BY <1>2 DEF Next, Work, Ask, AskRebuild, Refuse, Authorized, Check, Open, Take, Read, Activate,
           JobEnds, Forget, Undo, Save, Rest, Finish, IdleExit, Crash, Stop, AllAnswered, vars
    <2> QED BY <1>0, <2>1, GoType DEF TypeOK, Places, Held, Holding
  <1>3. CASE c \in jobs
    <2>1. pc[c] = "acting"
      BY <1>1, <1>3 DEF Awaited
    <2>2. ASSUME NEW d \in Calls, Work(d) PROVE pc'[c] = "acting"
      <3>1. CASE d = c
        <4>1. JobEnds(c)
          BY <2>1, <2>2, <3>1 DEF Work, Check, Open, Take, Read, Activate, Forget, Undo, Save, Rest, Finish
        <4> QED BY <4>1 DEF JobEnds
      <3>2. CASE d # c
        BY <1>0, <2>1, <2>2, <3>2, WorkMoves
      <3> QED BY <3>1, <3>2
    <2>3. ASSUME NEW d \in Calls, Ask(d) \/ AskRebuild(d) \/ Refuse(d) \/ Authorized(d)
          PROVE  pc'[c] = "acting"
      BY <1>0, <2>1, <2>3, GoType DEF Ask, AskRebuild, Refuse, Answer, Authorized, TypeOK, Places, Held
    <2>4. ~IdleExit
      <3>1. IsFiniteSet(HeldCalls) /\ c \in HeldCalls
        BY <1>0, <2>1, ServiceAssumption, FS_Subset DEF HeldCalls, Held, Holding
      <3> QED BY <3>1, FS_EmptySet DEF IdleExit, Counted
    <2>5. CASE AllAnswered \/ UNCHANGED vars
      BY <2>1, <2>5 DEF AllAnswered, vars
    <2> QED BY <1>1, <2>2, <2>3, <2>4, <2>5 DEF Next
  <1> QED BY <1>2, <1>3

-----------------------------------------------------------------------------

LEMMA ServiceInit == Init => ServiceInv
  <1> SUFFICES ASSUME Init PROVE ServiceInv
    OBVIOUS
  <1>1. HeldCalls = {} /\ \A c \in Calls : pc[c] = "unasked"
    BY DEF Init, HeldCalls, Held, Holding
  <1>2. Counted
    BY <1>1, FS_EmptySet DEF Counted, Init
  <1>3. BusyWithChange /\ OneChange /\ Locked /\ ReadIsTrue
    BY <1>1 DEF BusyWithChange, OneChange, HeldCalls, Locked, ReadIsTrue, HasLock, At, Held, Holding
  <1>4. Awaited
    BY DEF Init, Awaited
  <1> QED BY TypeInit, <1>2, <1>3, <1>4 DEF ServiceInv

\* What the service's requests, threads, lock files and activation instances keep true together.
THEOREM ServiceInvariance == Spec => []ServiceInv
  <1>1. ServiceInv /\ [Next]_vars => ServiceInv'
    BY TypeNext, CountedNext, BusyNext, LockedNext, ReadNext, AwaitedNext DEF ServiceInv
  <1> QED BY <1>1, ServiceInit, PTL DEF Spec

\* Two changes never run side by side.
THEOREM ChangesAreAlone == Spec => []OneChange
  <1>1. ServiceInv => OneChange
    BY DEF ServiceInv
  <1> QED BY <1>1, ServiceInvariance, PTL

\* The lock excludes everyone else as long as its file isn't deleted.
THEOREM LockExcludes == Spec => []Exclusive
  <1>1. ServiceInv => Exclusive
    BY OneFile DEF ServiceInv, Exclusive
  <1> QED BY <1>1, ServiceInvariance, PTL

\* Until then a call acts on the list as it is.
THEOREM ReadStaysTrue == Spec => []ReadIsTrue
  <1>1. ServiceInv => ReadIsTrue
    BY DEF ServiceInv
  <1> QED BY <1>1, ServiceInvariance, PTL

\* Until then, and while luft-packages isn't killed, activation instances run one by one.
THEOREM JobsAreAlone == Spec => []OneJob
  <1>1. ServiceInv => OneJob
    <2> SUFFICES ASSUME ServiceInv, inodes <= 1, crashes = 0, NEW c \in jobs, NEW d \in jobs
                 PROVE  c = d
      BY DEF OneJob
    <2>1. c \in Calls /\ d \in Calls /\ HasLock(c) /\ HasLock(d)
      BY DEF ServiceInv, TypeOK, Awaited, At, HasLock, Holding
    <2> QED BY <2>1, OneFile DEF ServiceInv
  <1> QED BY <1>1, ServiceInvariance, PTL

(* The service's state stays what it can hold: every request that reached a place in the code     *)
(* has a kind, and what it opened is a lock file that was made.                                 *)
THEOREM ServiceTyping == Spec => []TypeOK
  <1>1. ServiceInv => TypeOK
    BY DEF ServiceInv
  <1> QED BY <1>1, ServiceInvariance, PTL

\* The idle exit never cuts off what the service has taken on.
THEOREM HeldIsNeverCutOff == Spec => NeverCutOff
  <1>1. ServiceInv /\ [Next]_vars =>
          [crashes' = crashes =>
             \A c \in Calls : pc[c] \in Held /\ pc'[c] = "answered" => pc[c] = "release"]_vars
    <2> SUFFICES ASSUME ServiceInv, [Next]_vars, crashes' = crashes, NEW c \in Calls, pc[c] \in Held,
                        pc'[c] = "answered"
                 PROVE  pc[c] = "release"
      OBVIOUS
    <2>0. TypeOK /\ Counted
      BY DEF ServiceInv
    <2>1. ~IdleExit
      <3>1. IsFiniteSet(HeldCalls) /\ c \in HeldCalls
        BY ServiceAssumption, FS_Subset DEF HeldCalls
      <3> QED BY <2>0, <3>1, FS_EmptySet DEF IdleExit, Counted
    <2>2. ~Crash
      BY <2>0 DEF Crash, TypeOK
    <2>3. ASSUME NEW d \in Calls, Work(d) PROVE pc[c] = "release"
      BY <2>0, <2>3, WorkMoves DEF Held, Holding
    <2>4. ASSUME NEW d \in Calls, Ask(d) \/ AskRebuild(d) \/ Refuse(d) \/ Authorized(d)
          PROVE  FALSE
      <3>1. c # d
        BY <2>4 DEF Ask, AskRebuild, Refuse, Authorized, At, Held, Holding
      <3> QED BY <2>0, <2>4, <3>1, GoType DEF Ask, AskRebuild, Refuse, Answer, Authorized, TypeOK,
                 Places, Held, Holding
    <2>5. CASE AllAnswered \/ UNCHANGED vars
      BY <2>5 DEF AllAnswered, vars, Held, Holding
    <2> QED BY <2>1, <2>2, <2>3, <2>4, <2>5 DEF Next
  <1> QED BY <1>1, ServiceInvariance, PTL DEF Spec, NeverCutOff
=============================================================================
