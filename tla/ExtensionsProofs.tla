--------------------------- MODULE ExtensionsProofs ---------------------------
(***************************************************************************)
(* Extensions run as they were chosen to, keep what they stored, and are   *)
(* turned off when they crash twice, for every set of extensions and       *)
(* versions, any number of failures and crashes, and whatever comes back   *)
(* late.                                                                   *)
(***************************************************************************)
EXTENDS Extensions, FiniteSetTheorems, TLAPS

-----------------------------------------------------------------------------
(* What the operators on one extension keep. *)

LEMMA BoundsType == MaxInstances \in Nat \ {0} /\ MaxRuns \in Nat \ {0} /\ MaxCrashes \in Nat \ {0}
  BY ExtensionsAssumption

\* The open run is one of the current instance.
Held(x) == Running(x) => x.current # 0 /\ x.runs[x.scope].of = x.current

\* What holds between operations.
Resting(x) ==
    /\ Held(x)
    /\ Running(x) <=> x.current # 0 /\ ~x.disabled
    /\ Running(x) => x.recorded

\* What stopping, starting and storing leave alone.
Alike(x, y) ==
    /\ y.folder = x.folder /\ y.disabled = x.disabled /\ y.problem = x.problem
    /\ y.crashes = x.crashes /\ y.listed = x.listed /\ y.current = x.current

LEMMA SetFacts ==
    ASSUME NEW x \in Extension, NEW i \in 1..MaxInstances, NEW v \in Stored
    PROVE  /\ Set(x, i, v) \in Extension
           /\ Alike(x, Set(x, i, v)) /\ Set(x, i, v).scope = x.scope /\ Set(x, i, v).runs = x.runs
           /\ Set(x, i, v).recorded = x.recorded
  <1>1. [x.instances[i] EXCEPT !.values = v, !.pending = TRUE] \in Instance
    BY DEF Extension, Instance
  <1> QED BY <1>1 DEF Set, Extension, Alike

LEMMA FlushFacts ==
    ASSUME NEW x \in Extension, NEW i \in 1..MaxInstances
    PROVE  /\ Flush(x, i) \in Extension
           /\ Alike(x, Flush(x, i)) /\ Flush(x, i).scope = x.scope /\ Flush(x, i).runs = x.runs
           /\ Flush(x, i).recorded = x.recorded
  BY DEF Flush, Extension, Instance, Alike

LEMMA FreeType == Free \in Run
  BY BoundsType DEF Free, Run

LEMMA SettledFacts ==
    ASSUME NEW x \in Extension, NEW r \in 1..MaxRuns
    PROVE  /\ Settled(x, r) \in Extension
           /\ Alike(x, Settled(x, r)) /\ Settled(x, r).scope = x.scope
           /\ Settled(x, r).recorded = x.recorded /\ Settled(x, r).instances = x.instances
           /\ FreeRuns(Settled(x, r)) = FreeRuns(x) \cup {r}
           /\ \A q \in 1..MaxRuns \ {r} : Settled(x, r).runs[q] = x.runs[q]
  BY FreeType DEF Settled, Extension, Alike, FreeRuns

\* Closing the open run.
LEMMA StopFacts ==
    ASSUME NEW x \in Extension, NEW v \in Stored, Held(x)
    PROVE  /\ Stop(x, v) \in Extension
           /\ Alike(x, Stop(x, v)) /\ Stop(x, v).scope = 0 /\ Stop(x, v).recorded = x.recorded
           /\ FreeRuns(x) \subseteq FreeRuns(Stop(x, v))
  <1>1. CASE x.current = 0
    BY <1>1 DEF Stop, Held, Running, Alike
  <1>2. CASE x.current # 0
    <2>1. x.current \in 1..MaxInstances
      BY <1>2, BoundsType DEF Extension
    <2> DEFINE shut   == [x EXCEPT !.scope = 0]
               closed == IF Running(x) /\ x.runs[x.scope].stage = "on" THEN Settled(shut, x.scope) ELSE shut
               cleans == Running(x) /\ x.runs[x.scope].stage # "loading" /\ v # None
               kept   == IF cleans THEN Set(closed, x.current, v) ELSE closed
    <2>2. /\ shut \in Extension /\ Alike(x, shut) /\ shut.scope = 0 /\ shut.recorded = x.recorded
          /\ FreeRuns(shut) = FreeRuns(x)
      <3>1. 0 \in 0..MaxRuns
        BY BoundsType
      <3>2. shut \in Extension
        BY <3>1 DEF Extension
      <3> QED BY <3>2 DEF Extension, Alike, FreeRuns
    <2>3. Running(x) => x.scope \in 1..MaxRuns
      BY BoundsType DEF Running, Extension
    <2>4. /\ closed \in Extension /\ Alike(x, closed) /\ closed.scope = 0 /\ closed.recorded = x.recorded
          /\ FreeRuns(x) \subseteq FreeRuns(closed)
      <3> HIDE DEF shut
      <3> QED BY <2>2, <2>3, SettledFacts DEF Alike
    <2> HIDE DEF closed
    <2>5. /\ kept \in Extension /\ Alike(x, kept) /\ kept.scope = 0 /\ kept.recorded = x.recorded
          /\ FreeRuns(x) \subseteq FreeRuns(kept)
      BY <2>1, <2>4, SetFacts DEF Alike, FreeRuns
    <2> HIDE DEF kept
    <2>6. /\ Flush(kept, x.current) \in Extension /\ Alike(x, Flush(kept, x.current))
          /\ Flush(kept, x.current).scope = 0 /\ Flush(kept, x.current).recorded = x.recorded
          /\ FreeRuns(x) \subseteq FreeRuns(Flush(kept, x.current))
      BY <2>1, <2>5, FlushFacts DEF Alike, FreeRuns
    <2>7. Stop(x, v) = Flush(kept, x.current)
      BY <1>2 DEF Stop, kept, closed
    <2> QED BY <2>6, <2>7
  <1> QED BY <1>1, <1>2

LEMMA StartFacts ==
    ASSUME NEW x \in Extension, FreeRuns(x) # {}
    PROVE  /\ Start(x) \in Extension
           /\ Alike(x, Start(x)) /\ Running(Start(x))
           /\ Start(x).runs[Start(x).scope].of = x.current
           /\ Start(x).instances = x.instances
           /\ FreeRuns(Start(x)) = FreeRuns(x) \ {Start(x).scope}
           /\ \A r \in 1..MaxRuns : Start(x).runs[r].of \in {x.runs[r].of, x.current}
  <1> DEFINE r == CHOOSE r \in FreeRuns(x) : TRUE
  <1>1. r \in FreeRuns(x) /\ r \in 1..MaxRuns
    BY DEF FreeRuns
  <1>2. Start(x) = [x EXCEPT !.scope = r, !.runs[r] = [of |-> x.current, stage |-> "loading"]]
    BY DEF Start
  <1> HIDE DEF r
  <1>3. [of |-> x.current, stage |-> "loading"] \in Run \ {Free}
    BY DEF Run, Extension, Free
  <1>4. r \in 0..MaxRuns /\ r # 0
    BY <1>1, BoundsType
  <1>a. x.runs \in [1..MaxRuns -> Run]
    BY DEF Extension
  <1>b. [x.runs EXCEPT ![r] = [of |-> x.current, stage |-> "loading"]] \in [1..MaxRuns -> Run]
    BY <1>1, <1>3, <1>a
  <1>5. Start(x) \in Extension
    BY <1>2, <1>4, <1>b DEF Extension
  <1>6. /\ Start(x).scope = r /\ Alike(x, Start(x)) /\ Start(x).instances = x.instances
        /\ Start(x).runs = [x.runs EXCEPT ![r] = [of |-> x.current, stage |-> "loading"]]
    BY <1>2 DEF Extension, Alike
  <1>7. FreeRuns(Start(x)) = FreeRuns(x) \ {r}
    BY <1>1, <1>3, <1>6 DEF Extension, FreeRuns
  <1>8. \A q \in 1..MaxRuns : Start(x).runs[q].of \in {x.runs[q].of, x.current}
    BY <1>1, <1>6 DEF Extension
  <1>9. Start(x).runs[r].of = x.current
    <2>1. Start(x).runs[r] = [of |-> x.current, stage |-> "loading"]
      BY <1>1, <1>6, <1>a
    <2> QED BY <2>1
  <1> QED BY <1>4, <1>5, <1>6, <1>7, <1>8, <1>9 DEF Running

-----------------------------------------------------------------------------
(* What the operators that choose whether it runs establish. *)

LEMMA SyncFacts ==
    ASSUME NEW x \in Extension, NEW v \in Stored, Held(x),
           x.current # 0 /\ ~x.disabled /\ ~Running(x) => FreeRuns(x) # {}
    PROVE  /\ Sync(x, v) \in Extension /\ Alike(x, Sync(x, v)) /\ Resting(Sync(x, v))
           /\ ~(x.disabled /\ Running(x)) =>
                 /\ Sync(x, v).instances = x.instances
                 /\ FreeRuns(x) \ {Sync(x, v).scope} \subseteq FreeRuns(Sync(x, v))
                 /\ \A r \in 1..MaxRuns : Sync(x, v).runs[r].of \in {x.runs[r].of, x.current}
  <1> DEFINE y == IF x.current # 0 /\ ~x.disabled /\ ~Running(x) THEN Start(x)
                  ELSE IF x.disabled /\ Running(x) THEN Stop(x, v) ELSE x
             z == [y EXCEPT !.recorded = Running(y)]
  <1>1. /\ y \in Extension /\ Alike(x, y) /\ Held(y)
        /\ Running(y) <=> x.current # 0 /\ ~x.disabled
        /\ ~(x.disabled /\ Running(x)) =>
              /\ y.instances = x.instances
              /\ FreeRuns(x) \ {y.scope} \subseteq FreeRuns(y)
              /\ \A r \in 1..MaxRuns : y.runs[r].of \in {x.runs[r].of, x.current}
    <2>1. CASE x.current # 0 /\ ~x.disabled /\ ~Running(x)
      BY <2>1, StartFacts DEF Alike, Held
    <2>2. CASE x.disabled /\ Running(x)
      <3>1. y = Stop(x, v)
        BY <2>2
      <3>2. ~Running(Stop(x, v))
        BY StopFacts DEF Running
      <3> HIDE DEF y
      <3> QED BY <2>2, <3>1, <3>2, StopFacts DEF Held
    <2>3. CASE ~(x.current # 0 /\ ~x.disabled /\ ~Running(x)) /\ ~(x.disabled /\ Running(x))
      <3>1. y = x
        BY <2>3
      <3>2. Alike(x, x)
        BY DEF Alike
      <3>3. Running(x) <=> x.current # 0 /\ ~x.disabled
        BY <2>3 DEF Held
      <3> HIDE DEF y
      <3> QED BY <3>1, <3>2, <3>3
    <2> QED BY <2>1, <2>2, <2>3
  <1>2. Sync(x, v) = z
    BY DEF Sync
  <1> HIDE DEF y
  <1>3. Running(y) \in BOOLEAN
    BY DEF Running
  <1>4. /\ z \in Extension /\ Alike(y, z) /\ z.scope = y.scope /\ z.runs = y.runs
        /\ z.instances = y.instances /\ z.recorded = Running(y)
    BY <1>1, <1>3 DEF Extension, Alike
  <1>5. Running(z) = Running(y) /\ FreeRuns(z) = FreeRuns(y)
    BY <1>4 DEF Running, FreeRuns
  <1> HIDE DEF z
  <1>6. Resting(z)
    BY <1>1, <1>4, <1>5 DEF Resting, Held, Alike
  <1> QED BY <1>1, <1>2, <1>4, <1>5, <1>6 DEF Alike

LEMMA DropFacts ==
    ASSUME NEW x \in Extension, NEW v \in Stored, Held(x)
    PROVE  LET y == Drop(x, v)
           IN /\ y \in Extension /\ y.current = 0 /\ y.scope = 0 /\ Resting(y)
              /\ y.folder = x.folder /\ y.listed = x.listed /\ y.disabled = x.disabled
              /\ y.crashes = x.crashes /\ FreeRuns(x) \subseteq FreeRuns(y)
  <1> DEFINE s == Stop(x, v)
  <1>1. /\ s \in Extension /\ Alike(x, s) /\ s.scope = 0 /\ FreeRuns(x) \subseteq FreeRuns(s)
    BY StopFacts
  <1>2. Drop(x, v) = [s EXCEPT !.current = 0]
    BY DEF Drop
  <1> HIDE DEF s
  <1>3. 0 \in 0..MaxInstances
    BY BoundsType
  <1> QED BY <1>1, <1>2, <1>3 DEF Extension, Alike, FreeRuns, Resting, Held, Running

LEMMA ReplaceFacts ==
    ASSUME NEW x \in Extension, NEW v \in Stored, Held(x), x.listed \in Versions, FreeInstances(x) # {}
    PROVE  LET y == Replace(x, v)
           IN /\ y \in Extension /\ y.current # 0 /\ y.scope = 0 /\ Held(y)
              /\ y.listed = x.listed /\ FreeRuns(x) \subseteq FreeRuns(y)
  <1> DEFINE gone == Drop(x, v)
             i == CHOOSE i \in FreeInstances(x) : TRUE
             new == [version |-> x.listed, values |-> gone.file, pending |-> FALSE]
  <1>1. /\ gone \in Extension /\ gone.scope = 0 /\ gone.listed = x.listed
        /\ FreeRuns(x) \subseteq FreeRuns(gone)
    BY DropFacts
  <1>2. i \in 1..MaxInstances
    BY DEF FreeInstances
  <1>3. Replace(x, v) = [gone EXCEPT !.current = i, !.instances[i] = new]
    BY DEF Replace
  <1> HIDE DEF gone, i
  <1>4. new \in Instance
    BY <1>1 DEF Extension, Instance
  <1> HIDE DEF new
  <1>5. i \in 0..MaxInstances /\ i # 0
    BY <1>2, BoundsType
  <1>6. [gone.instances EXCEPT ![i] = new] \in [1..MaxInstances -> Instance]
    BY <1>1, <1>2, <1>4 DEF Extension
  <1> QED BY <1>1, <1>3, <1>5, <1>6 DEF Extension, FreeRuns, Held, Running

LEMMA SetDisabledFacts ==
    ASSUME NEW x \in Extension, NEW off \in BOOLEAN, NEW v \in Stored, Resting(x),
           off \/ FreeRuns(x) # {}
    PROVE  LET y == SetDisabled(x, off, v)
           IN /\ y \in Extension /\ Resting(y) /\ y.disabled = off
              /\ y.current = x.current /\ y.listed = x.listed /\ y.folder = x.folder
              /\ y.crashes = x.crashes
              /\ ~off => /\ y.instances = x.instances
                         /\ FreeRuns(x) \ {y.scope} \subseteq FreeRuns(y)
                         /\ \A r \in 1..MaxRuns : y.runs[r].of \in {x.runs[r].of, x.current}
  <1>1. CASE x.disabled = off
    BY <1>1 DEF SetDisabled
  <1>2. CASE x.disabled # off
    <2> DEFINE c == [x EXCEPT !.disabled = off]
    <2>1. /\ c \in Extension /\ c.disabled = off /\ c.current = x.current /\ c.listed = x.listed
          /\ c.folder = x.folder /\ c.crashes = x.crashes /\ c.scope = x.scope
          /\ c.instances = x.instances /\ c.runs = x.runs
      BY DEF Extension
    <2>2. Held(c) /\ FreeRuns(c) = FreeRuns(x) /\ Running(c) = Running(x)
      BY <2>1 DEF Resting, Held, Running, FreeRuns
    <2>3. SetDisabled(x, off, v) = Sync(c, v)
      BY <1>2 DEF SetDisabled
    <2> HIDE DEF c
    <2> QED BY <2>1, <2>2, <2>3, SyncFacts DEF Alike
  <1> QED BY <1>1, <1>2

LEMMA SetProblemFacts ==
    ASSUME NEW x \in Extension, NEW p \in {None, "error"}, NEW v \in Stored, Held(x),
           FreeRuns(x) # {} \/ Resting(x), p # None \/ Resting(x)
    PROVE  LET y == SetProblem(x, p, v)
           IN /\ y \in Extension /\ Resting(y) /\ y.disabled = x.disabled
              /\ y.current = x.current /\ y.listed = x.listed /\ y.folder = x.folder
              /\ y.crashes = x.crashes
              /\ Resting(x) => /\ y.instances = x.instances /\ FreeRuns(x) = FreeRuns(y)
                               /\ \A r \in 1..MaxRuns : y.runs[r].of \in {x.runs[r].of, x.current}
  <1>1. CASE x.problem = None /\ p = None
    BY <1>1 DEF SetProblem
  <1>2. CASE ~(x.problem = None /\ p = None)
    <2> DEFINE c == [x EXCEPT !.problem = p]
    <2>1. /\ c \in Extension /\ c.disabled = x.disabled /\ c.current = x.current /\ c.listed = x.listed
          /\ c.folder = x.folder /\ c.crashes = x.crashes /\ c.scope = x.scope
          /\ c.instances = x.instances /\ c.runs = x.runs
      BY DEF Extension
    <2>2. Held(c) /\ FreeRuns(c) = FreeRuns(x) /\ Running(c) = Running(x)
      BY <2>1 DEF Held, Running, FreeRuns
    <2>3. SetProblem(x, p, v) = Sync(c, v)
      BY <1>2 DEF SetProblem
    <2>4. Resting(x) => Sync(c, v) = [c EXCEPT !.recorded = Running(c)]
      BY <2>1, <2>2 DEF Resting, Sync
    <2>5. Resting(x) => /\ Sync(c, v).runs = c.runs /\ Sync(c, v).instances = c.instances
      BY <2>1, <2>4 DEF Extension
    <2> HIDE DEF c
    <2>6. Sync(c, v) \in Extension /\ Alike(c, Sync(c, v)) /\ Resting(Sync(c, v))
      BY <2>1, <2>2, SyncFacts DEF Resting
    <2> QED BY <2>1, <2>2, <2>3, <2>5, <2>6 DEF Alike, FreeRuns
  <1> QED BY <1>1, <1>2

LEMMA NoneStored == None \in Stored
  BY DEF Stored

\* An extension may run once it is turned on, in a run that was free.
LEMMA TurnOnFacts ==
    ASSUME NEW x \in Extension, Resting(x), FreeRuns(x) # {}
    PROVE  LET y == TurnOn(x)
           IN /\ y \in Extension /\ Resting(y)
              /\ y.current = x.current /\ y.listed = x.listed /\ y.folder = x.folder
              /\ y.instances = x.instances
              /\ FreeRuns(x) \ {y.scope} \subseteq FreeRuns(y)
              /\ \A r \in 1..MaxRuns : y.runs[r].of \in {x.runs[r].of, x.current}
  <1> DEFINE p == SetProblem(x, None, None)
  <1>1. /\ p \in Extension /\ Resting(p) /\ p.current = x.current /\ p.listed = x.listed
        /\ p.folder = x.folder /\ p.instances = x.instances /\ FreeRuns(p) = FreeRuns(x)
        /\ \A r \in 1..MaxRuns : p.runs[r].of \in {x.runs[r].of, x.current}
    BY SetProblemFacts, NoneStored DEF Resting
  <1>2. TurnOn(x) = SetDisabled(p, FALSE, None)
    BY DEF TurnOn
  <1> HIDE DEF p
  <1>3. LET y == SetDisabled(p, FALSE, None)
        IN /\ y \in Extension /\ Resting(y) /\ y.current = p.current /\ y.listed = p.listed
           /\ y.folder = p.folder /\ y.instances = p.instances
           /\ FreeRuns(p) \ {y.scope} \subseteq FreeRuns(y)
           /\ \A r \in 1..MaxRuns : y.runs[r].of \in {p.runs[r].of, p.current}
    BY <1>1, SetDisabledFacts, NoneStored
  <1> QED BY <1>1, <1>2, <1>3

\* An extension that failed is off.
LEMMA FailedFacts ==
    ASSUME NEW x \in Extension, NEW v \in Stored, Held(x), FreeRuns(x) # {}
    PROVE  LET y == Failed(x, v)
           IN y \in Extension /\ Resting(y) /\ y.current = x.current /\ y.listed = x.listed
  <1> DEFINE s == Stop(x, v)
             p == SetProblem(s, "error", None)
  <1>1. /\ s \in Extension /\ Held(s) /\ FreeRuns(s) # {} /\ s.current = x.current
        /\ s.listed = x.listed
    BY StopFacts DEF Alike, Held, Running
  <1> HIDE DEF s
  <1>2. "error" # None
    BY ExtensionsAssumption
  <1>3. p \in Extension /\ Resting(p) /\ p.current = x.current /\ p.listed = x.listed
    BY <1>1, <1>2, SetProblemFacts, NoneStored
  <1>4. Failed(x, v) = SetDisabled(p, TRUE, None)
    BY DEF Failed, p, s
  <1> HIDE DEF p
  <1>5. LET y == SetDisabled(p, TRUE, None)
        IN y \in Extension /\ Resting(y) /\ y.current = p.current /\ y.listed = p.listed
    BY <1>3, SetDisabledFacts, NoneStored
  <1> QED BY <1>3, <1>4, <1>5

\* An extension with an instance was found in a folder.
Known(x) == x.current # 0 => x.listed # None

LEMMA RescanFacts ==
    ASSUME NEW x \in Extension, NEW v \in Stored, Held(x), FreeRuns(x) # {},
           x.folder \in Versions => FreeInstances(x) # {}
    PROVE  Rescan(x, v) \in Extension /\ Resting(Rescan(x, v)) /\ Known(Rescan(x, v))
  <1> DEFINE y == [x EXCEPT !.listed = x.folder]
             z == IF y.listed = None THEN Drop(y, v)
                  ELSE IF y.listed \in Versions /\ (y.current = 0 \/ y.instances[y.current].version # y.listed)
                  THEN Replace(y, v) ELSE y
  <1>1. /\ y \in Extension /\ y.listed = x.folder /\ y.current = x.current /\ y.scope = x.scope
        /\ y.runs = x.runs /\ y.instances = x.instances
    BY DEF Extension
  <1>2. Held(y) /\ FreeRuns(y) = FreeRuns(x) /\ FreeInstances(y) = FreeInstances(x)
    BY <1>1 DEF Held, Running, FreeRuns, FreeInstances
  <1>3. Rescan(x, v) = Sync(z, v)
    BY DEF Rescan
  <1> HIDE DEF y
  <1>4. z \in Extension /\ Held(z) /\ FreeRuns(z) # {} /\ Known(z)
    <2>1. CASE y.listed = None
      BY <1>1, <1>2, <2>1, DropFacts DEF Resting, Known
    <2>2. CASE /\ y.listed # None
               /\ y.listed \in Versions /\ (y.current = 0 \/ y.instances[y.current].version # y.listed)
      BY <1>1, <1>2, <2>2, ReplaceFacts DEF Known
    <2>3. CASE y.listed # None /\ ~(y.listed \in Versions /\ (y.current = 0 \/ y.instances[y.current].version # y.listed))
      BY <1>1, <1>2, <2>3 DEF Known
    <2> QED BY <2>1, <2>2, <2>3
  <1> HIDE DEF z
  <1> QED BY <1>3, <1>4, SyncFacts DEF Alike, Known

LEMMA SyncResting ==
    ASSUME NEW x \in Extension, NEW v \in Stored, Resting(x), Known(x)
    PROVE  Sync(x, v) \in Extension /\ Resting(Sync(x, v)) /\ Known(Sync(x, v))
  BY SyncFacts DEF Resting, Known, Alike

LEMMA CollectedFacts ==
    ASSUME NEW x \in Extension
    PROVE  /\ Collected(x) \in Extension
           /\ Resting(x) => Resting(Collected(x))
           /\ Known(x) => Known(Collected(x))
  <1> DEFINE left == [i \in 1..MaxInstances |->
                         IF i = x.current THEN x.instances[i]
                         ELSE IF x.instances[i].pending THEN [x.instances[i] EXCEPT !.version = None]
                         ELSE Unmade]
  <1>1. left \in [1..MaxInstances -> Instance]
    BY NoneStored DEF Extension, Instance, Unmade
  <1>2. Collected(x) = [x EXCEPT !.instances = left]
    BY DEF Collected
  <1> HIDE DEF left
  <1> QED BY <1>1, <1>2 DEF Extension, Resting, Held, Running, Known

LEMMA ForgetFacts ==
    ASSUME NEW x \in Extension, Held(x)
    PROVE  LET y == Forget(x)
           IN /\ y \in Extension /\ Held(y) /\ y.folder = x.folder
              /\ FreeRuns(y) = FreeRuns(x)
  <1>1. CASE x.current = 0
    BY <1>1 DEF Forget
  <1>2. CASE x.current # 0
    <2> DEFINE inst == [x.instances EXCEPT ![x.current] = [@ EXCEPT !.values = None, !.pending = FALSE]]
    <2>1. x.current \in 1..MaxInstances
      BY <1>2, BoundsType DEF Extension
    <2>2. inst \in [1..MaxInstances -> Instance]
      <3>1. [x.instances[x.current] EXCEPT !.values = None, !.pending = FALSE] \in Instance
        BY <2>1, NoneStored DEF Extension, Instance
      <3> QED BY <2>1, <3>1 DEF Extension
    <2>3. Forget(x) = [x EXCEPT !.file = None, !.last = None, !.instances = inst]
      BY <1>2 DEF Forget, Extension
    <2> HIDE DEF inst
    <2>4. /\ Forget(x).current = x.current /\ Forget(x).scope = x.scope /\ Forget(x).runs = x.runs
          /\ Forget(x).folder = x.folder
      BY <2>3 DEF Extension
    <2>5. Forget(x) \in Extension
      BY <2>2, <2>3, NoneStored DEF Extension
    <2> QED BY <2>4, <2>5 DEF Held, Running, FreeRuns
  <1> QED BY <1>1, <1>2

LEMMA EraseFacts ==
    ASSUME NEW x \in Extension, NEW v \in Stored, Held(x), FreeRuns(x) # {}
    PROVE  LET y == Erase(x, v)
           IN y \in Extension /\ Resting(y) /\ y.current = 0 /\ y.folder = None /\ FreeRuns(y) # {}
  <1> DEFINE d == Drop(Forget(x), v)
             gone == [d EXCEPT !.folder = None]
             p == SetProblem(gone, None, None)
  <1>1. d \in Extension /\ d.current = 0 /\ d.scope = 0 /\ FreeRuns(d) # {}
    BY ForgetFacts, DropFacts
  <1> HIDE DEF d
  <1>2. /\ gone \in Extension /\ gone.current = 0 /\ gone.scope = 0 /\ gone.folder = None
        /\ FreeRuns(gone) # {}
    BY <1>1 DEF Extension, Folders, FreeRuns
  <1>3. Erase(x, v) = SetDisabled(p, FALSE, None)
    BY DEF Erase, d, gone, p
  <1> HIDE DEF gone
  <1>4. Resting(gone) /\ Held(gone)
    BY <1>2 DEF Resting, Held, Running
  <1>5. p \in Extension /\ Resting(p) /\ p.current = 0 /\ p.folder = None /\ FreeRuns(p) # {}
    BY <1>2, <1>4, SetProblemFacts, NoneStored
  <1> HIDE DEF p
  <1>6. LET y == SetDisabled(p, FALSE, None)
        IN /\ y \in Extension /\ Resting(y) /\ y.current = 0 /\ y.folder = None
           /\ FreeRuns(p) \ {y.scope} \subseteq FreeRuns(y)
    BY <1>5, SetDisabledFacts, NoneStored
  <1>7. LET y == SetDisabled(p, FALSE, None) IN y.scope = 0
    BY <1>6 DEF Resting, Held, Running
  <1>8. 0 \notin FreeRuns(p)
    BY BoundsType DEF FreeRuns
  <1> QED BY <1>3, <1>5, <1>6, <1>7, <1>8

-----------------------------------------------------------------------------
(* The inductive invariant, and what the kinds of steps do with it. *)

\* Nothing of an extension runs while Kestrel doesn't.
Unstarted(x) ==
    /\ x.current = 0 /\ x.scope = 0
    /\ x.runs = [r \in 1..MaxRuns |-> Free] /\ x.instances = [i \in 1..MaxInstances |-> Unmade]

\* Every extension is as an operation that ended leaves it.
Settle(e) == e \in [Ids -> Extension] /\ \A id \in Ids : Resting(e[id]) /\ Known(e[id])

ExtensionsInv ==
    /\ up \in BOOLEAN /\ crashed \in BOOLEAN /\ streak \in [Ids -> Nat]
    /\ Settle(ext)
    /\ ~up => \A id \in Ids : Unstarted(ext[id])
    /\ ~up /\ crashed => \A id \in Ids : ext[id].crashes < MaxCrashes

LEMMA OnlySettles ==
    ASSUME Settle(ext), NEW id \in Ids, NEW x \in Extension, Resting(x), Known(x), Only(id, x)
    PROVE  Settle(ext')
  BY CollectedFacts DEF Settle, Only

LEMMA ChangeSettles ==
    ASSUME Settle(ext), NEW id \in Ids, NEW x \in Extension, Resting(x), Known(x), Change(id, x)
    PROVE  Settle(ext')
  <1>1. CASE UNCHANGED ext
    BY <1>1
  <1>2. CASE ext' = [other \in Ids |-> IF other = id THEN Collected(x) ELSE Sync(ext[other], None)]
    BY <1>2, CollectedFacts, SyncResting, NoneStored DEF Settle
  <1> QED BY <1>1, <1>2 DEF Change

LEMMA RunsAreFinite ==
    ASSUME NEW x PROVE IsFiniteSet(FreeRuns(x)) /\ Cardinality(FreeRuns(x)) \in Nat
  <1>1. IsFiniteSet(1..MaxRuns)
    BY BoundsType, FS_Interval
  <1> QED BY <1>1, FS_Subset, FS_CardinalityType DEF FreeRuns

LEMMA RoomFacts ==
    ASSUME NEW x
    PROVE  /\ Room(x, 1) => FreeRuns(x) # {} /\ FreeInstances(x) # {}
           /\ Room(x, 2) => /\ FreeRuns(x) # {} /\ FreeInstances(x) # {}
                            /\ \A r : FreeRuns(x) \ {r} # {}
  <1>1. Cardinality({}) = 0
    BY FS_EmptySet
  <1>2. ASSUME NEW r, FreeRuns(x) \subseteq {r} PROVE Cardinality(FreeRuns(x)) <= 1
    <2>1. IsFiniteSet({r}) /\ Cardinality({r}) = 1
      BY FS_Singleton
    <2>2. Cardinality(FreeRuns(x)) <= Cardinality({r})
      BY <1>2, <2>1, FS_Subset
    <2> QED BY <2>1, <2>2
  <1> QED BY <1>1, <1>2, RunsAreFinite DEF Room

LEMMA ReloadSettles ==
    ASSUME Settle(ext), NEW id \in Ids, Reload(id)
    PROVE  Settle(ext')
  <1> DEFINE x == ext[id]
             again == /\ x.folder \in Versions /\ x.current # 0 /\ x.problem # None
                      /\ x.instances[x.current].version # x.folder
             t == IF again THEN TurnOn(x) ELSE x
             y == [t EXCEPT !.listed = x.folder]
  <1>1. x \in Extension /\ Resting(x) /\ Known(x) /\ FreeRuns(x) # {} /\ FreeInstances(x) # {}
        /\ \A r : FreeRuns(x) \ {r} # {}
    BY RoomFacts DEF Settle, Reload
  <1>2. PICK v \in Stored :
          LET z == Sync(IF y.listed \in Versions THEN Replace(y, v) ELSE Drop(y, v), v)
          IN ext' = [other \in Ids |-> IF other = id THEN Collected(z) ELSE Sync(ext[other], None)]
    BY DEF Reload
  <1>3. /\ t \in Extension /\ Resting(t) /\ FreeRuns(t) # {} /\ t.current = x.current
        /\ t.instances = x.instances /\ \A r \in 1..MaxRuns : t.runs[r].of \in {x.runs[r].of, x.current}
    <2>1. CASE again
      <3>1. t = TurnOn(x)
        BY <2>1
      <3> HIDE DEF t, x
      <3> QED BY <1>1, <3>1, TurnOnFacts
    <2>2. CASE ~again
      BY <1>1, <2>2
    <2> QED BY <2>1, <2>2
  <1>4. x.folder \in Folders
    BY <1>1 DEF Extension
  <1> HIDE DEF t, x
  <1>5. /\ y \in Extension /\ y.current = t.current /\ y.instances = t.instances /\ y.runs = t.runs
        /\ y.scope = t.scope
    BY <1>3, <1>4 DEF Extension
  <1> HIDE DEF y
  <1>6. Held(y) /\ FreeRuns(y) # {} /\ FreeInstances(y) # {}
    BY <1>1, <1>3, <1>5 DEF Resting, Held, Running, FreeRuns, FreeInstances
  <1> DEFINE w == IF y.listed \in Versions THEN Replace(y, v) ELSE Drop(y, v)
  <1>7. w \in Extension /\ Held(w) /\ FreeRuns(w) # {} /\ Known(w)
    <2>1. CASE y.listed \in Versions
      <3>1. None \notin Versions
        BY ExtensionsAssumption
      <3> QED BY <1>5, <1>6, <2>1, <3>1, ReplaceFacts DEF Known
    <2>2. CASE y.listed \notin Versions
      BY <1>5, <1>6, <2>2, DropFacts DEF Known, Resting
    <2> QED BY <2>1, <2>2
  <1> HIDE DEF w
  <1>8. Sync(w, v) \in Extension /\ Resting(Sync(w, v)) /\ Known(Sync(w, v))
    BY <1>7, SyncFacts DEF Alike, Known
  <1>9. ext' = [other \in Ids |-> IF other = id THEN Collected(Sync(w, v)) ELSE Sync(ext[other], None)]
    BY <1>2 DEF w
  <1> QED BY <1>8, <1>9, CollectedFacts, SyncResting, NoneStored DEF Settle

-----------------------------------------------------------------------------
(* Every step keeps it. *)

LEMMA PersonSettles ==
    ASSUME Settle(ext), NEW id \in Ids, Enable(id) \/ Disable(id)
    PROVE  Settle(ext')
  <1>1. ext[id] \in Extension /\ Resting(ext[id]) /\ Known(ext[id])
    BY DEF Settle
  <1>2. CASE Enable(id)
    <2>1. LET x == TurnOn(ext[id]) IN x \in Extension /\ Resting(x) /\ Known(x) /\ Change(id, x)
      BY <1>1, <1>2, TurnOnFacts DEF Enable, Known
    <2> QED BY <2>1, ChangeSettles
  <1>3. CASE Disable(id)
    <2>1. PICK v \in Stored : Change(id, SetDisabled(ext[id], TRUE, v))
      BY <1>3 DEF Disable
    <2>2. LET x == SetDisabled(ext[id], TRUE, v) IN x \in Extension /\ Resting(x) /\ Known(x)
      BY <1>1, SetDisabledFacts DEF Known
    <2> QED BY <2>1, <2>2, ChangeSettles
  <1> QED BY <1>2, <1>3

LEMMA RemoveSettles ==
    ASSUME Settle(ext), NEW id \in Ids, Remove(id)
    PROVE  Settle(ext')
  <1>1. PICK v \in [Ids -> Stored] :
          ext' = [other \in Ids |->
                     Collected(Rescan(IF other = id THEN Erase(ext[id], v[id]) ELSE ext[other], v[other]))]
    BY DEF Remove
  <1>2. ASSUME NEW other \in Ids
        PROVE  LET x == Collected(Rescan(IF other = id THEN Erase(ext[id], v[id]) ELSE ext[other], v[other]))
               IN x \in Extension /\ Resting(x) /\ Known(x)
    <2> DEFINE from == IF other = id THEN Erase(ext[id], v[id]) ELSE ext[other]
    <2>1. /\ ext[other] \in Extension /\ Held(ext[other]) /\ FreeRuns(ext[other]) # {}
          /\ FreeInstances(ext[other]) # {}
      BY RoomFacts DEF Settle, Remove, Resting
    <2>2. from \in Extension /\ Held(from) /\ FreeRuns(from) # {}
          /\ (from.folder \in Versions => FreeInstances(from) # {})
      <3>1. None \notin Versions
        BY ExtensionsAssumption
      <3> QED BY <2>1, <3>1, EraseFacts DEF Resting
    <2> HIDE DEF from
    <2>3. /\ Rescan(from, v[other]) \in Extension /\ Resting(Rescan(from, v[other]))
          /\ Known(Rescan(from, v[other]))
      BY <2>2, RescanFacts
    <2>4. LET x == Collected(Rescan(from, v[other])) IN x \in Extension /\ Resting(x) /\ Known(x)
      BY <2>3, CollectedFacts
    <2> QED BY <2>4 DEF from
  <1> QED BY <1>1, <1>2 DEF Settle

LEMMA RemoveFailsSettles ==
    ASSUME Settle(ext), NEW id \in Ids, RemoveFails(id)
    PROVE  Settle(ext')
  <1>1. PICK v \in Stored, f \in {ext[id].folder, Broken, None} :
          Only(id, [Drop(Forget(ext[id]), v) EXCEPT !.folder = f])
    BY DEF RemoveFails
  <1>2. ext[id] \in Extension /\ Held(ext[id])
    BY DEF Settle, Resting
  <1> DEFINE d == Drop(Forget(ext[id]), v)
             x == [d EXCEPT !.folder = f]
  <1>3. d \in Extension /\ d.current = 0 /\ d.scope = 0
    BY <1>2, ForgetFacts, DropFacts
  <1>4. f \in Folders
    BY <1>2 DEF Extension, Folders
  <1> HIDE DEF d
  <1>5. x \in Extension /\ x.current = 0 /\ x.scope = 0
    BY <1>3, <1>4 DEF Extension
  <1>6. Only(id, x)
    BY <1>1 DEF d
  <1> HIDE DEF x
  <1>7. Resting(x) /\ Known(x)
    BY <1>5 DEF Resting, Held, Running, Known
  <1> QED BY <1>5, <1>6, <1>7, OnlySettles

LEMMA RescanAllSettles ==
    ASSUME Settle(ext), RemoveOther \/ RestartAll
    PROVE  Settle(ext')
  <1>1. ASSUME NEW id \in Ids
        PROVE  /\ ext[id] \in Extension /\ Resting(ext[id]) /\ Held(ext[id]) /\ Known(ext[id])
               /\ FreeRuns(ext[id]) # {} /\ FreeInstances(ext[id]) # {}
    BY RoomFacts DEF Settle, RemoveOther, RestartAll, Resting
  <1>2. CASE RemoveOther
    <2>1. PICK v \in [Ids -> Stored] : ext' = [id \in Ids |-> Collected(Rescan(ext[id], v[id]))]
      BY <1>2 DEF RemoveOther
    <2>2. ASSUME NEW id \in Ids
          PROVE LET x == Collected(Rescan(ext[id], v[id])) IN x \in Extension /\ Resting(x) /\ Known(x)
      <3>1. LET x == Rescan(ext[id], v[id]) IN x \in Extension /\ Resting(x) /\ Known(x)
        BY <1>1, RescanFacts
      <3> QED BY <3>1, CollectedFacts
    <2> QED BY <2>1, <2>2 DEF Settle
  <1>3. CASE RestartAll
    <2>1. PICK v \in [Ids -> Stored] :
            ext' = [id \in Ids |->
                       Collected(Sync(IF ext[id].listed \in Versions THEN Replace(ext[id], v[id]) ELSE ext[id],
                                      None))]
      BY <1>3 DEF RestartAll
    <2>2. ASSUME NEW id \in Ids
          PROVE  LET x == Collected(Sync(IF ext[id].listed \in Versions THEN Replace(ext[id], v[id])
                                         ELSE ext[id], None))
                 IN x \in Extension /\ Resting(x) /\ Known(x)
      <3> DEFINE w == IF ext[id].listed \in Versions THEN Replace(ext[id], v[id]) ELSE ext[id]
      <3>1. None \notin Versions
        BY ExtensionsAssumption
      <3>2. w \in Extension /\ Held(w) /\ FreeRuns(w) # {} /\ Known(w)
        BY <1>1, <3>1, ReplaceFacts DEF Known
      <3> HIDE DEF w
      <3>3. LET x == Sync(w, None) IN x \in Extension /\ Resting(x) /\ Known(x)
        BY <3>2, SyncFacts, NoneStored DEF Alike, Known
      <3>4. LET x == Collected(Sync(w, None)) IN x \in Extension /\ Resting(x) /\ Known(x)
        BY <3>3, CollectedFacts
      <3> QED BY <3>4 DEF w
    <2> QED BY <2>1, <2>2 DEF Settle
  <1> QED BY <1>2, <1>3

\* A run that isn't the open one ends.
LEMMA SettledResting ==
    ASSUME NEW x \in Extension, NEW r \in 1..MaxRuns, r # x.scope, Resting(x), Known(x)
    PROVE  Settled(x, r) \in Extension /\ Resting(Settled(x, r)) /\ Known(Settled(x, r))
  <1>1. Running(x) => x.scope \in 1..MaxRuns \ {r}
    BY BoundsType DEF Running, Extension
  <1> QED BY <1>1, SettledFacts DEF Resting, Held, Running, Known, Alike

LEMMA StageResting ==
    ASSUME NEW x \in Extension, NEW r \in 1..MaxRuns, NEW s \in {"enabling", "on"}, Resting(x), Known(x)
    PROVE  LET y == [x EXCEPT !.runs[r].stage = s] IN y \in Extension /\ Resting(y) /\ Known(y)
  <1> DEFINE runs == [x.runs EXCEPT ![r].stage = s]
             y == [x EXCEPT !.runs[r].stage = s]
  <1>1. x.runs \in [1..MaxRuns -> Run]
    BY DEF Extension
  <1>2. runs \in [1..MaxRuns -> Run] /\ \A q \in 1..MaxRuns : runs[q].of = x.runs[q].of
    BY <1>1 DEF Run
  <1>3. y = [x EXCEPT !.runs = runs]
    BY DEF Extension
  <1> HIDE DEF runs
  <1>4. /\ y \in Extension /\ y.runs = runs /\ y.scope = x.scope /\ y.current = x.current
        /\ y.disabled = x.disabled /\ y.recorded = x.recorded /\ y.listed = x.listed
    BY <1>2, <1>3 DEF Extension
  <1>5. Running(x) => x.scope \in 1..MaxRuns
    BY BoundsType DEF Running, Extension
  <1> HIDE DEF y
  <1>6. Resting(y) /\ Known(y)
    BY <1>2, <1>4, <1>5 DEF Resting, Held, Running, Known
  <1> QED BY <1>4, <1>6 DEF y

LEMMA ComesBackSettles ==
    ASSUME Settle(ext), NEW id \in Ids, NEW r \in 1..MaxRuns, Loaded(id, r) \/ Enabled(id, r)
    PROVE  Settle(ext')
  <1>1. ext[id] \in Extension /\ Resting(ext[id]) /\ Known(ext[id])
    BY DEF Settle
  <1>2. CASE ext[id].scope = r
    <2>1. PICK s \in {"enabling", "on"} : Only(id, [ext[id] EXCEPT !.runs[r].stage = s])
      BY <1>2 DEF Loaded, Enabled
    <2> QED BY <1>1, <2>1, StageResting, OnlySettles
  <1>3. CASE ext[id].scope # r
    <2>1. Only(id, Settled(ext[id], r))
      BY <1>3 DEF Loaded, Enabled
    <2> QED BY <1>1, <1>3, <2>1, SettledResting, OnlySettles
  <1> QED BY <1>2, <1>3

LEMMA FailureSettles ==
    ASSUME Settle(ext), NEW id \in Ids,
           CallbackFails(id) \/ \E r \in 1..MaxRuns : StartFails(id, r)
    PROVE  Settle(ext')
  <1> DEFINE x == ext[id]
  <1>1. x \in Extension /\ Resting(x) /\ Held(x) /\ Known(x)
    BY DEF Settle, Resting
  <1>2. CASE CallbackFails(id)
    <2>1. PICK v \in Stored : Change(id, Failed(x, v)) /\ FreeRuns(x) # {}
      BY <1>2 DEF CallbackFails
    <2>2. LET y == Failed(x, v) IN y \in Extension /\ Resting(y) /\ Known(y)
      BY <1>1, <2>1, FailedFacts DEF Known
    <2> QED BY <2>1, <2>2, ChangeSettles
  <1>3. ASSUME NEW r \in 1..MaxRuns, StartFails(id, r) PROVE Settle(ext')
    <2> DEFINE stopped(v) == Settled(IF x.scope = r THEN Stop(x, v) ELSE x, r)
    <2>1. PICK v \in Stored : IF x.runs[r].of = x.current THEN Change(id, Failed(stopped(v), v))
                              ELSE Only(id, stopped(v))
      BY <1>3 DEF StartFails
    <2>2. CASE x.scope = r
      <3>1. x.runs[r].of = x.current
        BY <1>1, <2>2, BoundsType DEF Held, Running
      <3>2. LET s == Stop(x, v) IN s \in Extension /\ s.scope = 0 /\ s.current = x.current /\ s.listed = x.listed
        BY <1>1, StopFacts DEF Alike
      <3>3. LET s == stopped(v)
            IN s \in Extension /\ s.scope = 0 /\ s.current = x.current /\ s.listed = x.listed /\ FreeRuns(s) # {}
        BY <2>2, <3>2, SettledFacts DEF Alike
      <3> HIDE DEF stopped, x
      <3>4. Held(stopped(v))
        BY <3>3 DEF Held, Running
      <3>5. LET y == Failed(stopped(v), v) IN y \in Extension /\ Resting(y) /\ Known(y)
        BY <1>1, <3>3, <3>4, FailedFacts DEF Known
      <3>6. Change(id, Failed(stopped(v), v))
        BY <2>1, <3>1
      <3> QED BY <3>5, <3>6, ChangeSettles
    <2>3. CASE x.scope # r
      <3>1. stopped(v) = Settled(x, r)
        BY <2>3
      <3>2. LET s == Settled(x, r) IN s \in Extension /\ Resting(s) /\ Known(s) /\ FreeRuns(s) # {}
        BY <1>1, <2>3, SettledResting, SettledFacts
      <3> HIDE DEF stopped, x
      <3>3. LET y == Failed(stopped(v), v) IN y \in Extension /\ Resting(y) /\ Known(y)
        BY <3>1, <3>2, FailedFacts DEF Known, Resting
      <3> QED BY <2>1, <3>1, <3>2, <3>3, ChangeSettles, OnlySettles
    <2> QED BY <2>2, <2>3
  <1> QED BY <1>2, <1>3

LEMMA SameRunResting ==
    ASSUME NEW x \in Extension, NEW y \in Extension, Resting(x), Known(x), Alike(x, y),
           y.scope = x.scope, y.runs = x.runs, y.recorded = x.recorded
    PROVE  Resting(y) /\ Known(y)
  BY DEF Resting, Held, Running, Known, Alike

LEMMA StorageSettles ==
    ASSUME Settle(ext), NEW id \in Ids,
           \/ \E r \in 1..MaxRuns : Stores(id, r)
           \/ \E i \in 1..MaxInstances : Write(id, i)
    PROVE  Settle(ext')
  <1> DEFINE x == ext[id]
  <1>1. x \in Extension /\ Resting(x) /\ Known(x)
    BY DEF Settle
  <1>2. ASSUME NEW r \in 1..MaxRuns, Stores(id, r) PROVE Settle(ext')
    <2>1. PICK v \in Values : Only(id, Set(x, x.runs[r].of, v))
      BY <1>2 DEF Stores
    <2>2. v \in Stored /\ x.runs[r].of \in 0..MaxInstances
      BY <1>1 DEF Stored, Extension, Run
    <2>3. CASE x.runs[r].of \in 1..MaxInstances
      <3>1. LET y == Set(x, x.runs[r].of, v) IN y \in Extension /\ Resting(y) /\ Known(y)
        BY <1>1, <2>2, <2>3, SetFacts, SameRunResting
      <3> QED BY <2>1, <3>1, OnlySettles
    <2>4. CASE x.runs[r].of = 0
      <3> DEFINE y == Set(x, 0, v)
      <3>1. x.instances \in [1..MaxInstances -> Instance]
        BY <1>1 DEF Extension
      <3>2. \A e : [x.instances EXCEPT ![0] = e] = x.instances
        <4> HIDE DEF x
        <4> SUFFICES ASSUME NEW e PROVE [x.instances EXCEPT ![0] = e] = x.instances
          OBVIOUS
        <4>1. \A i \in 1..MaxInstances : [x.instances EXCEPT ![0] = e][i] = x.instances[i]
          BY <3>1, BoundsType
        <4>2. DOMAIN [x.instances EXCEPT ![0] = e] = 1..MaxInstances
          BY <3>1
        <4> QED BY <3>1, <4>1, <4>2
      <3>3. y = [x EXCEPT !.last = IF 0 = x.current THEN v ELSE @]
        BY <1>1, <3>2 DEF Set, Extension
      <3> HIDE DEF x
      <3>4. /\ y \in Extension /\ Alike(x, y) /\ y.scope = x.scope /\ y.runs = x.runs
            /\ y.recorded = x.recorded
        BY <1>1, <2>2, <3>3 DEF Extension, Alike
      <3> HIDE DEF y
      <3>5. Resting(y) /\ Known(y)
        BY <1>1, <3>4, SameRunResting
      <3>6. Only(id, y)
        BY <2>1, <2>4 DEF y
      <3> QED BY <3>4, <3>5, <3>6, OnlySettles
    <2> QED BY <2>2, <2>3, <2>4, BoundsType
  <1>3. ASSUME NEW i \in 1..MaxInstances, Write(id, i) PROVE Settle(ext')
    <2> DEFINE f == Flush(x, i)
               y == [f EXCEPT !.last = IF i = f.current THEN @ ELSE Latest(f)]
    <2>1. Only(id, y)
      BY <1>3 DEF Write
    <2>2. f \in Extension /\ Alike(x, f) /\ f.scope = x.scope /\ f.runs = x.runs /\ f.recorded = x.recorded
      BY <1>1, FlushFacts
    <2> HIDE DEF f
    <2>3. f.current # 0 => f.current \in 1..MaxInstances
      BY <2>2, BoundsType DEF Extension
    <2>4. Latest(f) \in Stored
      BY <2>2, <2>3 DEF Latest, Extension, Instance
    <2> HIDE DEF x
    <2>5. y \in Extension /\ Alike(x, y) /\ y.scope = x.scope /\ y.runs = x.runs /\ y.recorded = x.recorded
      BY <2>2, <2>4 DEF Extension, Alike
    <2> HIDE DEF y
    <2>6. Resting(y) /\ Known(y)
      BY <1>1, <2>5, SameRunResting
    <2> QED BY <2>1, <2>5, <2>6, OnlySettles
  <1> QED BY <1>2, <1>3

LEMMA UnpackSettles ==
    ASSUME Settle(ext), NEW id \in Ids, Unpack(id)
    PROVE  /\ Settle(ext')
           /\ \A other \in Ids : /\ Unstarted(ext[other]) => Unstarted(ext'[other])
                                 /\ ext'[other].crashes = ext[other].crashes
  <1>1. PICK f \in Folders : ext' = [ext EXCEPT ![id].folder = f]
    BY DEF Unpack
  <1> DEFINE x == ext[id]
             y == [x EXCEPT !.folder = f]
  <1>2. x \in Extension /\ Resting(x) /\ Known(x) /\ ext \in [Ids -> Extension]
    BY DEF Settle
  <1>3. ext' = [ext EXCEPT ![id] = y]
    BY <1>1
  <1> HIDE DEF x
  <1>4. /\ y \in Extension /\ y.scope = x.scope /\ y.runs = x.runs /\ y.recorded = x.recorded
        /\ y.instances = x.instances /\ y.crashes = x.crashes /\ y.current = x.current
        /\ y.disabled = x.disabled /\ y.listed = x.listed
    BY <1>2 DEF Extension
  <1> HIDE DEF y
  <1>5. Resting(y) /\ Known(y) /\ (Unstarted(x) => Unstarted(y))
    BY <1>2, <1>4 DEF Resting, Held, Running, Known, Unstarted
  <1>6. \A other \in Ids : ext'[other] = IF other = id THEN y ELSE ext[other]
    BY <1>2, <1>3
  <1>7. ext' \in [Ids -> Extension]
    BY <1>2, <1>3, <1>4
  <1> QED BY <1>4, <1>5, <1>6, <1>7 DEF Settle, x

\* A process that ended leaves every extension unstarted.
LEMMA EndedFacts ==
    ASSUME NEW x \in Extension
    PROVE  /\ Ended(x) \in Extension /\ Ended(x).crashes = x.crashes
           /\ Resting(Ended(x)) /\ Known(Ended(x)) /\ Unstarted(Ended(x))
  <1> DEFINE i0 == [i \in 1..MaxInstances |-> Unmade]
             r0 == [r \in 1..MaxRuns |-> Free]
  <1>1. i0 \in [1..MaxInstances -> Instance] /\ r0 \in [1..MaxRuns -> Run]
    BY FreeType, NoneStored DEF Unmade, Instance
  <1>2. None \in Folders /\ 0 \in 0..MaxInstances /\ 0 \in 0..MaxRuns
    BY BoundsType DEF Folders
  <1>3. Ended(x) = [x EXCEPT !.listed = None, !.current = 0, !.scope = 0, !.instances = i0, !.runs = r0]
    BY DEF Ended
  <1> HIDE DEF i0, r0
  <1>4. /\ Ended(x) \in Extension /\ Ended(x).crashes = x.crashes /\ Ended(x).current = 0
        /\ Ended(x).scope = 0 /\ Ended(x).instances = i0 /\ Ended(x).runs = r0
    BY <1>1, <1>2, <1>3 DEF Extension
  <1> QED BY <1>4 DEF Resting, Held, Running, Known, Unstarted, i0, r0

LEMMA EndSettles ==
    ASSUME Settle(ext), Quit \/ Crash
    PROVE  /\ Settle(ext')
           /\ \A id \in Ids : Unstarted(ext'[id])
           /\ Crash => \A id \in Ids : ext'[id].crashes < MaxCrashes
  <1>1. \A id \in Ids : ext[id] \in Extension /\ Held(ext[id])
    BY DEF Settle, Resting
  <1>2. CASE Quit
    <2>1. PICK v \in [Ids -> Stored] : ext' = [id \in Ids |-> Ended(Drop(ext[id], v[id]))]
      BY <1>2 DEF Quit
    <2>2. \A id \in Ids : Drop(ext[id], v[id]) \in Extension
      BY <1>1, DropFacts
    <2>3. ~Crash
      BY <1>2 DEF Quit, Crash
    <2> QED BY <2>1, <2>2, <2>3, EndedFacts DEF Settle
  <1>3. CASE Crash
    <2>1. ext' = [id \in Ids |-> [Ended(ext[id]) EXCEPT !.last = ext[id].file]]
          /\ \A id \in Ids : ext[id].crashes < MaxCrashes
      BY <1>3 DEF Crash
    <2>2. ASSUME NEW id \in Ids
          PROVE  LET y == [Ended(ext[id]) EXCEPT !.last = ext[id].file]
                 IN y \in Extension /\ Resting(y) /\ Known(y) /\ Unstarted(y) /\ y.crashes < MaxCrashes
      <3> DEFINE e == Ended(ext[id])
                 y == [e EXCEPT !.last = ext[id].file]
      <3>1. e \in Extension /\ e.crashes < MaxCrashes /\ Resting(e) /\ Known(e) /\ Unstarted(e)
        BY <1>1, <2>1, EndedFacts
      <3>2. ext[id].file \in Stored
        BY <1>1 DEF Extension
      <3> HIDE DEF e
      <3>3. /\ y \in Extension /\ y.scope = e.scope /\ y.runs = e.runs /\ y.recorded = e.recorded
            /\ y.instances = e.instances /\ y.crashes = e.crashes /\ y.current = e.current
            /\ y.disabled = e.disabled /\ y.listed = e.listed
        BY <3>1, <3>2 DEF Extension
      <3> HIDE DEF y
      <3>4. Resting(y) /\ Known(y) /\ Unstarted(y)
        BY <3>1, <3>3 DEF Resting, Held, Running, Known, Unstarted
      <3> QED BY <3>1, <3>3, <3>4 DEF e, y
    <2> QED BY <2>1, <2>2 DEF Settle
  <1> QED BY <1>2, <1>3

LEMMA StartUpSettles ==
    ASSUME ExtensionsInv, NEW restarted \in BOOLEAN, StartUp(restarted)
    PROVE  Settle(ext')
  <1>1. ASSUME NEW id \in Ids
        PROVE  LET y == Started(ext[id], restarted) IN y \in Extension /\ Resting(y) /\ Known(y)
    <2> DEFINE x == ext[id]
               n == Counted(x, restarted)
               counted == [x EXCEPT !.crashes = n, !.recorded = FALSE]
               kept == IF counted.crashes >= CRASHES_BEFORE_OFF
                       THEN [counted EXCEPT !.problem = "crash", !.disabled = TRUE]
                       ELSE counted
    <2>1. x \in Extension /\ Unstarted(x) /\ (restarted => x.crashes < MaxCrashes)
      BY DEF ExtensionsInv, Settle, StartUp
    <2>2. x.crashes \in 0..MaxCrashes
      BY <2>1 DEF Extension
    <2>3. n \in 0..MaxCrashes
      BY <2>1, <2>2, BoundsType DEF Counted
    <2>4. Started(x, restarted) = Rescan(kept, None)
      BY DEF Started
    <2> HIDE DEF n, x
    <2>5. /\ counted \in Extension /\ counted.current = x.current /\ counted.scope = x.scope
          /\ counted.instances = x.instances /\ counted.runs = x.runs
      BY <2>1, <2>3 DEF Extension
    <2> HIDE DEF counted
    <2>6. /\ kept \in Extension /\ kept.current = x.current /\ kept.scope = x.scope
          /\ kept.instances = x.instances /\ kept.runs = x.runs
      BY <2>5 DEF Extension
    <2> HIDE DEF kept
    <2>7. Held(kept)
      BY <2>1, <2>6 DEF Unstarted, Held, Running
    <2>8. 1 \in FreeRuns(kept)
      BY <2>1, <2>6, BoundsType DEF Unstarted, FreeRuns
    <2>9. 1 \in FreeInstances(kept)
      BY <2>1, <2>6, BoundsType DEF Unstarted, FreeInstances, Unmade, Free
    <2>10. Rescan(kept, None) \in Extension /\ Resting(Rescan(kept, None)) /\ Known(Rescan(kept, None))
      BY <2>6, <2>7, <2>8, <2>9, RescanFacts, NoneStored
    <2> QED BY <2>4, <2>10 DEF x
  <1>2. ext' = [id \in Ids |-> Started(ext[id], restarted)]
    BY DEF StartUp
  <1> QED BY <1>1, <1>2 DEF Settle

-----------------------------------------------------------------------------
(* The theorems. *)

LEMMA StartsInvariant == Init => ExtensionsInv
  <1> SUFFICES ASSUME Init PROVE ExtensionsInv
    OBVIOUS
  <1>1. PICK folders \in [Ids -> Versions \cup {None}] : ext = [id \in Ids |-> Fresh(folders[id])]
    BY DEF Init
  <1>2. ASSUME NEW f \in Versions \cup {None}
        PROVE  Fresh(f) \in Extension /\ Resting(Fresh(f)) /\ Known(Fresh(f)) /\ Unstarted(Fresh(f))
    <2>1. /\ [i \in 1..MaxInstances |-> Unmade] \in [1..MaxInstances -> Instance]
          /\ [r \in 1..MaxRuns |-> Free] \in [1..MaxRuns -> Run]
      BY FreeType, NoneStored DEF Unmade, Instance
    <2>2. f \in Folders /\ None \in Folders
      BY DEF Folders
    <2>3. 0 \in 0..MaxInstances /\ 0 \in 0..MaxRuns /\ 0 \in 0..MaxCrashes
      BY BoundsType
    <2>4. Fresh(f) \in Extension
      BY <2>1, <2>2, <2>3, NoneStored DEF Fresh, Extension
    <2> QED BY <2>4 DEF Fresh, Resting, Held, Running, Known, Unstarted
  <1>3. Settle(ext) /\ \A id \in Ids : Unstarted(ext[id])
    BY <1>1, <1>2 DEF Settle
  <1> QED BY <1>3 DEF Init, ExtensionsInv

LEMMA StepsKeepInvariant == ExtensionsInv /\ [Next]_vars => ExtensionsInv'
  <1> SUFFICES ASSUME ExtensionsInv, [Next]_vars PROVE ExtensionsInv'
    OBVIOUS
  <1>1. Settle(ext)
    BY DEF ExtensionsInv
  <1>2. ASSUME Settle(ext'), up, UNCHANGED <<up, crashed, streak>> PROVE ExtensionsInv'
    BY <1>2 DEF ExtensionsInv, Settle
  <1>3. ASSUME NEW id \in Ids,
               \/ Enable(id) \/ Disable(id) \/ Reload(id) \/ Remove(id) \/ RemoveFails(id)
               \/ CallbackFails(id)
        PROVE  ExtensionsInv'
    <2>1. Settle(ext')
      BY <1>1, <1>3, PersonSettles, ReloadSettles, RemoveSettles, RemoveFailsSettles, FailureSettles
    <2>2. up /\ UNCHANGED <<up, crashed, streak>>
      BY <1>3 DEF Enable, Disable, Reload, Remove, RemoveFails, CallbackFails
    <2> QED BY <1>2, <2>1, <2>2
  <1>4. ASSUME NEW id \in Ids,
               \/ \E r \in 1..MaxRuns : Loaded(id, r) \/ Enabled(id, r) \/ StartFails(id, r) \/ Stores(id, r)
               \/ \E i \in 1..MaxInstances : Write(id, i)
        PROVE  ExtensionsInv'
    <2>1. Settle(ext')
      BY <1>1, <1>4, ComesBackSettles, FailureSettles, StorageSettles
    <2>2. up /\ UNCHANGED <<up, crashed, streak>>
      BY <1>4 DEF Loaded, Enabled, StartFails, Stores, Write
    <2> QED BY <1>2, <2>1, <2>2
  <1>5. CASE RemoveOther \/ RestartAll
    <2>1. up /\ UNCHANGED <<up, crashed, streak>>
      BY <1>5 DEF RemoveOther, RestartAll
    <2> QED BY <1>1, <1>2, <1>5, <2>1, RescanAllSettles
  <1>6. ASSUME NEW id \in Ids, Unpack(id) PROVE ExtensionsInv'
    <2>1. UNCHANGED <<up, crashed, streak>>
      BY <1>6 DEF Unpack
    <2> QED BY <1>1, <1>6, <2>1, UnpackSettles DEF ExtensionsInv, Settle
  <1>7. CASE Quit \/ Crash
    <2>1. up' = FALSE /\ crashed' \in BOOLEAN /\ (crashed' => Crash)
      <3>1. Quit => up' = FALSE /\ crashed' = FALSE
        BY DEF Quit
      <3>2. Crash => up' = FALSE /\ crashed' = TRUE
        BY DEF Crash
      <3> QED BY <1>7, <3>1, <3>2
    <2>2. streak' \in [Ids -> Nat]
      <3>1. \A id \in Ids : streak[id] + 1 \in Nat
        BY DEF ExtensionsInv
      <3>2. Crash => streak' \in [Ids -> Nat]
        BY <3>1 DEF Crash
      <3>3. Quit => streak' \in [Ids -> Nat]
        BY DEF Quit
      <3> QED BY <1>7, <3>2, <3>3
    <2> QED BY <1>1, <1>7, <2>1, <2>2, EndSettles DEF ExtensionsInv, Settle
  <1>8. ASSUME NEW restarted \in BOOLEAN, StartUp(restarted) PROVE ExtensionsInv'
    <2>1. streak' \in [Ids -> Nat] /\ up' = TRUE /\ crashed' = FALSE
      BY <1>8 DEF StartUp, ExtensionsInv
    <2> QED BY <1>8, <2>1, StartUpSettles DEF ExtensionsInv, Settle
  <1>9. CASE UNCHANGED vars
    BY <1>9 DEF vars, ExtensionsInv, Settle
  <1> QED BY <1>3, <1>4, <1>5, <1>6, <1>7, <1>8, <1>9 DEF Next

(* Whatever fails, is replaced or comes back late, every operation on the extensions leaves     *)
(* each of them settled, and a Kestrel that ended leaves nothing of them.                       *)
THEOREM StaysSettled == Spec => []ExtensionsInv
  <1>1. Init => ExtensionsInv
    BY StartsInvariant
  <1>2. ExtensionsInv /\ [Next]_vars => ExtensionsInv'
    BY StepsKeepInvariant
  <1> QED BY <1>1, <1>2, PTL DEF Spec

(* What the manager, its instances and its files keep has its type, and only what the last look *)
(* at the folders found has an instance.                                                        *)
THEOREM Typing == Spec => []TypeOK
  <1>1. ExtensionsInv => TypeOK
    BY DEF ExtensionsInv, Settle, Known, TypeOK
  <1> QED BY <1>1, StaysSettled, PTL

(* Between operations exactly the extensions that have an instance and aren't disabled run, and *)
(* whatever runs is on record should Kestrel crash: for any number of extensions, of instances  *)
(* that were replaced and of runs that are late.                                                *)
THEOREM RunsAsChosen == Spec => []InStepWithChoices
  <1>1. ASSUME ExtensionsInv, NEW id \in Ids
        PROVE  LET x == ext[id]
               IN /\ Running(x) <=> up /\ x.current # 0 /\ ~x.disabled
                  /\ Running(x) => x.runs[x.scope].of = x.current /\ x.recorded
    <2>1. Resting(ext[id]) /\ (~up => ext[id].current = 0) /\ up \in BOOLEAN
      BY <1>1 DEF ExtensionsInv, Settle, Unstarted
    <2> QED BY <2>1 DEF Resting, Held, Running
  <1>2. ExtensionsInv => InStepWithChoices
    BY <1>1 DEF InStepWithChoices
  <1> QED BY <1>2, StaysSettled, PTL

-----------------------------------------------------------------------------
(***************************************************************************)
(* What an extension stored last is kept, whatever stops, replaces or      *)
(* fails it, for every set of extensions and values.                       *)
(***************************************************************************)
(* What the operators on one extension keep. *)

\* What the next instance would read is what was stored last, and every run in use is of an instance.
Whole(x) ==
    /\ Latest(x) = x.last
    /\ \A r \in 1..MaxRuns : x.runs[r].stage # "free" => x.runs[r].of # 0

\* Nothing that the current instance stored has yet to be written.
Written(x) == x.current # 0 => ~x.instances[x.current].pending

LEMMA SameWhole ==
    ASSUME NEW x, NEW y, Whole(x), y.current = x.current, y.file = x.file, y.last = x.last,
           y.instances = x.instances, y.runs = x.runs
    PROVE  Whole(y)
  BY DEF Whole, Latest

LEMMA SetWhole ==
    ASSUME NEW x \in Extension, NEW i \in 1..MaxInstances, NEW v \in Stored, Whole(x)
    PROVE  Whole(Set(x, i, v))
  <1> DEFINE inst == [x.instances EXCEPT ![i] = [@ EXCEPT !.values = v, !.pending = TRUE]]
             y == Set(x, i, v)
  <1>1. x.instances \in [1..MaxInstances -> Instance] /\ i # 0
    BY BoundsType DEF Extension
  <1>2. y = [x EXCEPT !.instances = inst, !.last = IF i = x.current THEN v ELSE @]
    BY DEF Set, Extension
  <1>3. /\ inst[i].values = v /\ inst[i].pending = TRUE
        /\ \A j \in 1..MaxInstances : j # i => inst[j] = x.instances[j]
    BY <1>1 DEF Instance
  <1>4. x.current # 0 => x.current \in 1..MaxInstances
    BY BoundsType DEF Extension
  <1> HIDE DEF inst
  <1>5. /\ y.instances = inst /\ y.current = x.current /\ y.file = x.file /\ y.runs = x.runs
        /\ y.last = IF i = x.current THEN v ELSE x.last
    BY <1>2 DEF Extension
  <1> HIDE DEF y
  <1>6. Whole(y)
    BY <1>1, <1>3, <1>4, <1>5 DEF Whole, Latest
  <1> QED BY <1>6 DEF y

LEMMA FlushWhole ==
    ASSUME NEW x \in Extension, x.current # 0, Whole(x)
    PROVE  Whole(Flush(x, x.current)) /\ Written(Flush(x, x.current))
  <1> DEFINE i == x.current
             inst == [x.instances EXCEPT ![i].pending = FALSE]
             y == Flush(x, i)
  <1>1. x.instances \in [1..MaxInstances -> Instance] /\ i \in 1..MaxInstances
    BY BoundsType DEF Extension
  <1>2. CASE x.instances[i].pending
    <2>1. y = [x EXCEPT !.file = x.instances[i].values, !.instances = inst]
      BY <1>2 DEF Flush, Extension
    <2>2. inst[i].pending = FALSE
      BY <1>1 DEF Instance
    <2> HIDE DEF inst
    <2>3. /\ y.instances = inst /\ y.current = i /\ y.file = x.instances[i].values
          /\ y.runs = x.runs /\ y.last = x.last
      BY <2>1 DEF Extension
    <2> HIDE DEF y
    <2>4. Whole(y) /\ Written(y)
      BY <1>2, <2>2, <2>3 DEF Whole, Latest, Written
    <2> QED BY <2>4 DEF y
  <1>3. CASE ~x.instances[i].pending
    BY <1>3 DEF Flush, Written
  <1> QED BY <1>2, <1>3

LEMMA SettledWhole ==
    ASSUME NEW x \in Extension, NEW r \in 1..MaxRuns, Whole(x)
    PROVE  Whole(Settled(x, r))
  <1> DEFINE runs == [x.runs EXCEPT ![r] = Free]
             y == Settled(x, r)
  <1>1. \A q \in 1..MaxRuns : runs[q].stage # "free" => runs[q] = x.runs[q]
    BY DEF Extension, Free
  <1>2. y = [x EXCEPT !.runs = runs]
    BY DEF Settled, Extension
  <1> HIDE DEF runs
  <1>3. /\ y.runs = runs /\ y.current = x.current /\ y.file = x.file /\ y.last = x.last
        /\ y.instances = x.instances
    BY <1>2 DEF Extension
  <1> HIDE DEF y
  <1>4. Whole(y)
    BY <1>1, <1>3 DEF Whole, Latest
  <1> QED BY <1>4 DEF y

LEMMA StopWhole ==
    ASSUME NEW x \in Extension, NEW v \in Stored, Held(x), Whole(x)
    PROVE  Whole(Stop(x, v)) /\ Written(Stop(x, v))
  <1>1. CASE x.current = 0
    BY <1>1 DEF Stop, Written
  <1>2. CASE x.current # 0
    <2> DEFINE shut   == [x EXCEPT !.scope = 0]
               closed == IF Running(x) /\ x.runs[x.scope].stage = "on" THEN Settled(shut, x.scope) ELSE shut
               cleans == Running(x) /\ x.runs[x.scope].stage # "loading" /\ v # None
               kept   == IF cleans THEN Set(closed, x.current, v) ELSE closed
    <2>1. x.current \in 1..MaxInstances /\ 0 \in 0..MaxRuns
      BY <1>2, BoundsType DEF Extension
    <2>2. /\ shut \in Extension /\ shut.current = x.current /\ shut.file = x.file /\ shut.last = x.last
          /\ shut.instances = x.instances /\ shut.runs = x.runs
      BY <2>1 DEF Extension
    <2>3. Running(x) => x.scope \in 1..MaxRuns
      BY BoundsType DEF Running, Extension
    <2> HIDE DEF shut
    <2>4. Whole(shut)
      BY <2>2, SameWhole
    <2>5. closed \in Extension /\ closed.current = x.current /\ Whole(closed)
      BY <2>2, <2>3, <2>4, SettledFacts, SettledWhole DEF Alike
    <2> HIDE DEF closed
    <2>6. kept \in Extension /\ kept.current = x.current /\ Whole(kept)
      BY <2>1, <2>5, SetFacts, SetWhole DEF Alike
    <2> HIDE DEF kept
    <2>7. Whole(Flush(kept, x.current)) /\ Written(Flush(kept, x.current))
      BY <1>2, <2>6, FlushWhole
    <2>8. Stop(x, v) = Flush(kept, x.current)
      BY <1>2 DEF Stop, kept, closed, shut
    <2> QED BY <2>7, <2>8
  <1> QED BY <1>1, <1>2

LEMMA StartWhole ==
    ASSUME NEW x \in Extension, FreeRuns(x) # {}, x.current # 0, Whole(x)
    PROVE  Whole(Start(x))
  <1> DEFINE r == CHOOSE r \in FreeRuns(x) : TRUE
             runs == [x.runs EXCEPT ![r] = [of |-> x.current, stage |-> "loading"]]
             y == Start(x)
  <1>1. r \in 1..MaxRuns
    BY DEF FreeRuns
  <1>2. y = [x EXCEPT !.scope = r, !.runs = runs]
    BY DEF Start, Extension
  <1> HIDE DEF r
  <1>3. \A q \in 1..MaxRuns : runs[q].of = x.current \/ runs[q] = x.runs[q]
    BY DEF Extension
  <1> HIDE DEF runs
  <1>4. /\ y.runs = runs /\ y.current = x.current /\ y.file = x.file /\ y.last = x.last
        /\ y.instances = x.instances
    BY <1>2 DEF Extension
  <1> HIDE DEF y
  <1>5. Whole(y)
    BY <1>3, <1>4 DEF Whole, Latest
  <1> QED BY <1>5 DEF y

LEMMA SyncWhole ==
    ASSUME NEW x \in Extension, NEW v \in Stored, Held(x), Whole(x),
           x.current # 0 /\ ~x.disabled /\ ~Running(x) => FreeRuns(x) # {}
    PROVE  Whole(Sync(x, v))
  <1> DEFINE y == IF x.current # 0 /\ ~x.disabled /\ ~Running(x) THEN Start(x)
                  ELSE IF x.disabled /\ Running(x) THEN Stop(x, v) ELSE x
             z == [y EXCEPT !.recorded = Running(y)]
  <1>1. y \in Extension /\ Whole(y)
    BY StartFacts, StartWhole, StopFacts, StopWhole
  <1>2. Sync(x, v) = z
    BY DEF Sync
  <1> HIDE DEF y
  <1>3. /\ z.current = y.current /\ z.file = y.file /\ z.last = y.last
        /\ z.instances = y.instances /\ z.runs = y.runs
    BY <1>1 DEF Extension
  <1> HIDE DEF z
  <1> QED BY <1>1, <1>2, <1>3, SameWhole

LEMMA DropWhole ==
    ASSUME NEW x \in Extension, NEW v \in Stored, Held(x), Whole(x)
    PROVE  Whole(Drop(x, v))
  <1> DEFINE s == Stop(x, v)
             y == [s EXCEPT !.current = 0]
  <1>1. s \in Extension /\ Whole(s) /\ Written(s)
    BY StopFacts, StopWhole
  <1>2. Drop(x, v) = y
    BY DEF Drop
  <1> HIDE DEF s
  <1>3. y.current = 0 /\ y.file = s.file /\ y.last = s.last /\ y.runs = s.runs
    BY <1>1 DEF Extension
  <1> HIDE DEF y
  <1> QED BY <1>1, <1>2, <1>3 DEF Whole, Written, Latest

LEMMA ReplaceWhole ==
    ASSUME NEW x \in Extension, NEW v \in Stored, Held(x), FreeInstances(x) # {}, Whole(x)
    PROVE  Whole(Replace(x, v))
  <1> DEFINE gone == Drop(x, v)
             i == CHOOSE i \in FreeInstances(x) : TRUE
             new == [version |-> x.listed, values |-> gone.file, pending |-> FALSE]
             inst == [gone.instances EXCEPT ![i] = new]
             y == Replace(x, v)
  <1>1. gone \in Extension /\ gone.current = 0 /\ Whole(gone)
    BY DropFacts, DropWhole
  <1>2. i \in 1..MaxInstances
    BY DEF FreeInstances
  <1>3. Replace(x, v) = [gone EXCEPT !.current = i, !.instances[i] = new]
    BY DEF Replace
  <1> HIDE DEF gone, i
  <1>4. Replace(x, v) = [gone EXCEPT !.current = i, !.instances = inst]
    BY <1>1, <1>3 DEF Extension
  <1>5. inst[i].pending = FALSE
    BY <1>1, <1>2 DEF Extension
  <1> HIDE DEF inst
  <1>6. y.current = i /\ y.instances = inst /\ y.file = gone.file /\ y.last = gone.last /\ y.runs = gone.runs
    BY <1>1, <1>4 DEF Extension
  <1> HIDE DEF y
  <1>7. Whole(y)
    BY <1>1, <1>5, <1>6 DEF Whole, Latest
  <1> QED BY <1>7 DEF y

LEMMA SetDisabledWhole ==
    ASSUME NEW x \in Extension, NEW off \in BOOLEAN, NEW v \in Stored, Resting(x), Whole(x),
           off \/ FreeRuns(x) # {}
    PROVE  Whole(SetDisabled(x, off, v))
  <1>1. CASE x.disabled = off
    BY <1>1 DEF SetDisabled
  <1>2. CASE x.disabled # off
    <2> DEFINE c == [x EXCEPT !.disabled = off]
    <2>1. /\ c \in Extension /\ c.disabled = off /\ c.current = x.current /\ c.scope = x.scope
          /\ c.instances = x.instances /\ c.runs = x.runs /\ c.file = x.file /\ c.last = x.last
      BY DEF Extension
    <2>2. SetDisabled(x, off, v) = Sync(c, v)
      BY <1>2 DEF SetDisabled
    <2> HIDE DEF c
    <2>3. Held(c) /\ FreeRuns(c) = FreeRuns(x) /\ Running(c) = Running(x) /\ Whole(c)
      BY <2>1, SameWhole DEF Resting, Held, Running, FreeRuns
    <2> QED BY <2>1, <2>2, <2>3, SyncWhole
  <1> QED BY <1>1, <1>2

LEMMA SetProblemWhole ==
    ASSUME NEW x \in Extension, NEW p \in {None, "error"}, NEW v \in Stored, Held(x), Whole(x),
           FreeRuns(x) # {} \/ Resting(x)
    PROVE  Whole(SetProblem(x, p, v))
  <1>1. CASE x.problem = None /\ p = None
    BY <1>1 DEF SetProblem
  <1>2. CASE ~(x.problem = None /\ p = None)
    <2> DEFINE c == [x EXCEPT !.problem = p]
    <2>1. /\ c \in Extension /\ c.disabled = x.disabled /\ c.current = x.current /\ c.scope = x.scope
          /\ c.instances = x.instances /\ c.runs = x.runs /\ c.file = x.file /\ c.last = x.last
      BY DEF Extension
    <2>2. SetProblem(x, p, v) = Sync(c, v)
      BY <1>2 DEF SetProblem
    <2> HIDE DEF c
    <2>3. Held(c) /\ FreeRuns(c) = FreeRuns(x) /\ Running(c) = Running(x) /\ Whole(c)
      BY <2>1, SameWhole DEF Held, Running, FreeRuns
    <2> QED BY <2>1, <2>2, <2>3, SyncWhole DEF Resting
  <1> QED BY <1>1, <1>2

LEMMA TurnOnWhole ==
    ASSUME NEW x \in Extension, Resting(x), FreeRuns(x) # {}, Whole(x)
    PROVE  Whole(TurnOn(x))
  <1> DEFINE p == SetProblem(x, None, None)
  <1>1. p \in Extension /\ Resting(p) /\ FreeRuns(p) # {} /\ Whole(p)
    BY SetProblemFacts, SetProblemWhole, NoneStored DEF Resting
  <1>2. TurnOn(x) = SetDisabled(p, FALSE, None)
    BY DEF TurnOn
  <1> HIDE DEF p
  <1> QED BY <1>1, <1>2, SetDisabledWhole, NoneStored

LEMMA FailedWhole ==
    ASSUME NEW x \in Extension, NEW v \in Stored, Held(x), FreeRuns(x) # {}, Whole(x)
    PROVE  Whole(Failed(x, v))
  <1> DEFINE s == Stop(x, v)
             p == SetProblem(s, "error", None)
  <1>1. s \in Extension /\ Held(s) /\ FreeRuns(s) # {} /\ Whole(s)
    BY StopFacts, StopWhole DEF Held, Running
  <1>2. "error" # None
    BY ExtensionsAssumption
  <1> HIDE DEF s
  <1>3. p \in Extension /\ Resting(p) /\ Whole(p)
    BY <1>1, <1>2, SetProblemFacts, SetProblemWhole, NoneStored
  <1>4. Failed(x, v) = SetDisabled(p, TRUE, None)
    BY DEF Failed, p, s
  <1> HIDE DEF p
  <1> QED BY <1>3, <1>4, SetDisabledWhole, NoneStored

LEMMA RescanWhole ==
    ASSUME NEW x \in Extension, NEW v \in Stored, Held(x), FreeRuns(x) # {}, Whole(x),
           x.folder \in Versions => FreeInstances(x) # {}
    PROVE  Whole(Rescan(x, v))
  <1> DEFINE y == [x EXCEPT !.listed = x.folder]
             renew == y.listed \in Versions /\ (y.current = 0 \/ y.instances[y.current].version # y.listed)
             z == IF y.listed = None THEN Drop(y, v) ELSE IF renew THEN Replace(y, v) ELSE y
  <1>1. /\ y \in Extension /\ y.listed = x.folder /\ y.current = x.current /\ y.scope = x.scope
        /\ y.runs = x.runs /\ y.instances = x.instances /\ y.file = x.file /\ y.last = x.last
    BY DEF Extension
  <1>2. Rescan(x, v) = Sync(z, v)
    BY DEF Rescan
  <1> HIDE DEF y
  <1>3. Held(y) /\ FreeRuns(y) = FreeRuns(x) /\ FreeInstances(y) = FreeInstances(x) /\ Whole(y)
    BY <1>1, SameWhole DEF Held, Running, FreeRuns, FreeInstances
  <1>4. z \in Extension /\ Held(z) /\ FreeRuns(z) # {} /\ Whole(z)
    <2>1. CASE y.listed = None
      BY <1>1, <1>3, <2>1, DropFacts, DropWhole DEF Resting
    <2>2. CASE y.listed # None /\ renew
      BY <1>1, <1>3, <2>2, ReplaceFacts, ReplaceWhole
    <2>3. CASE y.listed # None /\ ~renew
      BY <1>1, <1>3, <2>3
    <2> QED BY <2>1, <2>2, <2>3
  <1> HIDE DEF z
  <1> QED BY <1>2, <1>4, SyncWhole

LEMMA CollectedWhole ==
    ASSUME NEW x \in Extension, Whole(x)
    PROVE  Whole(Collected(x))
  <1> DEFINE left == [i \in 1..MaxInstances |->
                         IF i = x.current THEN x.instances[i]
                         ELSE IF x.instances[i].pending THEN [x.instances[i] EXCEPT !.version = None]
                         ELSE Unmade]
             y == Collected(x)
  <1>1. x.current # 0 => x.current \in 1..MaxInstances
    BY BoundsType DEF Extension
  <1>2. x.current # 0 => left[x.current] = x.instances[x.current]
    BY <1>1
  <1>3. y = [x EXCEPT !.instances = left]
    BY DEF Collected
  <1> HIDE DEF left
  <1>4. /\ y.instances = left /\ y.current = x.current /\ y.file = x.file /\ y.last = x.last
        /\ y.runs = x.runs
    BY <1>3 DEF Extension
  <1> HIDE DEF y
  <1>5. Whole(y)
    BY <1>2, <1>4 DEF Whole, Latest
  <1> QED BY <1>5 DEF y

LEMMA ForgetWhole ==
    ASSUME NEW x \in Extension, Whole(x)
    PROVE  Whole(Forget(x))
  <1>1. CASE x.current = 0
    BY <1>1 DEF Forget
  <1>2. CASE x.current # 0
    <2> DEFINE inst == [x.instances EXCEPT ![x.current] = [@ EXCEPT !.values = None, !.pending = FALSE]]
               y == Forget(x)
    <2>1. x.current \in 1..MaxInstances
      BY <1>2, BoundsType DEF Extension
    <2>2. inst[x.current].pending = FALSE
      BY <2>1 DEF Extension, Instance
    <2>3. y = [x EXCEPT !.file = None, !.last = None, !.instances = inst]
      BY <1>2 DEF Forget, Extension
    <2> HIDE DEF inst
    <2>4. y.instances = inst /\ y.current = x.current /\ y.file = None /\ y.last = None /\ y.runs = x.runs
      BY <2>3 DEF Extension
    <2> HIDE DEF y
    <2>5. Whole(y)
      BY <2>2, <2>4 DEF Whole, Latest
    <2> QED BY <2>5 DEF y
  <1> QED BY <1>1, <1>2

LEMMA EraseWhole ==
    ASSUME NEW x \in Extension, NEW v \in Stored, Held(x), FreeRuns(x) # {}, Whole(x)
    PROVE  Whole(Erase(x, v))
  <1> DEFINE d == Drop(Forget(x), v)
             gone == [d EXCEPT !.folder = None]
             p == SetProblem(gone, None, None)
  <1>1. d \in Extension /\ d.current = 0 /\ d.scope = 0 /\ FreeRuns(d) # {} /\ Whole(d)
    BY ForgetFacts, ForgetWhole, DropFacts, DropWhole
  <1>2. Erase(x, v) = SetDisabled(p, FALSE, None)
    BY DEF Erase
  <1> HIDE DEF d
  <1>3. /\ gone \in Extension /\ gone.current = d.current /\ gone.scope = 0 /\ gone.runs = d.runs
        /\ gone.file = d.file /\ gone.last = d.last /\ gone.instances = d.instances
    BY <1>1 DEF Extension, Folders
  <1> HIDE DEF gone
  <1>4. Whole(gone)
    BY <1>1, <1>3, SameWhole
  <1>5. Resting(gone) /\ Held(gone) /\ FreeRuns(gone) # {}
    BY <1>1, <1>3 DEF Resting, Held, Running, FreeRuns
  <1>6. p \in Extension /\ Resting(p) /\ FreeRuns(p) # {} /\ Whole(p)
    BY <1>3, <1>4, <1>5, SetProblemFacts, SetProblemWhole, NoneStored
  <1> HIDE DEF p
  <1> QED BY <1>2, <1>6, SetDisabledWhole, NoneStored

-----------------------------------------------------------------------------
(* Every step keeps what was stored. *)

StoredInv == \A id \in Ids : Whole(ext[id])

LEMMA OnlyKeeps ==
    ASSUME Settle(ext), StoredInv, NEW id \in Ids, NEW x \in Extension, Whole(x), Only(id, x)
    PROVE  StoredInv'
  BY CollectedWhole DEF Settle, StoredInv, Only

LEMMA ChangeKeeps ==
    ASSUME Settle(ext), StoredInv, NEW id \in Ids, NEW x \in Extension, Whole(x), Change(id, x)
    PROVE  StoredInv'
  <1>1. \A other \in Ids : Whole(Sync(ext[other], None))
    BY SyncWhole, NoneStored DEF Settle, StoredInv, Resting
  <1>2. CASE UNCHANGED ext
    BY <1>2 DEF StoredInv
  <1>3. CASE ext' = [other \in Ids |-> IF other = id THEN Collected(x) ELSE Sync(ext[other], None)]
    BY <1>1, <1>3, CollectedWhole DEF StoredInv
  <1> QED BY <1>2, <1>3 DEF Change

LEMMA PersonKeeps ==
    ASSUME Settle(ext), StoredInv, NEW id \in Ids, Enable(id) \/ Disable(id)
    PROVE  StoredInv'
  <1>1. ext[id] \in Extension /\ Resting(ext[id]) /\ Whole(ext[id])
    BY DEF Settle, StoredInv
  <1>2. CASE Enable(id)
    <2>1. TurnOn(ext[id]) \in Extension /\ Whole(TurnOn(ext[id])) /\ Change(id, TurnOn(ext[id]))
      BY <1>1, <1>2, TurnOnFacts, TurnOnWhole DEF Enable
    <2> QED BY <2>1, ChangeKeeps
  <1>3. CASE Disable(id)
    <2>1. PICK v \in Stored : Change(id, SetDisabled(ext[id], TRUE, v))
      BY <1>3 DEF Disable
    <2>2. SetDisabled(ext[id], TRUE, v) \in Extension /\ Whole(SetDisabled(ext[id], TRUE, v))
      BY <1>1, SetDisabledFacts, SetDisabledWhole
    <2> QED BY <2>1, <2>2, ChangeKeeps
  <1> QED BY <1>2, <1>3

LEMMA ReloadKeeps ==
    ASSUME Settle(ext), StoredInv, NEW id \in Ids, Reload(id)
    PROVE  StoredInv'
  <1> DEFINE x == ext[id]
             again == /\ x.folder \in Versions /\ x.current # 0 /\ x.problem # None
                      /\ x.instances[x.current].version # x.folder
             t == IF again THEN TurnOn(x) ELSE x
             y == [t EXCEPT !.listed = x.folder]
  <1>1. x \in Extension /\ Resting(x) /\ Whole(x) /\ FreeRuns(x) # {} /\ FreeInstances(x) # {}
        /\ \A r : FreeRuns(x) \ {r} # {}
    BY RoomFacts DEF Settle, StoredInv, Reload
  <1>2. PICK v \in Stored :
          LET z == Sync(IF y.listed \in Versions THEN Replace(y, v) ELSE Drop(y, v), v)
          IN ext' = [other \in Ids |-> IF other = id THEN Collected(z) ELSE Sync(ext[other], None)]
    BY DEF Reload
  <1>3. x.folder \in Folders
    BY <1>1 DEF Extension
  <1>4. /\ t \in Extension /\ Resting(t) /\ FreeRuns(t) # {} /\ t.current = x.current
        /\ t.instances = x.instances /\ \A r \in 1..MaxRuns : t.runs[r].of \in {x.runs[r].of, x.current}
        /\ Whole(t)
    <2>1. CASE again
      <3>1. t = TurnOn(x)
        BY <2>1
      <3> HIDE DEF t, x
      <3> QED BY <1>1, <3>1, TurnOnFacts, TurnOnWhole
    <2>2. CASE ~again
      BY <1>1, <2>2
    <2> QED BY <2>1, <2>2
  <1> HIDE DEF t, x
  <1>5. /\ y \in Extension /\ y.current = t.current /\ y.instances = t.instances /\ y.runs = t.runs
        /\ y.scope = t.scope /\ y.file = t.file /\ y.last = t.last
    BY <1>3, <1>4 DEF Extension
  <1> HIDE DEF y
  <1>6. Held(y) /\ FreeRuns(y) # {} /\ FreeInstances(y) # {} /\ Whole(y)
    BY <1>1, <1>4, <1>5, SameWhole DEF Resting, Held, Running, FreeRuns, FreeInstances
  <1> DEFINE w == IF y.listed \in Versions THEN Replace(y, v) ELSE Drop(y, v)
  <1>7. w \in Extension /\ Held(w) /\ FreeRuns(w) # {} /\ Whole(w)
    <2>1. CASE y.listed \in Versions
      BY <1>5, <1>6, <2>1, ReplaceFacts, ReplaceWhole
    <2>2. CASE y.listed \notin Versions
      BY <1>5, <1>6, <2>2, DropFacts, DropWhole DEF Resting
    <2> QED BY <2>1, <2>2
  <1> HIDE DEF w
  <1>8. Sync(w, v) \in Extension /\ Whole(Sync(w, v))
    BY <1>7, SyncFacts, SyncWhole
  <1>9. ext' = [other \in Ids |-> IF other = id THEN Collected(Sync(w, v)) ELSE Sync(ext[other], None)]
    BY <1>2 DEF w
  <1>10. \A other \in Ids : Whole(Sync(ext[other], None))
    BY SyncWhole, NoneStored DEF Settle, StoredInv, Resting
  <1> QED BY <1>8, <1>9, <1>10, CollectedWhole DEF StoredInv

LEMMA RemoveKeeps ==
    ASSUME Settle(ext), StoredInv, NEW id \in Ids, Remove(id)
    PROVE  StoredInv'
  <1>1. PICK v \in [Ids -> Stored] :
          ext' = [other \in Ids |->
                     Collected(Rescan(IF other = id THEN Erase(ext[id], v[id]) ELSE ext[other], v[other]))]
    BY DEF Remove
  <1>2. ASSUME NEW other \in Ids
        PROVE  Whole(Collected(Rescan(IF other = id THEN Erase(ext[id], v[id]) ELSE ext[other], v[other])))
    <2> DEFINE from == IF other = id THEN Erase(ext[id], v[id]) ELSE ext[other]
    <2>1. /\ ext[other] \in Extension /\ Held(ext[other]) /\ FreeRuns(ext[other]) # {}
          /\ FreeInstances(ext[other]) # {} /\ Whole(ext[other])
      BY RoomFacts DEF Settle, StoredInv, Remove, Resting
    <2>2. None \notin Versions
      BY ExtensionsAssumption
    <2>3. from \in Extension /\ Held(from) /\ FreeRuns(from) # {} /\ Whole(from)
          /\ (from.folder \in Versions => FreeInstances(from) # {})
      BY <2>1, <2>2, EraseFacts, EraseWhole DEF Resting
    <2> HIDE DEF from
    <2>4. Rescan(from, v[other]) \in Extension /\ Whole(Rescan(from, v[other]))
      BY <2>3, RescanFacts, RescanWhole
    <2>5. Whole(Collected(Rescan(from, v[other])))
      BY <2>4, CollectedWhole
    <2> QED BY <2>5 DEF from
  <1> QED BY <1>1, <1>2 DEF StoredInv

LEMMA RemoveFailsKeeps ==
    ASSUME Settle(ext), StoredInv, NEW id \in Ids, RemoveFails(id)
    PROVE  StoredInv'
  <1>1. PICK v \in Stored, f \in {ext[id].folder, Broken, None} :
          Only(id, [Drop(Forget(ext[id]), v) EXCEPT !.folder = f])
    BY DEF RemoveFails
  <1>2. ext[id] \in Extension /\ Held(ext[id]) /\ Whole(ext[id])
    BY DEF Settle, StoredInv, Resting
  <1> DEFINE d == Drop(Forget(ext[id]), v)
             x == [d EXCEPT !.folder = f]
  <1>3. d \in Extension /\ Whole(d)
    BY <1>2, ForgetFacts, ForgetWhole, DropFacts, DropWhole
  <1>4. f \in Folders
    BY <1>2 DEF Extension, Folders
  <1>5. Only(id, x)
    BY <1>1
  <1> HIDE DEF d
  <1>6. /\ x \in Extension /\ x.current = d.current /\ x.file = d.file /\ x.last = d.last
        /\ x.instances = d.instances /\ x.runs = d.runs
    BY <1>3, <1>4 DEF Extension
  <1> HIDE DEF x
  <1> QED BY <1>3, <1>5, <1>6, SameWhole, OnlyKeeps

LEMMA RescanAllKeeps ==
    ASSUME Settle(ext), StoredInv, RemoveOther \/ RestartAll
    PROVE  StoredInv'
  <1>1. ASSUME NEW id \in Ids
        PROVE  /\ ext[id] \in Extension /\ Held(ext[id]) /\ Whole(ext[id])
               /\ FreeRuns(ext[id]) # {} /\ FreeInstances(ext[id]) # {}
    BY RoomFacts DEF Settle, StoredInv, RemoveOther, RestartAll, Resting
  <1>2. CASE RemoveOther
    <2>1. PICK v \in [Ids -> Stored] : ext' = [id \in Ids |-> Collected(Rescan(ext[id], v[id]))]
      BY <1>2 DEF RemoveOther
    <2>2. \A id \in Ids : Rescan(ext[id], v[id]) \in Extension /\ Whole(Rescan(ext[id], v[id]))
      BY <1>1, RescanFacts, RescanWhole
    <2> QED BY <2>1, <2>2, CollectedWhole DEF StoredInv
  <1>3. CASE RestartAll
    <2>1. PICK v \in [Ids -> Stored] :
            ext' = [id \in Ids |->
                       Collected(Sync(IF ext[id].listed \in Versions THEN Replace(ext[id], v[id]) ELSE ext[id],
                                      None))]
      BY <1>3 DEF RestartAll
    <2>2. ASSUME NEW id \in Ids
          PROVE  Whole(Collected(Sync(IF ext[id].listed \in Versions THEN Replace(ext[id], v[id])
                                      ELSE ext[id], None)))
      <3> DEFINE w == IF ext[id].listed \in Versions THEN Replace(ext[id], v[id]) ELSE ext[id]
      <3>1. w \in Extension /\ Held(w) /\ FreeRuns(w) # {} /\ Whole(w)
        BY <1>1, ReplaceFacts, ReplaceWhole
      <3> HIDE DEF w
      <3>2. Sync(w, None) \in Extension /\ Whole(Sync(w, None))
        BY <3>1, SyncFacts, SyncWhole, NoneStored
      <3>3. Whole(Collected(Sync(w, None)))
        BY <3>2, CollectedWhole
      <3> QED BY <3>3 DEF w
    <2> QED BY <2>1, <2>2 DEF StoredInv
  <1> QED BY <1>2, <1>3

LEMMA ComesBackKeeps ==
    ASSUME Settle(ext), StoredInv, NEW id \in Ids, NEW r \in 1..MaxRuns, Loaded(id, r) \/ Enabled(id, r)
    PROVE  StoredInv'
  <1> DEFINE x == ext[id]
  <1>1. x \in Extension /\ Resting(x) /\ Known(x) /\ Whole(x)
    BY DEF Settle, StoredInv
  <1>2. x.runs[r].stage # "free"
    BY DEF Loaded, Enabled
  <1>3. CASE x.scope = r
    <2>1. PICK s \in {"enabling", "on"} : Only(id, [x EXCEPT !.runs[r].stage = s])
      BY <1>3 DEF Loaded, Enabled
    <2> DEFINE runs == [x.runs EXCEPT ![r].stage = s]
               y == [x EXCEPT !.runs[r].stage = s]
    <2>2. y \in Extension
      BY <1>1, StageResting
    <2> HIDE DEF x
    <2>3. \A q \in 1..MaxRuns : runs[q].of = x.runs[q].of /\ (q # r => runs[q] = x.runs[q])
      <3>1. x.runs \in [1..MaxRuns -> Run]
        BY <1>1 DEF Extension
      <3> QED BY <3>1 DEF Run
    <2>4. y = [x EXCEPT !.runs = runs]
      BY <1>1 DEF Extension
    <2> HIDE DEF runs
    <2>5. /\ y.runs = runs /\ y.current = x.current /\ y.file = x.file /\ y.last = x.last
          /\ y.instances = x.instances
      BY <1>1, <2>4 DEF Extension
    <2> HIDE DEF y
    <2>6. Whole(y)
      BY <1>1, <1>2, <2>3, <2>5 DEF Whole, Latest
    <2>7. Only(id, y)
      BY <2>1 DEF y
    <2> QED BY <2>2, <2>6, <2>7, OnlyKeeps
  <1>4. CASE x.scope # r
    <2>1. Only(id, Settled(x, r))
      BY <1>4 DEF Loaded, Enabled
    <2> QED BY <1>1, <2>1, SettledFacts, SettledWhole, OnlyKeeps
  <1> QED BY <1>3, <1>4

LEMMA FailureKeeps ==
    ASSUME Settle(ext), StoredInv, NEW id \in Ids,
           CallbackFails(id) \/ \E r \in 1..MaxRuns : StartFails(id, r)
    PROVE  StoredInv'
  <1> DEFINE x == ext[id]
  <1>1. x \in Extension /\ Resting(x) /\ Held(x) /\ Known(x) /\ Whole(x)
    BY DEF Settle, StoredInv, Resting
  <1>2. CASE CallbackFails(id)
    <2>1. PICK v \in Stored : Change(id, Failed(x, v)) /\ FreeRuns(x) # {}
      BY <1>2 DEF CallbackFails
    <2>2. Failed(x, v) \in Extension /\ Whole(Failed(x, v))
      BY <1>1, <2>1, FailedFacts, FailedWhole
    <2> QED BY <2>1, <2>2, ChangeKeeps
  <1>3. ASSUME NEW r \in 1..MaxRuns, StartFails(id, r) PROVE StoredInv'
    <2> DEFINE stopped(v) == Settled(IF x.scope = r THEN Stop(x, v) ELSE x, r)
    <2>1. PICK v \in Stored : IF x.runs[r].of = x.current THEN Change(id, Failed(stopped(v), v))
                              ELSE Only(id, stopped(v))
      BY <1>3 DEF StartFails
    <2>2. stopped(v) \in Extension /\ Held(stopped(v)) /\ FreeRuns(stopped(v)) # {} /\ Whole(stopped(v))
      <3>1. CASE x.scope = r
        <4>1. LET s == Stop(x, v) IN s \in Extension /\ s.scope = 0 /\ Whole(s)
          BY <1>1, StopFacts, StopWhole
        <4>2. LET s == Settled(Stop(x, v), r)
              IN s \in Extension /\ s.scope = 0 /\ FreeRuns(s) # {} /\ Whole(s)
          BY <4>1, SettledFacts, SettledWhole
        <4>3. stopped(v) = Settled(Stop(x, v), r)
          BY <3>1
        <4> HIDE DEF stopped
        <4> QED BY <4>2, <4>3 DEF Held, Running
      <3>2. CASE x.scope # r
        <4>1. LET s == Settled(x, r) IN s \in Extension /\ Held(s) /\ FreeRuns(s) # {} /\ Whole(s)
          BY <1>1, <3>2, SettledResting, SettledFacts, SettledWhole DEF Resting
        <4>2. stopped(v) = Settled(x, r)
          BY <3>2
        <4> HIDE DEF stopped
        <4> QED BY <4>1, <4>2
      <3> QED BY <3>1, <3>2
    <2> HIDE DEF stopped
    <2>3. Failed(stopped(v), v) \in Extension /\ Whole(Failed(stopped(v), v))
      BY <2>2, FailedFacts, FailedWhole
    <2> QED BY <2>1, <2>2, <2>3, ChangeKeeps, OnlyKeeps
  <1> QED BY <1>2, <1>3

LEMMA StorageKeeps ==
    ASSUME Settle(ext), StoredInv, NEW id \in Ids,
           \/ \E r \in 1..MaxRuns : Stores(id, r)
           \/ \E i \in 1..MaxInstances : Write(id, i)
    PROVE  StoredInv'
  <1> DEFINE x == ext[id]
  <1>1. x \in Extension /\ Whole(x)
    BY DEF Settle, StoredInv
  <1>2. ASSUME NEW r \in 1..MaxRuns, Stores(id, r) PROVE StoredInv'
    <2>1. PICK v \in Values : Only(id, Set(x, x.runs[r].of, v)) /\ x.runs[r].stage # "free"
      BY <1>2 DEF Stores
    <2>2. v \in Stored /\ x.runs[r].of \in 1..MaxInstances
      BY <1>1, <2>1, BoundsType DEF Stored, Extension, Run, Whole
    <2> QED BY <1>1, <2>1, <2>2, SetFacts, SetWhole, OnlyKeeps
  <1>3. ASSUME NEW i \in 1..MaxInstances, Write(id, i) PROVE StoredInv'
    <2> DEFINE f == Flush(x, i)
               y == [f EXCEPT !.last = IF i = f.current THEN @ ELSE Latest(f)]
    <2>1. Only(id, y)
      BY <1>3 DEF Write
    <2>2. f \in Extension /\ f.current = x.current /\ f.runs = x.runs /\ i # 0
      BY <1>1, BoundsType, FlushFacts DEF Alike
    <2>3. i = x.current => Whole(f)
      BY <1>1, <2>2, FlushWhole
    <2> HIDE DEF f, x
    <2>4. Latest(f) \in Stored
      <3>1. f.current # 0 => f.current \in 1..MaxInstances
        BY <2>2, BoundsType DEF Extension
      <3> QED BY <2>2, <3>1 DEF Latest, Extension, Instance
    <2>5. /\ y \in Extension /\ y.current = f.current /\ y.file = f.file /\ y.instances = f.instances
          /\ y.runs = f.runs /\ y.last = IF i = f.current THEN f.last ELSE Latest(f)
      BY <2>2, <2>4 DEF Extension
    <2> HIDE DEF y
    <2>6. Whole(y)
      BY <1>1, <2>2, <2>3, <2>5 DEF Whole, Latest
    <2> QED BY <2>1, <2>5, <2>6, OnlyKeeps
  <1> QED BY <1>2, <1>3

LEMMA UnpackKeeps ==
    ASSUME Settle(ext), StoredInv, NEW id \in Ids, Unpack(id)
    PROVE  StoredInv'
  <1>1. PICK f \in Folders : ext' = [ext EXCEPT ![id].folder = f]
    BY DEF Unpack
  <1> DEFINE x == ext[id]
             y == [x EXCEPT !.folder = f]
  <1>2. x \in Extension /\ ext \in [Ids -> Extension] /\ \A other \in Ids : Whole(ext[other])
    BY DEF Settle, StoredInv
  <1>3. ext' = [ext EXCEPT ![id] = y]
    BY <1>1
  <1> HIDE DEF x
  <1>4. /\ y.current = x.current /\ y.file = x.file /\ y.last = x.last
        /\ y.instances = x.instances /\ y.runs = x.runs
    BY <1>2 DEF Extension
  <1> HIDE DEF y
  <1>5. Whole(x)
    BY <1>2 DEF x
  <1>6. Whole(y)
    BY <1>4, <1>5, SameWhole
  <1>7. \A other \in Ids : ext'[other] = IF other = id THEN y ELSE ext[other]
    BY <1>2, <1>3
  <1> QED BY <1>2, <1>6, <1>7 DEF StoredInv

\* What is on disk is all there is once Kestrel ended.
LEMMA EndKeeps ==
    ASSUME Settle(ext), StoredInv, Quit \/ Crash
    PROVE  StoredInv'
  <1>1. ASSUME NEW x \in Extension
        PROVE  LET y == Ended(x)
               IN /\ y \in Extension /\ y.current = 0 /\ y.file = x.file /\ y.last = x.last
                  /\ \A r \in 1..MaxRuns : y.runs[r].stage = "free"
    <2>1. Ended(x) \in Extension
      BY EndedFacts
    <2> QED BY <2>1 DEF Ended, Extension, Free
  <1>2. CASE Quit
    <2>1. PICK v \in [Ids -> Stored] : ext' = [id \in Ids |-> Ended(Drop(ext[id], v[id]))]
      BY <1>2 DEF Quit
    <2>2. ASSUME NEW id \in Ids PROVE Whole(Ended(Drop(ext[id], v[id])))
      <3> DEFINE d == Drop(ext[id], v[id])
      <3>1. d \in Extension /\ d.current = 0 /\ Whole(d)
        BY DropFacts, DropWhole DEF Settle, StoredInv, Resting
      <3> HIDE DEF d
      <3>2. Whole(Ended(d))
        BY <1>1, <3>1 DEF Whole, Latest
      <3> QED BY <3>2 DEF d
    <2> QED BY <2>1, <2>2 DEF StoredInv
  <1>3. CASE Crash
    <2>1. ext' = [id \in Ids |-> [Ended(ext[id]) EXCEPT !.last = ext[id].file]]
      BY <1>3 DEF Crash
    <2>2. ASSUME NEW id \in Ids PROVE Whole([Ended(ext[id]) EXCEPT !.last = ext[id].file])
      <3> DEFINE e == Ended(ext[id])
                 y == [e EXCEPT !.last = ext[id].file]
      <3>1. /\ e \in Extension /\ e.current = 0 /\ e.file = ext[id].file
            /\ \A r \in 1..MaxRuns : e.runs[r].stage = "free"
        BY <1>1 DEF Settle
      <3> HIDE DEF e
      <3>2. y.current = 0 /\ y.file = e.file /\ y.last = ext[id].file /\ y.runs = e.runs
        BY <3>1 DEF Extension
      <3> HIDE DEF y
      <3>3. Whole(y)
        BY <3>1, <3>2 DEF Whole, Latest
      <3> QED BY <3>3 DEF e, y
    <2> QED BY <2>1, <2>2 DEF StoredInv
  <1> QED BY <1>2, <1>3

LEMMA StartUpKeeps ==
    ASSUME ExtensionsInv, StoredInv, NEW restarted \in BOOLEAN, StartUp(restarted)
    PROVE  StoredInv'
  <1>1. ASSUME NEW id \in Ids PROVE Whole(Started(ext[id], restarted))
    <2> DEFINE x == ext[id]
               n == Counted(x, restarted)
               counted == [x EXCEPT !.crashes = n, !.recorded = FALSE]
               kept == IF counted.crashes >= CRASHES_BEFORE_OFF
                       THEN [counted EXCEPT !.problem = "crash", !.disabled = TRUE]
                       ELSE counted
    <2>1. x \in Extension /\ Unstarted(x) /\ Whole(x) /\ (restarted => x.crashes < MaxCrashes)
      BY DEF ExtensionsInv, Settle, StoredInv, StartUp
    <2>2. n \in 0..MaxCrashes
      <3>1. x.crashes \in 0..MaxCrashes
        BY <2>1 DEF Extension
      <3> QED BY <2>1, <3>1, BoundsType DEF Counted
    <2>3. Started(x, restarted) = Rescan(kept, None)
      BY DEF Started
    <2> HIDE DEF n, x
    <2>4. /\ counted \in Extension /\ counted.current = x.current /\ counted.scope = x.scope
          /\ counted.instances = x.instances /\ counted.runs = x.runs
          /\ counted.file = x.file /\ counted.last = x.last
      BY <2>1, <2>2 DEF Extension
    <2> HIDE DEF counted
    <2>5. /\ kept \in Extension /\ kept.current = x.current /\ kept.scope = x.scope
          /\ kept.instances = x.instances /\ kept.runs = x.runs
          /\ kept.file = x.file /\ kept.last = x.last
      BY <2>4 DEF Extension
    <2> HIDE DEF kept
    <2>6. Held(kept)
      BY <2>1, <2>5 DEF Unstarted, Held, Running
    <2>7. 1 \in FreeRuns(kept)
      BY <2>1, <2>5, BoundsType DEF Unstarted, FreeRuns
    <2>8. 1 \in FreeInstances(kept)
      BY <2>1, <2>5, BoundsType DEF Unstarted, FreeInstances, Unmade, Free
    <2>9. Whole(kept)
      BY <2>1, <2>5, SameWhole
    <2>10. Whole(Rescan(kept, None))
      BY <2>5, <2>6, <2>7, <2>8, <2>9, RescanWhole, NoneStored
    <2> QED BY <2>3, <2>10 DEF x
  <1>2. ext' = [id \in Ids |-> Started(ext[id], restarted)]
    BY DEF StartUp
  <1> QED BY <1>1, <1>2 DEF StoredInv

-----------------------------------------------------------------------------
(* The theorem. *)

LEMMA StepsKeepStored == ExtensionsInv /\ StoredInv /\ [Next]_vars => StoredInv'
  <1> SUFFICES ASSUME ExtensionsInv, StoredInv, [Next]_vars PROVE StoredInv'
    OBVIOUS
  <1>1. Settle(ext)
    BY DEF ExtensionsInv
  <1>2. ASSUME NEW id \in Ids,
               \/ Unpack(id) \/ Enable(id) \/ Disable(id) \/ Reload(id) \/ Remove(id) \/ RemoveFails(id)
               \/ CallbackFails(id)
        PROVE  StoredInv'
    BY <1>1, <1>2, UnpackKeeps, PersonKeeps, ReloadKeeps, RemoveKeeps, RemoveFailsKeeps, FailureKeeps
  <1>3. ASSUME NEW id \in Ids,
               \/ \E r \in 1..MaxRuns : Loaded(id, r) \/ Enabled(id, r) \/ StartFails(id, r) \/ Stores(id, r)
               \/ \E i \in 1..MaxInstances : Write(id, i)
        PROVE  StoredInv'
    BY <1>1, <1>3, ComesBackKeeps, FailureKeeps, StorageKeeps
  <1>4. CASE RemoveOther \/ RestartAll
    BY <1>1, <1>4, RescanAllKeeps
  <1>5. CASE Quit \/ Crash
    BY <1>1, <1>5, EndKeeps
  <1>6. ASSUME NEW restarted \in BOOLEAN, StartUp(restarted) PROVE StoredInv'
    BY <1>6, StartUpKeeps
  <1>7. CASE UNCHANGED vars
    BY <1>7 DEF vars, StoredInv
  <1> QED BY <1>2, <1>3, <1>4, <1>5, <1>6, <1>7 DEF Next

(* Every extension that ever runs does so for an instance, and that instance, or the file, has  *)
(* what was stored last: the inductive invariant.                                               *)
THEOREM StaysWhole == Spec => []StoredInv
  <1>1. Init => StoredInv
    <2>1. \A f : Whole(Fresh(f))
      BY DEF Fresh, Whole, Latest, Free
    <2> QED BY <2>1 DEF Init, StoredInv
  <1>2. ExtensionsInv /\ StoredInv /\ [Next]_vars => StoredInv'
    BY StepsKeepStored
  <1> QED BY <1>1, <1>2, StaysSettled, PTL DEF Spec

(* What an extension stored last is in its file, or about to be: for any number of extensions,  *)
(* instances and runs, stopping, failing, updating, removing and leaving lose nothing that was  *)
(* stored through the instance that's current.                                                  *)
THEOREM KeepsStored == Spec => []StoredIsKept
  <1>1. StoredInv => StoredIsKept
    BY DEF StoredInv, Whole, StoredIsKept
  <1> QED BY <1>1, StaysWhole, PTL

-----------------------------------------------------------------------------
(***************************************************************************)
(* Late runs of extensions do nothing, and two crashes in a row turn an    *)
(* extension off, for every set of extensions and any number of runs.      *)
(***************************************************************************)
(* What the operators on one extension do to its runs. *)

\* No enable is called, and no crash counted.
Quiet(x, y) ==
    /\ y.crashes = x.crashes
    /\ \A r \in 1..MaxRuns : y.runs[r].stage = "enabling" => x.runs[r].stage = "enabling"

\* Runs of replaced instances stay as they are.
Spares(x, y) ==
    \A r \in 1..MaxRuns : x.runs[r] # Free /\ x.runs[r].of # x.current => y.runs[r] = x.runs[r]

Calm(x, y) == Quiet(x, y) /\ Spares(x, y)

\* What the person chose and what went wrong stay.
Chosen(x, y) == y.disabled = x.disabled /\ y.problem = x.problem

LEMMA SameCalm ==
    ASSUME NEW x, NEW y, y.crashes = x.crashes, y.runs = x.runs
    PROVE  Calm(x, y)
  BY DEF Calm, Quiet, Spares

LEMMA CalmTwice ==
    ASSUME NEW x, NEW y, NEW z
    PROVE  /\ Quiet(x, y) /\ Quiet(y, z) => Quiet(x, z)
           /\ Calm(x, y) /\ Calm(y, z) /\ y.current = x.current => Calm(x, z)
  BY DEF Calm, Quiet, Spares

LEMMA SettledRuns ==
    ASSUME NEW x \in Extension, NEW r \in 1..MaxRuns
    PROVE  Quiet(x, Settled(x, r)) /\ (x.runs[r].of = x.current => Calm(x, Settled(x, r)))
  <1>1. \A q \in 1..MaxRuns : Settled(x, r).runs[q] = IF q = r THEN Free ELSE x.runs[q]
    BY DEF Settled, Extension
  <1> QED BY <1>1, SettledFacts DEF Alike, Calm, Quiet, Spares, Free

LEMMA StopRuns ==
    ASSUME NEW x \in Extension, NEW v \in Stored, Held(x)
    PROVE  Calm(x, Stop(x, v)) /\ Chosen(x, Stop(x, v))
  <1>1. Alike(x, Stop(x, v))
    BY StopFacts
  <1>2. CASE x.current = 0
    BY <1>2, SameCalm DEF Stop, Chosen
  <1>3. CASE x.current # 0
    <2> DEFINE shut   == [x EXCEPT !.scope = 0]
               closed == IF Running(x) /\ x.runs[x.scope].stage = "on" THEN Settled(shut, x.scope) ELSE shut
               cleans == Running(x) /\ x.runs[x.scope].stage # "loading" /\ v # None
               kept   == IF cleans THEN Set(closed, x.current, v) ELSE closed
    <2>1. x.current \in 1..MaxInstances /\ 0 \in 0..MaxRuns
      BY <1>3, BoundsType DEF Extension
    <2>2. /\ shut \in Extension /\ shut.current = x.current /\ shut.crashes = x.crashes
          /\ shut.runs = x.runs
      BY <2>1 DEF Extension
    <2>3. Running(x) => x.scope \in 1..MaxRuns /\ x.runs[x.scope].of = x.current
      BY BoundsType DEF Running, Extension, Held
    <2> HIDE DEF shut
    <2>4. closed \in Extension /\ closed.current = x.current /\ Calm(x, closed)
      <3>1. Calm(x, shut)
        BY <2>2, SameCalm
      <3>2. Running(x) => /\ Settled(shut, x.scope) \in Extension /\ Calm(shut, Settled(shut, x.scope))
                          /\ Settled(shut, x.scope).current = x.current
        BY <2>2, <2>3, SettledFacts, SettledRuns DEF Alike
      <3> QED BY <2>2, <3>1, <3>2, CalmTwice
    <2> HIDE DEF closed
    <2>5. kept \in Extension /\ kept.runs = closed.runs
      BY <2>1, <2>4, SetFacts
    <2> HIDE DEF kept
    <2>6. Flush(kept, x.current).runs = closed.runs
      BY <2>1, <2>5, FlushFacts
    <2>7. Stop(x, v) = Flush(kept, x.current)
      BY <1>3 DEF Stop, kept, closed, shut
    <2> QED BY <1>1, <2>4, <2>6, <2>7 DEF Alike, Calm, Quiet, Spares, Chosen
  <1> QED BY <1>2, <1>3

LEMMA StartRuns ==
    ASSUME NEW x \in Extension, FreeRuns(x) # {}
    PROVE  Calm(x, Start(x)) /\ Chosen(x, Start(x))
  <1> DEFINE r == CHOOSE r \in FreeRuns(x) : TRUE
             runs == [x.runs EXCEPT ![r] = [of |-> x.current, stage |-> "loading"]]
  <1>1. r \in 1..MaxRuns /\ x.runs[r] = Free
    BY DEF FreeRuns
  <1>2. Start(x) = [x EXCEPT !.scope = r, !.runs = runs]
    BY DEF Start, Extension
  <1> HIDE DEF r
  <1>3. \A q \in 1..MaxRuns : runs[q] = x.runs[q] \/ (x.runs[q] = Free /\ runs[q].stage = "loading")
    BY <1>1 DEF Extension
  <1> HIDE DEF runs
  <1>4. /\ Start(x).runs = runs /\ Start(x).crashes = x.crashes
        /\ Start(x).disabled = x.disabled /\ Start(x).problem = x.problem
    BY <1>2 DEF Extension
  <1> QED BY <1>3, <1>4 DEF Calm, Quiet, Spares, Chosen

LEMMA SyncRuns ==
    ASSUME NEW x \in Extension, NEW v \in Stored, Held(x),
           x.current # 0 /\ ~x.disabled /\ ~Running(x) => FreeRuns(x) # {}
    PROVE  Calm(x, Sync(x, v)) /\ Chosen(x, Sync(x, v)) /\ Sync(x, v).current = x.current
  <1> DEFINE y == IF x.current # 0 /\ ~x.disabled /\ ~Running(x) THEN Start(x)
                  ELSE IF x.disabled /\ Running(x) THEN Stop(x, v) ELSE x
             z == [y EXCEPT !.recorded = Running(y)]
  <1>1. y \in Extension /\ Calm(x, y)
    BY StartFacts, StartRuns, StopFacts, StopRuns, SameCalm
  <1>2. Sync(x, v) = z
    BY DEF Sync
  <1> HIDE DEF y
  <1>3. z.runs = y.runs /\ z.crashes = y.crashes
    BY <1>1 DEF Extension
  <1> HIDE DEF z
  <1> QED BY <1>1, <1>2, <1>3, SyncFacts DEF Alike, Calm, Quiet, Spares, Chosen

LEMMA DropRuns ==
    ASSUME NEW x \in Extension, NEW v \in Stored, Held(x)
    PROVE  Calm(x, Drop(x, v)) /\ Chosen(x, Drop(x, v))
  <1> DEFINE s == Stop(x, v)
             y == [s EXCEPT !.current = 0]
  <1>1. s \in Extension /\ Calm(x, s) /\ Chosen(x, s)
    BY StopFacts, StopRuns
  <1>2. Drop(x, v) = y
    BY DEF Drop
  <1> HIDE DEF s
  <1>3. y.runs = s.runs /\ y.crashes = s.crashes /\ y.disabled = s.disabled /\ y.problem = s.problem
    BY <1>1 DEF Extension
  <1> HIDE DEF y
  <1> QED BY <1>1, <1>2, <1>3 DEF Calm, Quiet, Spares, Chosen

LEMMA ReplaceRuns ==
    ASSUME NEW x \in Extension, NEW v \in Stored, Held(x), FreeInstances(x) # {}
    PROVE  /\ Quiet(x, Replace(x, v)) /\ Chosen(x, Replace(x, v))
           /\ Replace(x, v).current # x.current
  <1> DEFINE gone == Drop(x, v)
             i == CHOOSE i \in FreeInstances(x) : TRUE
             new == [version |-> x.listed, values |-> gone.file, pending |-> FALSE]
             y == Replace(x, v)
  <1>1. gone \in Extension /\ Calm(x, gone) /\ Chosen(x, gone)
    BY DropFacts, DropRuns
  <1>2. i # x.current
    BY DEF FreeInstances
  <1>3. Replace(x, v) = [gone EXCEPT !.current = i, !.instances[i] = new]
    BY DEF Replace
  <1> HIDE DEF gone, i, new
  <1>4. /\ y.current = i /\ y.runs = gone.runs /\ y.crashes = gone.crashes
        /\ y.disabled = gone.disabled /\ y.problem = gone.problem
    BY <1>1, <1>3 DEF Extension
  <1> HIDE DEF y
  <1> QED BY <1>1, <1>2, <1>4 DEF Calm, Quiet, Chosen, y

LEMMA SetDisabledRuns ==
    ASSUME NEW x \in Extension, NEW off \in BOOLEAN, NEW v \in Stored, Resting(x),
           off \/ FreeRuns(x) # {}
    PROVE  Calm(x, SetDisabled(x, off, v))
  <1>1. CASE x.disabled = off
    BY <1>1, SameCalm DEF SetDisabled
  <1>2. CASE x.disabled # off
    <2> DEFINE c == [x EXCEPT !.disabled = off]
    <2>1. /\ c \in Extension /\ c.disabled = off /\ c.current = x.current /\ c.scope = x.scope
          /\ c.runs = x.runs /\ c.crashes = x.crashes
      BY DEF Extension
    <2>2. SetDisabled(x, off, v) = Sync(c, v)
      BY <1>2 DEF SetDisabled
    <2> HIDE DEF c
    <2>3. Held(c) /\ FreeRuns(c) = FreeRuns(x) /\ Running(c) = Running(x)
      BY <2>1 DEF Resting, Held, Running, FreeRuns
    <2>4. Calm(c, Sync(c, v))
      BY <2>1, <2>3, SyncRuns
    <2> QED BY <2>1, <2>2, <2>4, SameCalm, CalmTwice
  <1> QED BY <1>1, <1>2

LEMMA SetProblemRuns ==
    ASSUME NEW x \in Extension, NEW p \in {None, "error"}, NEW v \in Stored, Held(x),
           FreeRuns(x) # {} \/ Resting(x)
    PROVE  Calm(x, SetProblem(x, p, v))
  <1>1. CASE x.problem = None /\ p = None
    BY <1>1, SameCalm DEF SetProblem
  <1>2. CASE ~(x.problem = None /\ p = None)
    <2> DEFINE c == [x EXCEPT !.problem = p]
    <2>1. /\ c \in Extension /\ c.disabled = x.disabled /\ c.current = x.current /\ c.scope = x.scope
          /\ c.runs = x.runs /\ c.crashes = x.crashes
      BY DEF Extension
    <2>2. SetProblem(x, p, v) = Sync(c, v)
      BY <1>2 DEF SetProblem
    <2> HIDE DEF c
    <2>3. Held(c) /\ FreeRuns(c) = FreeRuns(x) /\ Running(c) = Running(x)
      BY <2>1 DEF Held, Running, FreeRuns
    <2>4. Calm(c, Sync(c, v))
      BY <2>1, <2>3, SyncRuns DEF Resting
    <2> QED BY <2>1, <2>2, <2>4, SameCalm, CalmTwice
  <1> QED BY <1>1, <1>2

LEMMA TurnOnRuns ==
    ASSUME NEW x \in Extension, Resting(x), FreeRuns(x) # {}
    PROVE  Calm(x, TurnOn(x))
  <1> DEFINE p == SetProblem(x, None, None)
  <1>1. /\ p \in Extension /\ Resting(p) /\ FreeRuns(p) # {} /\ p.current = x.current
        /\ Calm(x, p)
    BY SetProblemFacts, SetProblemRuns, NoneStored DEF Resting
  <1>2. TurnOn(x) = SetDisabled(p, FALSE, None)
    BY DEF TurnOn
  <1> HIDE DEF p
  <1>3. Calm(p, SetDisabled(p, FALSE, None))
    BY <1>1, SetDisabledRuns, NoneStored
  <1> QED BY <1>1, <1>2, <1>3, CalmTwice

LEMMA FailedRuns ==
    ASSUME NEW x \in Extension, NEW v \in Stored, Held(x), FreeRuns(x) # {}
    PROVE  Calm(x, Failed(x, v))
  <1> DEFINE s == Stop(x, v)
             p == SetProblem(s, "error", None)
  <1>1. s \in Extension /\ Held(s) /\ FreeRuns(s) # {} /\ s.current = x.current /\ Calm(x, s)
    BY StopFacts, StopRuns DEF Held, Running, Alike
  <1>2. "error" # None
    BY ExtensionsAssumption
  <1> HIDE DEF s
  <1>3. p \in Extension /\ Resting(p) /\ p.current = x.current /\ Calm(s, p)
    BY <1>1, <1>2, SetProblemFacts, SetProblemRuns, NoneStored
  <1>4. Failed(x, v) = SetDisabled(p, TRUE, None)
    BY DEF Failed, p, s
  <1> HIDE DEF p
  <1>5. Calm(p, SetDisabled(p, TRUE, None))
    BY <1>3, SetDisabledRuns, NoneStored
  <1> QED BY <1>1, <1>3, <1>4, <1>5, CalmTwice

LEMMA RescanRuns ==
    ASSUME NEW x \in Extension, NEW v \in Stored, Held(x), FreeRuns(x) # {},
           x.folder \in Versions => FreeInstances(x) # {}
    PROVE  /\ Quiet(x, Rescan(x, v)) /\ Chosen(x, Rescan(x, v))
           /\ x.current = 0 /\ x.folder = None => Calm(x, Rescan(x, v)) /\ Rescan(x, v).current = 0
  <1> DEFINE y == [x EXCEPT !.listed = x.folder]
             renew == y.listed \in Versions /\ (y.current = 0 \/ y.instances[y.current].version # y.listed)
             z == IF y.listed = None THEN Drop(y, v) ELSE IF renew THEN Replace(y, v) ELSE y
  <1>1. /\ y \in Extension /\ y.listed = x.folder /\ y.current = x.current /\ y.scope = x.scope
        /\ y.runs = x.runs /\ y.instances = x.instances /\ y.crashes = x.crashes
        /\ y.disabled = x.disabled /\ y.problem = x.problem
    BY DEF Extension
  <1>2. Rescan(x, v) = Sync(z, v)
    BY DEF Rescan
  <1> HIDE DEF y
  <1>3. Held(y) /\ FreeRuns(y) = FreeRuns(x) /\ FreeInstances(y) = FreeInstances(x)
    BY <1>1 DEF Held, Running, FreeRuns, FreeInstances
  <1>4. Calm(x, y) /\ Chosen(x, y)
    BY <1>1, SameCalm DEF Chosen
  <1>5. /\ z \in Extension /\ Held(z) /\ FreeRuns(z) # {} /\ Quiet(y, z) /\ Chosen(y, z)
        /\ y.listed = None => Calm(y, z) /\ z.current = 0
    <2>1. CASE y.listed = None
      BY <1>1, <1>3, <2>1, DropFacts, DropRuns DEF Resting, Calm
    <2>2. CASE y.listed # None /\ renew
      BY <1>1, <1>3, <2>2, ReplaceFacts, ReplaceRuns
    <2>3. CASE y.listed # None /\ ~renew
      BY <1>1, <1>3, <2>3 DEF Quiet, Chosen
    <2> QED BY <2>1, <2>2, <2>3
  <1> HIDE DEF z
  <1>6. Calm(z, Sync(z, v)) /\ Chosen(z, Sync(z, v)) /\ Sync(z, v).current = z.current
    BY <1>5, SyncRuns
  <1>7. Quiet(x, Sync(z, v)) /\ Chosen(x, Sync(z, v))
    BY <1>4, <1>5, <1>6, CalmTwice DEF Calm, Chosen
  <1>8. x.current = 0 /\ x.folder = None => Calm(x, Sync(z, v)) /\ Sync(z, v).current = 0
    BY <1>1, <1>4, <1>5, <1>6, CalmTwice
  <1> QED BY <1>2, <1>7, <1>8

LEMMA CollectedRuns ==
    ASSUME NEW x \in Extension
    PROVE  LET y == Collected(x)
           IN /\ y.runs = x.runs /\ y.crashes = x.crashes /\ y.disabled = x.disabled
              /\ y.problem = x.problem /\ y.current = x.current /\ y.scope = x.scope
              /\ y.recorded = x.recorded
  <1> DEFINE left == [i \in 1..MaxInstances |->
                         IF i = x.current THEN x.instances[i]
                         ELSE IF x.instances[i].pending THEN [x.instances[i] EXCEPT !.version = None]
                         ELSE Unmade]
  <1>1. Collected(x) = [x EXCEPT !.instances = left]
    BY DEF Collected
  <1> HIDE DEF left
  <1> QED BY <1>1 DEF Extension

LEMMA ForgetRuns ==
    ASSUME NEW x \in Extension
    PROVE  LET y == Forget(x)
           IN /\ y.runs = x.runs /\ y.crashes = x.crashes /\ y.disabled = x.disabled
              /\ y.problem = x.problem /\ y.current = x.current
  <1>1. CASE x.current = 0
    BY <1>1 DEF Forget
  <1>2. CASE x.current # 0
    <2> DEFINE inst == [x.instances EXCEPT ![x.current] = [@ EXCEPT !.values = None, !.pending = FALSE]]
    <2>1. Forget(x) = [x EXCEPT !.file = None, !.last = None, !.instances = inst]
      BY <1>2 DEF Forget, Extension
    <2> HIDE DEF inst
    <2> QED BY <2>1 DEF Extension
  <1> QED BY <1>1, <1>2

LEMMA EraseRuns ==
    ASSUME NEW x \in Extension, NEW v \in Stored, Held(x), FreeRuns(x) # {}
    PROVE  Quiet(x, Erase(x, v)) /\ (x.current = 0 => Calm(x, Erase(x, v)))
  <1> DEFINE f == Forget(x)
             d == Drop(f, v)
             gone == [d EXCEPT !.folder = None]
             p == SetProblem(gone, None, None)
  <1>1. /\ f \in Extension /\ Held(f) /\ FreeRuns(f) # {} /\ f.current = x.current /\ Calm(x, f)
    BY ForgetFacts, ForgetRuns, SameCalm
  <1>2. Erase(x, v) = SetDisabled(p, FALSE, None)
    BY DEF Erase
  <1> HIDE DEF f
  <1>3. d \in Extension /\ d.current = 0 /\ d.scope = 0 /\ FreeRuns(d) # {} /\ Calm(f, d)
    BY <1>1, DropFacts, DropRuns
  <1> HIDE DEF d
  <1>4. /\ gone \in Extension /\ gone.current = 0 /\ gone.scope = 0 /\ gone.runs = d.runs
        /\ gone.crashes = d.crashes
    BY <1>3 DEF Extension, Folders
  <1> HIDE DEF gone
  <1>5. Resting(gone) /\ Held(gone) /\ FreeRuns(gone) # {} /\ Calm(d, gone)
    BY <1>3, <1>4, SameCalm DEF Resting, Held, Running, FreeRuns
  <1>6. /\ p \in Extension /\ Resting(p) /\ FreeRuns(p) # {} /\ p.current = 0 /\ Calm(gone, p)
    BY <1>4, <1>5, SetProblemFacts, SetProblemRuns, NoneStored
  <1> HIDE DEF p
  <1>7. Calm(p, SetDisabled(p, FALSE, None))
    BY <1>6, SetDisabledRuns, NoneStored
  <1>8. Quiet(x, d) /\ (x.current = 0 => Calm(x, d))
    BY <1>1, <1>3, CalmTwice DEF Calm
  <1>9. Calm(d, SetDisabled(p, FALSE, None))
    BY <1>3, <1>4, <1>5, <1>6, <1>7, CalmTwice
  <1>10. Quiet(x, SetDisabled(p, FALSE, None)) /\ (x.current = 0 => Calm(x, SetDisabled(p, FALSE, None)))
    BY <1>3, <1>8, <1>9, CalmTwice DEF Calm
  <1> QED BY <1>2, <1>10

-----------------------------------------------------------------------------
(* What the steps do to each extension's runs. *)

\* No enable is called and no crash counted, and only who is replaced or spares late runs is turned
\* off or on.
Fine(x, y) == Quiet(x, y) /\ (y.disabled = x.disabled \/ y.current # x.current \/ Spares(x, y))

LEMMA SameFine ==
    ASSUME NEW x, NEW y, y.crashes = x.crashes, y.runs = x.runs
    PROVE  Fine(x, y)
  BY DEF Fine, Quiet, Spares

\* Collecting what nobody reads changes nothing of it.
LEMMA CollectedFine ==
    ASSUME NEW x, NEW y \in Extension, Fine(x, y)
    PROVE  Fine(x, Collected(y))
  BY CollectedRuns DEF Fine, Quiet, Spares

LEMMA CalmFine ==
    ASSUME NEW x, NEW y, Calm(x, y)
    PROVE  Fine(x, y)
  BY DEF Calm, Fine

LEMMA OnlyFine ==
    ASSUME Settle(ext), NEW id \in Ids, NEW x \in Extension, Fine(ext[id], x), Only(id, x)
    PROVE  \A other \in Ids : Fine(ext[other], ext'[other])
  <1>1. \A other \in Ids : ext'[other] = IF other = id THEN Collected(x) ELSE ext[other]
    BY DEF Only, Settle
  <1> QED BY <1>1, CollectedFine, SameFine

LEMMA SyncFine ==
    ASSUME Settle(ext), NEW id \in Ids
    PROVE  Fine(ext[id], Sync(ext[id], None))
  BY SyncRuns, CalmFine, NoneStored DEF Settle, Resting

LEMMA ChangeFine ==
    ASSUME Settle(ext), NEW id \in Ids, NEW x \in Extension, Fine(ext[id], x), Change(id, x)
    PROVE  \A other \in Ids : Fine(ext[other], ext'[other])
  <1>1. CASE UNCHANGED ext
    BY <1>1, SameFine
  <1>2. CASE ext' = [other \in Ids |-> IF other = id THEN Collected(x) ELSE Sync(ext[other], None)]
    BY <1>2, CollectedFine, SyncFine
  <1> QED BY <1>1, <1>2 DEF Change

LEMMA PersonFine ==
    ASSUME Settle(ext), NEW id \in Ids, Enable(id) \/ Disable(id)
    PROVE  \A other \in Ids : Fine(ext[other], ext'[other])
  <1>1. ext[id] \in Extension /\ Resting(ext[id])
    BY DEF Settle
  <1>2. CASE Enable(id)
    <2>1. TurnOn(ext[id]) \in Extension /\ Calm(ext[id], TurnOn(ext[id])) /\ Change(id, TurnOn(ext[id]))
      BY <1>1, <1>2, TurnOnFacts, TurnOnRuns DEF Enable
    <2> QED BY <2>1, CalmFine, ChangeFine
  <1>3. CASE Disable(id)
    <2>1. PICK v \in Stored : Change(id, SetDisabled(ext[id], TRUE, v))
      BY <1>3 DEF Disable
    <2>2. SetDisabled(ext[id], TRUE, v) \in Extension /\ Calm(ext[id], SetDisabled(ext[id], TRUE, v))
      BY <1>1, SetDisabledFacts, SetDisabledRuns
    <2> QED BY <2>1, <2>2, CalmFine, ChangeFine
  <1> QED BY <1>2, <1>3

LEMMA ReloadFine ==
    ASSUME Settle(ext), NEW id \in Ids, Reload(id)
    PROVE  \A other \in Ids : Fine(ext[other], ext'[other])
  <1> DEFINE x == ext[id]
             again == /\ x.folder \in Versions /\ x.current # 0 /\ x.problem # None
                      /\ x.instances[x.current].version # x.folder
             t == IF again THEN TurnOn(x) ELSE x
             y == [t EXCEPT !.listed = x.folder]
  <1>1. x \in Extension /\ Resting(x) /\ FreeRuns(x) # {} /\ FreeInstances(x) # {}
        /\ \A r : FreeRuns(x) \ {r} # {}
    BY RoomFacts DEF Settle, Reload
  <1>2. PICK v \in Stored :
          LET z == Sync(IF y.listed \in Versions THEN Replace(y, v) ELSE Drop(y, v), v)
          IN ext' = [other \in Ids |-> IF other = id THEN Collected(z) ELSE Sync(ext[other], None)]
    BY DEF Reload
  <1>3. x.folder \in Folders
    BY <1>1 DEF Extension
  <1>4. /\ t \in Extension /\ Resting(t) /\ FreeRuns(t) # {} /\ t.current = x.current
        /\ t.instances = x.instances /\ \A r \in 1..MaxRuns : t.runs[r].of \in {x.runs[r].of, x.current}
        /\ Quiet(x, t) /\ (t.disabled = x.disabled \/ x.folder \in Versions)
    <2>1. CASE again
      <3>1. t = TurnOn(x) /\ x.folder \in Versions
        BY <2>1
      <3> HIDE DEF t, x
      <3> QED BY <1>1, <3>1, TurnOnFacts, TurnOnRuns DEF Calm
    <2>2. CASE ~again
      BY <1>1, <2>2 DEF Quiet
    <2> QED BY <2>1, <2>2
  <1> HIDE DEF t, x
  <1>5. /\ y \in Extension /\ y.current = t.current /\ y.instances = t.instances /\ y.runs = t.runs
        /\ y.scope = t.scope /\ y.listed = x.folder /\ y.crashes = t.crashes /\ y.disabled = t.disabled
    BY <1>3, <1>4 DEF Extension
  <1> HIDE DEF y
  <1>6. Held(y) /\ FreeRuns(y) # {} /\ FreeInstances(y) # {} /\ Quiet(x, y)
    BY <1>1, <1>4, <1>5 DEF Resting, Held, Running, FreeRuns, FreeInstances, Quiet
  <1> DEFINE w == IF y.listed \in Versions THEN Replace(y, v) ELSE Drop(y, v)
  <1>7. /\ w \in Extension /\ Held(w) /\ FreeRuns(w) # {} /\ Quiet(y, w) /\ w.disabled = y.disabled
        /\ x.folder \in Versions => w.current # x.current
    <2>1. CASE y.listed \in Versions
      BY <1>4, <1>5, <1>6, <2>1, ReplaceFacts, ReplaceRuns DEF Chosen
    <2>2. CASE y.listed \notin Versions
      BY <1>5, <1>6, <2>2, DropFacts, DropRuns DEF Resting, Calm, Chosen
    <2> QED BY <2>1, <2>2
  <1> HIDE DEF w
  <1>8. /\ Sync(w, v) \in Extension /\ Calm(w, Sync(w, v)) /\ Sync(w, v).disabled = w.disabled
        /\ Sync(w, v).current = w.current
    BY <1>7, SyncFacts, SyncRuns DEF Chosen
  <1>9. Quiet(x, Sync(w, v))
    BY <1>6, <1>7, <1>8, CalmTwice DEF Calm
  <1>10. Fine(x, Sync(w, v))
    BY <1>4, <1>5, <1>7, <1>8, <1>9 DEF Fine
  <1>11. ext' = [other \in Ids |-> IF other = id THEN Collected(Sync(w, v)) ELSE Sync(ext[other], None)]
    BY <1>2 DEF w
  <1>12. Fine(ext[id], Collected(Sync(w, v)))
    BY <1>8, <1>10, CollectedFine DEF x
  <1> QED BY <1>11, <1>12, SyncFine

LEMMA RemoveFine ==
    ASSUME Settle(ext), NEW id \in Ids, Remove(id)
    PROVE  \A other \in Ids : Fine(ext[other], ext'[other])
  <1>1. PICK v \in [Ids -> Stored] :
          ext' = [other \in Ids |->
                     Collected(Rescan(IF other = id THEN Erase(ext[id], v[id]) ELSE ext[other], v[other]))]
    BY DEF Remove
  <1>2. \A other \in Ids : /\ ext[other] \in Extension /\ Held(ext[other]) /\ FreeRuns(ext[other]) # {}
                            /\ FreeInstances(ext[other]) # {}
    BY RoomFacts DEF Settle, Remove, Resting
  <1>3. None \notin Versions
    BY ExtensionsAssumption
  <1>4. ASSUME NEW other \in Ids, other # id
        PROVE  Fine(ext[other], Collected(Rescan(ext[other], v[other])))
    <2>1. /\ Rescan(ext[other], v[other]) \in Extension
          /\ Quiet(ext[other], Rescan(ext[other], v[other])) /\ Chosen(ext[other], Rescan(ext[other], v[other]))
      BY <1>2, RescanFacts, RescanRuns
    <2> QED BY <2>1, CollectedFine DEF Fine, Chosen
  <1>5. Fine(ext[id], Collected(Rescan(Erase(ext[id], v[id]), v[id])))
    <2> DEFINE x == ext[id]
               e == Erase(x, v[id])
               y == Rescan(e, v[id])
    <2>1. /\ e \in Extension /\ Held(e) /\ FreeRuns(e) # {} /\ e.current = 0 /\ e.folder = None
          /\ Quiet(x, e) /\ (x.current = 0 => Calm(x, e))
      BY <1>2, EraseFacts, EraseRuns DEF Resting
    <2> HIDE DEF e, x
    <2>2. y \in Extension /\ Quiet(e, y) /\ Calm(e, y) /\ y.current = 0
      BY <1>3, <2>1, RescanFacts, RescanRuns
    <2>3. Fine(x, y)
      BY <2>1, <2>2, CalmTwice DEF Fine, Calm
    <2> HIDE DEF y
    <2>4. Fine(x, Collected(y))
      BY <2>2, <2>3, CollectedFine
    <2> QED BY <2>4 DEF x, e, y
  <1> QED BY <1>1, <1>4, <1>5

LEMMA RemoveFailsFine ==
    ASSUME Settle(ext), NEW id \in Ids, RemoveFails(id)
    PROVE  \A other \in Ids : Fine(ext[other], ext'[other])
  <1>1. PICK v \in Stored, f \in {ext[id].folder, Broken, None} :
          Only(id, [Drop(Forget(ext[id]), v) EXCEPT !.folder = f])
    BY DEF RemoveFails
  <1>2. ext[id] \in Extension /\ Held(ext[id])
    BY DEF Settle, Resting
  <1> DEFINE g == Forget(ext[id])
             d == Drop(g, v)
             x == [d EXCEPT !.folder = f]
  <1>3. g \in Extension /\ Held(g) /\ g.disabled = ext[id].disabled /\ Calm(ext[id], g)
    BY <1>2, ForgetFacts, ForgetRuns, SameCalm
  <1>4. Only(id, x)
    BY <1>1
  <1> HIDE DEF g
  <1>5. d \in Extension /\ Calm(g, d) /\ d.disabled = g.disabled
    BY <1>3, DropFacts, DropRuns
  <1>6. f \in Folders
    BY <1>2 DEF Extension, Folders
  <1> HIDE DEF d
  <1>7. x \in Extension /\ x.crashes = d.crashes /\ x.runs = d.runs /\ x.disabled = d.disabled
    BY <1>5, <1>6 DEF Extension
  <1> HIDE DEF x
  <1>8. Fine(ext[id], x)
    BY <1>3, <1>5, <1>7 DEF Fine, Calm, Quiet
  <1> QED BY <1>4, <1>7, <1>8, OnlyFine

LEMMA RescanAllFine ==
    ASSUME Settle(ext), RemoveOther \/ RestartAll
    PROVE  \A id \in Ids : Fine(ext[id], ext'[id])
  <1>1. ASSUME NEW id \in Ids
        PROVE  /\ ext[id] \in Extension /\ Held(ext[id])
               /\ FreeRuns(ext[id]) # {} /\ FreeInstances(ext[id]) # {}
    BY RoomFacts DEF Settle, RemoveOther, RestartAll, Resting
  <1>2. CASE RemoveOther
    <2>1. PICK v \in [Ids -> Stored] : ext' = [id \in Ids |-> Collected(Rescan(ext[id], v[id]))]
      BY <1>2 DEF RemoveOther
    <2>2. \A id \in Ids : Rescan(ext[id], v[id]) \in Extension /\ Fine(ext[id], Rescan(ext[id], v[id]))
      BY <1>1, RescanFacts, RescanRuns DEF Fine, Chosen
    <2> QED BY <2>1, <2>2, CollectedFine
  <1>3. CASE RestartAll
    <2>1. PICK v \in [Ids -> Stored] :
            ext' = [id \in Ids |->
                       Collected(Sync(IF ext[id].listed \in Versions THEN Replace(ext[id], v[id]) ELSE ext[id],
                                      None))]
      BY <1>3 DEF RestartAll
    <2>2. ASSUME NEW id \in Ids
          PROVE  Fine(ext[id], Collected(Sync(IF ext[id].listed \in Versions THEN Replace(ext[id], v[id])
                                              ELSE ext[id], None)))
      <3> DEFINE w == IF ext[id].listed \in Versions THEN Replace(ext[id], v[id]) ELSE ext[id]
      <3>1. /\ w \in Extension /\ Held(w) /\ FreeRuns(w) # {} /\ Quiet(ext[id], w)
            /\ w.disabled = ext[id].disabled
        BY <1>1, ReplaceFacts, ReplaceRuns DEF Quiet, Chosen
      <3> HIDE DEF w
      <3>2. Sync(w, None) \in Extension /\ Calm(w, Sync(w, None)) /\ Chosen(w, Sync(w, None))
        BY <3>1, SyncFacts, SyncRuns, NoneStored
      <3>3. Fine(ext[id], Sync(w, None))
        BY <3>1, <3>2, CalmTwice DEF Fine, Calm, Chosen
      <3>4. Fine(ext[id], Collected(Sync(w, None)))
        BY <3>2, <3>3, CollectedFine
      <3> QED BY <3>4 DEF w
    <2> QED BY <2>1, <2>2
  <1> QED BY <1>2, <1>3
LEMMA EnabledFine ==
    ASSUME Settle(ext), NEW id \in Ids, NEW r \in 1..MaxRuns, Enabled(id, r)
    PROVE  \A other \in Ids : Fine(ext[other], ext'[other])
  <1> DEFINE x == ext[id]
  <1>1. x \in Extension /\ Resting(x) /\ Known(x)
    BY DEF Settle
  <1>2. CASE x.scope = r
    <2> DEFINE runs == [x.runs EXCEPT ![r].stage = "on"]
               y == [x EXCEPT !.runs[r].stage = "on"]
    <2>1. Only(id, y)
      BY <1>2 DEF Enabled
    <2>2. y \in Extension
      BY <1>1, StageResting
    <2> HIDE DEF x
    <2>3. \A q \in 1..MaxRuns : runs[q] = x.runs[q] \/ runs[q].stage = "on"
      <3>1. x.runs \in [1..MaxRuns -> Run]
        BY <1>1 DEF Extension
      <3> QED BY <3>1 DEF Run
    <2>4. y = [x EXCEPT !.runs = runs]
      BY <1>1 DEF Extension
    <2> HIDE DEF runs
    <2>5. y.runs = runs /\ y.crashes = x.crashes /\ y.disabled = x.disabled
      BY <1>1, <2>4 DEF Extension
    <2> HIDE DEF y
    <2>6. Fine(x, y)
      BY <2>3, <2>5 DEF Fine, Quiet
    <2> QED BY <2>1, <2>2, <2>6, OnlyFine DEF x
  <1>3. CASE x.scope # r
    <2>1. Only(id, Settled(x, r))
      BY <1>3 DEF Enabled
    <2>2. Settled(x, r) \in Extension /\ Fine(x, Settled(x, r))
      BY <1>1, SettledFacts, SettledRuns DEF Fine, Alike
    <2> QED BY <2>1, <2>2, OnlyFine
  <1> QED BY <1>2, <1>3

\* Only the open run of an extension that's on goes on once its module is there.
LEMMA LoadedRuns ==
    ASSUME Settle(ext), NEW id \in Ids, NEW r \in 1..MaxRuns, Loaded(id, r)
    PROVE  LET x == ext[id]
               y == ext'[id]
           IN /\ \A other \in Ids : other # id => ext'[other] = ext[other]
              /\ y.crashes = x.crashes /\ y.disabled = x.disabled
              /\ \A q \in 1..MaxRuns : x.runs[q].stage = "loading" /\ y.runs[q].stage = "enabling" =>
                    q = y.scope /\ x.runs[q].of = y.current /\ ~y.disabled
  <1> DEFINE x == ext[id]
  <1>1. x \in Extension /\ Resting(x) /\ Known(x) /\ ext \in [Ids -> Extension]
    BY DEF Settle
  <1>2. CASE x.scope = r
    <2> DEFINE runs == [x.runs EXCEPT ![r].stage = "enabling"]
               y == [x EXCEPT !.runs[r].stage = "enabling"]
    <2>1. ext' = [ext EXCEPT ![id] = Collected(y)]
      BY <1>2 DEF Loaded, Only
    <2>2. y \in Extension
      BY <1>1, StageResting
    <2> HIDE DEF x
    <2>3. \A q \in 1..MaxRuns : q # r => runs[q] = x.runs[q]
      BY <1>1 DEF Extension
    <2>4. y = [x EXCEPT !.runs = runs]
      BY <1>1 DEF Extension
    <2> HIDE DEF runs
    <2>5. /\ y.runs = runs /\ y.crashes = x.crashes /\ y.disabled = x.disabled /\ y.scope = x.scope
          /\ y.current = x.current
      BY <1>1, <2>4 DEF Extension
    <2> HIDE DEF y
    <2>6. ~x.disabled /\ x.runs[r].of = x.current
      BY <1>1, <1>2, BoundsType DEF Resting, Held, Running
    <2>7. ext'[id] = Collected(y) /\ \A other \in Ids : other # id => ext'[other] = ext[other]
      BY <1>1, <2>1
    <2> QED BY <1>2, <2>2, <2>3, <2>5, <2>6, <2>7, CollectedRuns DEF x
  <1>3. CASE x.scope # r
    <2>1. ext' = [ext EXCEPT ![id] = Collected(Settled(x, r))]
      BY <1>3 DEF Loaded, Only
    <2>2. Settled(x, r) \in Extension /\ Quiet(x, Settled(x, r)) /\ Settled(x, r).disabled = x.disabled
      BY <1>1, SettledFacts, SettledRuns DEF Alike
    <2>3. ext'[id] = Collected(Settled(x, r)) /\ \A other \in Ids : other # id => ext'[other] = ext[other]
      BY <1>1, <2>1
    <2> QED BY <2>2, <2>3, CollectedRuns DEF Quiet
  <1> QED BY <1>2, <1>3

LEMMA FailureFine ==
    ASSUME Settle(ext), NEW id \in Ids,
           CallbackFails(id) \/ \E r \in 1..MaxRuns : StartFails(id, r)
    PROVE  \A other \in Ids : Fine(ext[other], ext'[other])
  <1> DEFINE x == ext[id]
  <1>1. x \in Extension /\ Resting(x) /\ Held(x) /\ Known(x)
    BY DEF Settle, Resting
  <1>2. CASE CallbackFails(id)
    <2>1. PICK v \in Stored : Change(id, Failed(x, v)) /\ FreeRuns(x) # {}
      BY <1>2 DEF CallbackFails
    <2>2. Failed(x, v) \in Extension /\ Calm(x, Failed(x, v))
      BY <1>1, <2>1, FailedFacts, FailedRuns
    <2> QED BY <2>1, <2>2, CalmFine, ChangeFine
  <1>3. ASSUME NEW r \in 1..MaxRuns, StartFails(id, r)
        PROVE  \A other \in Ids : Fine(ext[other], ext'[other])
    <2> DEFINE stopped(v) == Settled(IF x.scope = r THEN Stop(x, v) ELSE x, r)
    <2>1. PICK v \in Stored : IF x.runs[r].of = x.current THEN Change(id, Failed(stopped(v), v))
                              ELSE Only(id, stopped(v))
      BY <1>3 DEF StartFails
    <2>2. /\ stopped(v) \in Extension /\ Held(stopped(v)) /\ FreeRuns(stopped(v)) # {}
          /\ stopped(v).current = x.current /\ stopped(v).disabled = x.disabled
          /\ Quiet(x, stopped(v)) /\ (x.runs[r].of = x.current => Calm(x, stopped(v)))
      <3>1. CASE x.scope = r
        <4> DEFINE s == Stop(x, v)
        <4>1. /\ s \in Extension /\ s.scope = 0 /\ Calm(x, s) /\ s.current = x.current
              /\ s.disabled = x.disabled
          BY <1>1, StopFacts, StopRuns DEF Alike
        <4>2. stopped(v) = Settled(s, r)
          BY <3>1
        <4> HIDE DEF s, stopped
        <4>3. LET t == Settled(s, r)
              IN /\ t \in Extension /\ t.scope = 0 /\ FreeRuns(t) # {} /\ t.current = x.current
                 /\ t.disabled = x.disabled /\ Quiet(s, t)
                 /\ \A q \in 1..MaxRuns \ {r} : t.runs[q] = s.runs[q]
          BY <4>1, SettledFacts, SettledRuns DEF Alike
        <4>4. Calm(x, Settled(s, r)) \/ x.runs[r].of # x.current
          BY <4>1, <4>3, CalmTwice DEF Calm, Spares
        <4>5. Quiet(x, Settled(s, r))
          BY <4>1, <4>3, CalmTwice DEF Calm
        <4> QED BY <4>2, <4>3, <4>4, <4>5 DEF Held, Running
      <3>2. CASE x.scope # r
        <4>1. stopped(v) = Settled(x, r)
          BY <3>2
        <4> HIDE DEF stopped, x
        <4>2. Held(Settled(x, r))
          BY <1>1, <3>2, SettledResting DEF Resting
        <4>3. LET t == Settled(x, r)
              IN t \in Extension /\ FreeRuns(t) # {} /\ t.current = x.current /\ t.disabled = x.disabled
          BY <1>1, SettledFacts DEF Alike
        <4>4. Quiet(x, Settled(x, r)) /\ (x.runs[r].of = x.current => Calm(x, Settled(x, r)))
          BY <1>1, SettledRuns
        <4> QED BY <4>1, <4>2, <4>3, <4>4
      <3> QED BY <3>1, <3>2
    <2> HIDE DEF stopped, x
    <2>3. Failed(stopped(v), v) \in Extension /\ Calm(stopped(v), Failed(stopped(v), v))
      BY <2>2, FailedFacts, FailedRuns
    <2>4. CASE x.runs[r].of = x.current
      <3>1. Calm(x, Failed(stopped(v), v))
        BY <2>2, <2>3, <2>4, CalmTwice
      <3>2. Fine(x, Failed(stopped(v), v)) /\ Change(id, Failed(stopped(v), v))
        BY <2>1, <2>4, <3>1, CalmFine
      <3> QED BY <2>3, <3>2, ChangeFine DEF x
    <2>5. CASE x.runs[r].of # x.current
      <3>1. Fine(x, stopped(v)) /\ Only(id, stopped(v))
        BY <2>1, <2>2, <2>5 DEF Fine
      <3> QED BY <2>2, <3>1, OnlyFine DEF x
    <2> QED BY <2>4, <2>5
  <1> QED BY <1>2, <1>3

LEMMA StorageFine ==
    ASSUME Settle(ext), StoredInv, NEW id \in Ids,
           \/ \E r \in 1..MaxRuns : Stores(id, r)
           \/ \E i \in 1..MaxInstances : Write(id, i)
    PROVE  \A other \in Ids : Fine(ext[other], ext'[other])
  <1> DEFINE x == ext[id]
  <1>1. x \in Extension /\ Whole(x)
    BY DEF Settle, StoredInv
  <1>2. ASSUME NEW r \in 1..MaxRuns, Stores(id, r)
        PROVE  \A other \in Ids : Fine(ext[other], ext'[other])
    <2>1. PICK v \in Values : Only(id, Set(x, x.runs[r].of, v)) /\ x.runs[r].stage # "free"
      BY <1>2 DEF Stores
    <2>2. v \in Stored /\ x.runs[r].of \in 1..MaxInstances
      BY <1>1, <2>1, BoundsType DEF Stored, Extension, Run, Whole
    <2> QED BY <1>1, <2>1, <2>2, SetFacts, SameFine, OnlyFine DEF Alike
  <1>3. ASSUME NEW i \in 1..MaxInstances, Write(id, i)
        PROVE  \A other \in Ids : Fine(ext[other], ext'[other])
    <2> DEFINE f == Flush(x, i)
               y == [f EXCEPT !.last = IF i = f.current THEN @ ELSE Latest(f)]
    <2>1. Only(id, y)
      BY <1>3 DEF Write
    <2>2. f \in Extension /\ f.crashes = x.crashes /\ f.runs = x.runs
      BY <1>1, FlushFacts DEF Alike
    <2> HIDE DEF f, x
    <2>3. Latest(f) \in Stored
      <3>1. f.current # 0 => f.current \in 1..MaxInstances
        BY <2>2, BoundsType DEF Extension
      <3> QED BY <2>2, <3>1 DEF Latest, Extension, Instance
    <2>4. y \in Extension /\ y.crashes = f.crashes /\ y.runs = f.runs
      BY <2>2, <2>3 DEF Extension
    <2> HIDE DEF y
    <2>5. Fine(x, y)
      BY <2>2, <2>4, SameFine
    <2> QED BY <2>1, <2>4, <2>5, OnlyFine DEF x
  <1> QED BY <1>2, <1>3

\* All that Kestrel does while it runs, but for a module that was loaded.
LEMMA RunningFine ==
    ASSUME Settle(ext), StoredInv,
           \/ \E id \in Ids :
                 \/ Enable(id) \/ Disable(id) \/ Reload(id) \/ Remove(id) \/ RemoveFails(id)
                 \/ CallbackFails(id)
                 \/ \E r \in 1..MaxRuns : Enabled(id, r) \/ StartFails(id, r) \/ Stores(id, r)
                 \/ \E i \in 1..MaxInstances : Write(id, i)
           \/ RemoveOther \/ RestartAll
    PROVE  \A other \in Ids : Fine(ext[other], ext'[other])
  BY PersonFine, ReloadFine, RemoveFine, RemoveFailsFine, FailureFine, EnabledFine, StorageFine,
     RescanAllFine

LEMMA UnpackRuns ==
    ASSUME Settle(ext), NEW id \in Ids, Unpack(id)
    PROVE  \A other \in Ids : /\ Fine(ext[other], ext'[other])
                              /\ ext'[other].recorded = ext[other].recorded
  <1>1. PICK f \in Folders : ext' = [ext EXCEPT ![id].folder = f]
    BY DEF Unpack
  <1> DEFINE x == ext[id]
             y == [x EXCEPT !.folder = f]
  <1>2. x \in Extension /\ ext \in [Ids -> Extension]
    BY DEF Settle
  <1>3. \A other \in Ids : ext'[other] = IF other = id THEN y ELSE ext[other]
    BY <1>1, <1>2
  <1> HIDE DEF x
  <1>4. y.runs = x.runs /\ y.crashes = x.crashes /\ y.recorded = x.recorded
    BY <1>2 DEF Extension
  <1> HIDE DEF y
  <1> QED BY <1>3, <1>4, SameFine DEF x

LEMMA EndRuns ==
    ASSUME Settle(ext), Quit \/ Crash
    PROVE  \A id \in Ids : /\ Fine(ext[id], ext'[id])
                           /\ Crash => ext'[id].recorded = ext[id].recorded
  <1>1. ASSUME NEW x \in Extension
        PROVE  LET y == Ended(x)
               IN /\ y \in Extension /\ y.crashes = x.crashes /\ y.disabled = x.disabled
                  /\ y.recorded = x.recorded /\ \A r \in 1..MaxRuns : y.runs[r] = Free
    <2>1. Ended(x) \in Extension
      BY EndedFacts
    <2> QED BY <2>1 DEF Ended, Extension
  <1>2. CASE Quit
    <2>1. PICK v \in [Ids -> Stored] : ext' = [id \in Ids |-> Ended(Drop(ext[id], v[id]))]
      BY <1>2 DEF Quit
    <2>2. \A id \in Ids : /\ Drop(ext[id], v[id]) \in Extension
                          /\ Drop(ext[id], v[id]).crashes = ext[id].crashes
                          /\ Drop(ext[id], v[id]).disabled = ext[id].disabled
      BY DropFacts DEF Settle, Resting
    <2>3. ~Crash
      BY <1>2 DEF Quit, Crash
    <2> QED BY <1>1, <2>1, <2>2, <2>3 DEF Fine, Quiet, Free
  <1>3. CASE Crash
    <2>1. ext' = [id \in Ids |-> [Ended(ext[id]) EXCEPT !.last = ext[id].file]]
      BY <1>3 DEF Crash
    <2>2. ASSUME NEW id \in Ids
          PROVE  LET y == [Ended(ext[id]) EXCEPT !.last = ext[id].file]
                 IN Fine(ext[id], y) /\ y.recorded = ext[id].recorded
      <3> DEFINE e == Ended(ext[id])
                 y == [e EXCEPT !.last = ext[id].file]
      <3>1. /\ e \in Extension /\ e.crashes = ext[id].crashes /\ e.disabled = ext[id].disabled
            /\ e.recorded = ext[id].recorded /\ \A r \in 1..MaxRuns : e.runs[r] = Free
        BY <1>1 DEF Settle
      <3> HIDE DEF e
      <3>2. /\ y.runs = e.runs /\ y.crashes = e.crashes /\ y.disabled = e.disabled
            /\ y.recorded = e.recorded
        BY <3>1 DEF Extension
      <3> HIDE DEF y
      <3>3. Fine(ext[id], y) /\ y.recorded = ext[id].recorded
        BY <3>1, <3>2 DEF Fine, Quiet, Free
      <3> QED BY <3>3 DEF e, y
    <2> QED BY <2>1, <2>2
  <1> QED BY <1>2, <1>3

\* What counting crashes decides stays when the folders are looked at.
LEMMA StartUpRuns ==
    ASSUME ExtensionsInv, NEW restarted \in BOOLEAN, StartUp(restarted), NEW id \in Ids
    PROVE  LET x == ext[id]
               y == ext'[id]
               n == Counted(x, restarted)
           IN /\ y.crashes = n /\ n \in Nat
              /\ n >= CRASHES_BEFORE_OFF => y.disabled /\ y.problem = "crash"
              /\ n < CRASHES_BEFORE_OFF => y.disabled = x.disabled /\ y.problem = x.problem
              /\ \A r \in 1..MaxRuns : x.runs[r] = Free /\ y.runs[r].stage # "enabling"
  <1> DEFINE x == ext[id]
             n == Counted(x, restarted)
             counted == [x EXCEPT !.crashes = n, !.recorded = FALSE]
             kept == IF counted.crashes >= CRASHES_BEFORE_OFF
                     THEN [counted EXCEPT !.problem = "crash", !.disabled = TRUE]
                     ELSE counted
  <1>1. x \in Extension /\ Unstarted(x) /\ (restarted => x.crashes < MaxCrashes)
    BY DEF ExtensionsInv, Settle, StartUp
  <1>2. n \in 0..MaxCrashes
    <2>1. x.crashes \in 0..MaxCrashes
      BY <1>1 DEF Extension
    <2> QED BY <1>1, <2>1, BoundsType DEF Counted
  <1>3. ext'[id] = Rescan(kept, None)
    BY DEF StartUp, Started
  <1> HIDE DEF n, x
  <1>4. /\ counted \in Extension /\ counted.current = x.current /\ counted.scope = x.scope
        /\ counted.instances = x.instances /\ counted.runs = x.runs /\ counted.crashes = n
        /\ counted.disabled = x.disabled /\ counted.problem = x.problem
    BY <1>1, <1>2 DEF Extension
  <1> HIDE DEF counted
  <1>5. n \in Nat /\ CRASHES_BEFORE_OFF \in Nat
    BY <1>2 DEF CRASHES_BEFORE_OFF
  <1>6. /\ kept \in Extension /\ kept.current = x.current /\ kept.scope = x.scope
        /\ kept.instances = x.instances /\ kept.runs = x.runs /\ kept.crashes = n
        /\ n >= CRASHES_BEFORE_OFF => kept.disabled /\ kept.problem = "crash"
        /\ n < CRASHES_BEFORE_OFF => kept.disabled = x.disabled /\ kept.problem = x.problem
    <2>1. CASE n >= CRASHES_BEFORE_OFF
      <3>1. kept = [counted EXCEPT !.problem = "crash", !.disabled = TRUE]
        BY <1>4, <2>1
      <3>2. ~(n < CRASHES_BEFORE_OFF)
        BY <1>5, <2>1
      <3> HIDE DEF kept
      <3> QED BY <1>4, <3>1, <3>2 DEF Extension
    <2>2. CASE ~(n >= CRASHES_BEFORE_OFF)
      <3>1. kept = counted
        BY <1>4, <2>2
      <3> HIDE DEF kept
      <3> QED BY <1>4, <2>2, <3>1
    <2> QED BY <2>1, <2>2
  <1> HIDE DEF kept
  <1>7. Held(kept)
    BY <1>1, <1>6 DEF Unstarted, Held, Running
  <1>8. 1 \in FreeRuns(kept)
    BY <1>1, <1>6, BoundsType DEF Unstarted, FreeRuns
  <1>9. 1 \in FreeInstances(kept)
    BY <1>1, <1>6, BoundsType DEF Unstarted, FreeInstances, Unmade, Free
  <1>10. Quiet(kept, Rescan(kept, None)) /\ Chosen(kept, Rescan(kept, None))
    BY <1>6, <1>7, <1>8, <1>9, RescanRuns, NoneStored
  <1>11. \A r \in 1..MaxRuns : x.runs[r] = Free
    BY <1>1 DEF Unstarted
  <1>12. \A r \in 1..MaxRuns : Rescan(kept, None).runs[r].stage # "enabling"
    BY <1>6, <1>10, <1>11 DEF Quiet, Free
  <1> QED BY <1>3, <1>5, <1>6, <1>10, <1>11, <1>12 DEF Quiet, Chosen, x, n
-----------------------------------------------------------------------------
(* The theorems. *)

(* A run that was stopped does nothing when it comes back, however many there are: enable is    *)
(* called only for the open run of an extension that's on, and a failure of a replaced instance *)
(* doesn't turn its successor off.                                                              *)
THEOREM LateRunsAreLost == Spec => LateRunsDoNothing
  <1> DEFINE Late(x, y) ==
               \A r \in 1..MaxRuns :
                  /\ x.runs[r].stage = "loading" /\ y.runs[r].stage = "enabling"
                        => r = y.scope /\ x.runs[r].of = y.current /\ ~y.disabled
                  /\ x.runs[r] # Free /\ y.runs[r] = Free /\ x.runs[r].of # x.current
                        /\ x.current = y.current
                        => x.disabled = y.disabled
  <1>1. ASSUME NEW x, NEW y, Fine(x, y) PROVE Late(x, y)
    <2>1. ASSUME NEW r \in 1..MaxRuns, y.runs[r].stage = "enabling" PROVE x.runs[r].stage # "loading"
      BY <1>1, <2>1 DEF Fine, Quiet
    <2> QED BY <1>1, <2>1 DEF Fine, Spares
  <1>2. ASSUME ExtensionsInv, StoredInv, [Next]_vars
        PROVE  \A id \in Ids : Late(ext[id], ext'[id])
    <2>1. Settle(ext)
      BY <1>2 DEF ExtensionsInv
    <2>2. CASE \E id \in Ids, r \in 1..MaxRuns : Loaded(id, r)
      <3>1. PICK id \in Ids, r \in 1..MaxRuns : Loaded(id, r)
        BY <2>2
      <3>2. Late(ext[id], ext'[id])
        BY <2>1, <3>1, LoadedRuns
      <3>3. \A other \in Ids : other # id => Late(ext[other], ext'[other])
        BY <2>1, <3>1, <1>1, LoadedRuns, SameFine
      <3> QED BY <3>2, <3>3
    <2>3. ASSUME NEW restarted \in BOOLEAN, StartUp(restarted)
          PROVE  \A id \in Ids : Late(ext[id], ext'[id])
      <3> SUFFICES ASSUME NEW id \in Ids PROVE Late(ext[id], ext'[id])
        OBVIOUS
      <3>1. \A r \in 1..MaxRuns : ext[id].runs[r] = Free
        BY <1>2, <2>3, StartUpRuns
      <3> QED BY <3>1 DEF Free
    <2>4. CASE UNCHANGED vars
      BY <1>1, <2>4, SameFine DEF vars
    <2>5. CASE \E id \in Ids : Unpack(id)
      BY <1>1, <2>1, <2>5, UnpackRuns
    <2>6. CASE Quit \/ Crash
      BY <1>1, <2>1, <2>6, EndRuns
    <2>7. CASE \/ \E id \in Ids :
                    \/ Enable(id) \/ Disable(id) \/ Reload(id) \/ Remove(id) \/ RemoveFails(id)
                    \/ CallbackFails(id)
                    \/ \E r \in 1..MaxRuns : Enabled(id, r) \/ StartFails(id, r) \/ Stores(id, r)
                    \/ \E i \in 1..MaxInstances : Write(id, i)
               \/ RemoveOther \/ RestartAll
      <3>1. \A id \in Ids : Fine(ext[id], ext'[id])
        BY <1>2, <2>1, <2>7, RunningFine
      <3> QED BY <1>1, <3>1
    <2> HIDE DEF Late
    <2> QED BY <1>2, <2>2, <2>3, <2>4, <2>5, <2>6, <2>7 DEF Next
  <1>3. ExtensionsInv /\ StoredInv /\ [Next]_vars =>
          [\A id \in Ids : \A r \in 1..MaxRuns :
             LET x == ext[id]
                 y == ext'[id]
             IN /\ x.runs[r].stage = "loading" /\ y.runs[r].stage = "enabling"
                      => r = y.scope /\ x.runs[r].of = y.current /\ ~y.disabled
                /\ x.runs[r] # Free /\ y.runs[r] = Free /\ x.runs[r].of # x.current /\ x.current = y.current
                      => x.disabled = y.disabled]_vars
    BY <1>2
  <1> QED BY <1>3, StaysSettled, StaysWhole, PTL DEF Spec, LateRunsDoNothing

\* What is counted is at least the crashes in a row, and whoever ran at a crash is on record.
CrashInv ==
    \A id \in Ids :
       /\ up => streak[id] <= ext[id].crashes
       /\ ~up /\ crashed => /\ streak[id] <= ext[id].crashes + 1
                            /\ streak[id] # 0 => ext[id].recorded

LEMMA CrashesAreNumbers ==
    ASSUME ExtensionsInv, NEW id \in Ids
    PROVE  ext[id].crashes \in Nat /\ streak[id] \in Nat
  <1>1. ext[id].crashes \in 0..MaxCrashes
    BY DEF ExtensionsInv, Settle, Extension
  <1> QED BY <1>1, BoundsType DEF ExtensionsInv

LEMMA StartUpCounts ==
    ASSUME ExtensionsInv, CrashInv, NEW restarted \in BOOLEAN, StartUp(restarted), NEW id \in Ids
    PROVE  /\ streak'[id] <= ext'[id].crashes
           /\ streak'[id] \in Nat /\ ext'[id].crashes = Counted(ext[id], restarted)
  <1>1. ext'[id].crashes = Counted(ext[id], restarted)
    BY StartUpRuns
  <1>2. ext[id].crashes \in Nat /\ streak[id] \in Nat
    BY CrashesAreNumbers
  <1>3. CASE restarted
    <2>1. streak'[id] = streak[id] /\ crashed /\ ~up
      BY <1>3 DEF StartUp
    <2> QED BY <1>1, <1>2, <1>3, <2>1 DEF CrashInv, Counted
  <1>4. CASE ~restarted
    BY <1>1, <1>4 DEF StartUp, Counted
  <1> QED BY <1>3, <1>4

LEMMA StepsKeepCounts == ExtensionsInv /\ StoredInv /\ CrashInv /\ [Next]_vars => CrashInv'
  <1> SUFFICES ASSUME ExtensionsInv, StoredInv, CrashInv, [Next]_vars PROVE CrashInv'
    OBVIOUS
  <1>1. Settle(ext)
    BY DEF ExtensionsInv
  <1>2. ASSUME up, UNCHANGED <<up, streak>>, \A id \in Ids : ext'[id].crashes = ext[id].crashes
        PROVE  CrashInv'
    BY <1>2 DEF CrashInv
  <1>3. ASSUME NEW id \in Ids, NEW r \in 1..MaxRuns, Loaded(id, r) PROVE CrashInv'
    <2>1. \A other \in Ids : ext'[other].crashes = ext[other].crashes
      BY <1>1, <1>3, LoadedRuns
    <2>2. up /\ UNCHANGED <<up, streak>>
      BY <1>3 DEF Loaded
    <2> QED BY <1>2, <2>1, <2>2
  <1>4. ASSUME NEW restarted \in BOOLEAN, StartUp(restarted) PROVE CrashInv'
    <2>1. up' = TRUE
      BY <1>4 DEF StartUp
    <2> QED BY <1>4, <2>1, StartUpCounts DEF CrashInv
  <1>5. CASE UNCHANGED vars
    BY <1>5 DEF vars, CrashInv
  <1>6. ASSUME NEW id \in Ids, Unpack(id) PROVE CrashInv'
    <2>1. \A other \in Ids : ext'[other].crashes = ext[other].crashes /\ ext'[other].recorded = ext[other].recorded
      BY <1>1, <1>6, UnpackRuns DEF Fine, Quiet
    <2>2. UNCHANGED <<up, crashed, streak>>
      BY <1>6 DEF Unpack
    <2> QED BY <2>1, <2>2 DEF CrashInv
  <1>7. CASE Quit
    BY <1>7 DEF Quit, CrashInv
  <1>8. CASE Crash
    <2>1. \A id \in Ids : ext'[id].crashes = ext[id].crashes /\ ext'[id].recorded = ext[id].recorded
      BY <1>1, <1>8, EndRuns DEF Fine, Quiet
    <2>2. /\ up /\ up' = FALSE
          /\ \A id \in Ids : streak'[id] = IF Running(ext[id]) THEN streak[id] + 1 ELSE 0
      BY <1>8 DEF Crash
    <2>3. \A id \in Ids : Running(ext[id]) => ext[id].recorded
      BY <1>1 DEF Settle, Resting
    <2>4. \A id \in Ids : streak[id] <= ext[id].crashes /\ streak[id] \in Nat /\ ext[id].crashes \in Nat
      BY <2>2, CrashesAreNumbers DEF CrashInv
    <2> QED BY <2>1, <2>2, <2>3, <2>4 DEF CrashInv
  <1>9. CASE \/ \E id \in Ids :
                  \/ Enable(id) \/ Disable(id) \/ Reload(id) \/ Remove(id) \/ RemoveFails(id)
                  \/ CallbackFails(id)
                  \/ \E r \in 1..MaxRuns : Enabled(id, r) \/ StartFails(id, r) \/ Stores(id, r)
                  \/ \E i \in 1..MaxInstances : Write(id, i)
             \/ RemoveOther \/ RestartAll
    <2>1. \A id \in Ids : ext'[id].crashes = ext[id].crashes
      BY <1>1, <1>9, RunningFine DEF Fine, Quiet
    <2>2. up /\ UNCHANGED <<up, streak>>
      BY <1>9 DEF Enable, Disable, Reload, Remove, RemoveFails, CallbackFails, Enabled, StartFails,
                  Stores, Write, RemoveOther, RestartAll
    <2> QED BY <1>2, <2>1, <2>2
  <1> QED BY <1>3, <1>4, <1>5, <1>6, <1>7, <1>8, <1>9 DEF Next

(* Back from the second crash in a row that an extension ran through, Kestrel keeps it off, and *)
(* only who is on record is ever turned off for a crash: the record that sync writes is what    *)
(* CrashGuard counts, and looking at the folders again doesn't undo its decision.               *)
THEOREM CrashesTurnOff == Spec => TwoCrashesTurnOff
  <1>1. Init => CrashInv
    BY DEF Init, CrashInv
  <1>2. ExtensionsInv /\ StoredInv /\ CrashInv /\ [Next]_vars => CrashInv'
    BY StepsKeepCounts
  <1>3. ASSUME ExtensionsInv, ExtensionsInv', CrashInv, [Next]_vars, ~up, up', NEW id \in Ids
        PROVE  /\ streak'[id] >= CRASHES_BEFORE_OFF => ~Running(ext'[id]) /\ ext'[id].problem = "crash"
               /\ ext'[id].problem = "crash" => ext[id].problem = "crash" \/ ext[id].recorded
    <2>1. PICK restarted \in BOOLEAN : StartUp(restarted)
      BY <1>3 DEF Next, vars, Unpack, Enable, Disable, Reload, Remove, RemoveFails, CallbackFails, Loaded,
                  Enabled, StartFails, Stores, Write, RemoveOther, RestartAll, Quit, Crash
    <2> DEFINE n == Counted(ext[id], restarted)
    <2>2. streak'[id] <= n /\ streak'[id] \in Nat /\ n \in Nat
      BY <1>3, <2>1, StartUpCounts, StartUpRuns
    <2>3. /\ n >= CRASHES_BEFORE_OFF => ext'[id].disabled /\ ext'[id].problem = "crash"
          /\ n < CRASHES_BEFORE_OFF => ext'[id].problem = ext[id].problem
      BY <1>3, <2>1, StartUpRuns
    <2>4. n # 0 => ext[id].recorded
      BY DEF Counted
    <2>5. ext'[id].disabled => ~Running(ext'[id])
      BY <1>3 DEF ExtensionsInv, Settle, Resting
    <2> HIDE DEF n
    <2> QED BY <2>2, <2>3, <2>4, <2>5 DEF CRASHES_BEFORE_OFF
  <1>4. ExtensionsInv /\ ExtensionsInv' /\ CrashInv /\ [Next]_vars =>
          [~up /\ up' => \A id \in Ids :
             /\ streak'[id] >= CRASHES_BEFORE_OFF => ~Running(ext'[id]) /\ ext'[id].problem = "crash"
             /\ ext'[id].problem = "crash" => ext[id].problem = "crash" \/ ext[id].recorded]_vars
    BY <1>3
  <1> QED BY <1>1, <1>2, <1>4, StaysSettled, StaysWhole, PTL DEF Spec, TwoCrashesTurnOff
===============================================================================
