--------------------------- MODULE MessageTrayProofs --------------------------
(***************************************************************************)
(* What the message tray keeps, and what it never does, for any apps and   *)
(* notifications and queues of any length.                                 *)
(*                                                                         *)
(* Every step is a chain of operators on the desk. What's kept holds       *)
(* between the links too (Sound), but for one thing: while a notification  *)
(* is destroyed the tray already calls it removed, and its source still    *)
(* lists it (Past).                                                        *)
(***************************************************************************)
EXTENDS MessageTray, FiltersProofs

(* What is kept, of any desk. *)

Listing(d) ==
    /\ d \in Desk
    /\ \A s \in Sources :
          /\ Len(d.list[s]) <= MaxPerSource
          /\ IsInjective(d.list[s])
          /\ \A n \in Range(d.list[s]) : SourceOf[n] = s

Tidy(d) ==
    /\ d.shown = None <=> d.state = "hidden"
    /\ d.shown \notin Range(d.queue) /\ IsInjective(d.queue)
    /\ d.removed => d.shown # None

\* What the tray holds is still there, and heard of, unless its source was turned off.
Haunted(d, m) ==
    \A p \in InTray(d) \ m :
       /\ p \in Live(d) => SourceOf[p] \in d.heard
       /\ p \in Live(d) \/ (p = d.shown /\ d.removed)

Sound(d, m) == Listing(d) /\ Tidy(d) /\ Haunted(d, m)

Past(d) == d.removed => d.shown \notin Live(d)

LEMMA DeskFacts ==
    ASSUME NEW d, d \in Desk
    PROVE  /\ d.queue \in Seq(Notifications) /\ Range(d.queue) \subseteq Notifications
           /\ d.shown \in Notifications \cup {None}
           /\ d.state \in {"hidden", "showing", "shown", "hiding"}
           /\ d.removed \in BOOLEAN /\ d.blocked \in BOOLEAN /\ d.mode \in BOOLEAN
           /\ d.busy \in BOOLEAN /\ d.fullscreen \in BOOLEAN
           /\ d.heard \subseteq Sources /\ d.seen \subseteq Notifications
           /\ d.list \in [Sources -> Seq(Notifications)]
           /\ d.urgency \in [Notifications -> {LOW, NORMAL, CRITICAL}]
  <1>1. d.queue \in Seq(Notifications)
    BY DEF Desk
  <1>2. Range(d.queue) \subseteq Notifications
    BY <1>1 DEF Range
  <1> QED BY <1>1, <1>2 DEF Desk

\* Where a notification that is there is listed.
LEMMA LiveFacts ==
    ASSUME NEW d, Listing(d)
    PROVE  /\ Live(d) \subseteq Notifications
           /\ \A n \in Notifications : SourceOf[n] \in Sources
           /\ \A n \in Notifications : n \in Live(d) <=> n \in Range(d.list[SourceOf[n]])
           /\ \A s \in Sources : d.list[s] \in Seq(Notifications) /\ Range(d.list[s]) \subseteq Live(d)
  <1>1. \A s \in Sources : d.list[s] \in Seq(Notifications)
    BY DeskFacts DEF Listing
  <1>2. \A s \in Sources : Range(d.list[s]) \subseteq Notifications /\ Range(d.list[s]) \subseteq Live(d)
    BY <1>1 DEF Range, Live
  <1>3. \A n \in Notifications : SourceOf[n] \in Sources
    BY TrayAssumption
  <1>4. ASSUME NEW n \in Live(d) PROVE n \in Notifications /\ n \in Range(d.list[SourceOf[n]])
    <2>1. PICK s \in Sources : n \in Range(d.list[s])
      BY <1>4 DEF Live
    <2> QED BY <1>2, <2>1 DEF Listing
  <1>5. ASSUME NEW n \in Notifications, n \in Range(d.list[SourceOf[n]]) PROVE n \in Live(d)
    BY <1>2, <1>3, <1>5
  <1> QED BY <1>1, <1>2, <1>3, <1>4, <1>5

-----------------------------------------------------------------------------
(* The links of the chains. *)

\* What quiets the tray stays, and nothing comes.
Within(d, x) ==
    /\ x.blocked = d.blocked /\ x.mode = d.mode /\ x.busy = d.busy /\ x.fullscreen = d.fullscreen
    /\ Live(x) \subseteq Live(d)
    /\ \A s \in Sources : Len(x.list[s]) <= Len(d.list[s])
    /\ Range(x.queue) \subseteq Range(d.queue)
    /\ InTray(x) \subseteq InTray(d)

\* The tray itself stays, up to the start of a banner's rest, and so does what the sources list;
\* it may follow more of them.
SameTray(d, x) ==
    /\ x \in Desk
    /\ x.queue = d.queue /\ x.shown = d.shown /\ x.removed = d.removed
    /\ x.state = d.state \/ {x.state, d.state} \subseteq {"showing", "shown"}
    /\ x.list = d.list /\ d.heard \subseteq x.heard

LEMMA SameTrayFacts ==
    ASSUME NEW d, NEW x, NEW m, SameTray(d, x)
    PROVE  /\ Live(x) = Live(d) /\ InTray(x) = InTray(d)
           /\ Listing(d) => Listing(x)
           /\ Sound(d, m) => Sound(x, m)
           /\ Past(d) => Past(x)
  <1>1. Live(x) = Live(d) /\ InTray(x) = InTray(d)
    BY DEF SameTray, Live, InTray
  <1>2. Listing(d) => Listing(x)
    BY DEF SameTray, Listing
  <1>3. Tidy(d) => Tidy(x)
    BY DEF SameTray, Tidy
  <1>4. Haunted(d, m) => Haunted(x, m)
    BY <1>1 DEF SameTray, Haunted
  <1>5. Past(d) => Past(x)
    BY <1>1 DEF SameTray, Past
  <1> QED BY <1>1, <1>2, <1>3, <1>4, <1>5 DEF Sound

\* A source strikes a notification off its list.
StruckOff(d, x, n) ==
    /\ Listing(x) /\ Live(x) = Live(d) \ {n}
    /\ x.queue = d.queue /\ x.shown = d.shown /\ x.state = d.state /\ x.removed = d.removed
    /\ x.seen \subseteq d.seen
    /\ \A p \in Live(x) : SourceOf[p] \in d.heard => SourceOf[p] \in x.heard
    /\ n \in Live(d) => Len(x.list[SourceOf[n]]) < Len(d.list[SourceOf[n]])
    /\ Within(d, x)

LEMMA UnlistedFacts ==
    ASSUME NEW d, Listing(d), NEW n \in Notifications
    PROVE  StruckOff(d, Unlisted(d, n), n)
  <1> DEFINE s == SourceOf[n]
  <1> DEFINE rest == Excluding(d.list[s], {n})
  <1> DEFINE x == Unlisted(d, n)
  <1> DEFINE h == IF rest = <<>> THEN d.heard \ {s} ELSE d.heard
  <1>1. s \in Sources /\ d.list[s] \in Seq(Notifications) /\ d \in Desk
    BY LiveFacts DEF Listing
  <1>2. rest \in Seq(Notifications) /\ Range(rest) = Range(d.list[s]) \ {n} /\ IsInjective(rest)
    BY <1>1, ExcludingFacts DEF Listing
  <1>3. /\ Len(rest) \in Nat /\ Len(d.list[s]) \in Nat /\ Len(rest) <= Len(d.list[s])
        /\ n \in Range(d.list[s]) => Len(rest) < Len(d.list[s])
    BY <1>1, <1>2, ExcludingLength
  <1> DEFINE l == [d.list EXCEPT ![s] = rest]
  <1> DEFINE left == d.seen \ {n}
  <1> DEFINE soon == d.discarding \ {n}
  <1>4. x = [d EXCEPT !.list = l, !.heard = h, !.seen = left, !.discarding = soon]
    BY <1>1 DEF Unlisted, Desk
  <1>5. l \in [Sources -> Seq(Notifications)] /\ \A t \in Sources : l[t] = IF t = s THEN rest ELSE d.list[t]
    BY <1>1, <1>2, DeskFacts
  <1>a. h \subseteq Sources /\ left \subseteq Notifications /\ soon \subseteq Notifications /\ left \subseteq d.seen
    BY <1>1, DeskFacts DEF Desk
  <1>b. rest # <<>> => h = d.heard
    OBVIOUS
  <1>c. \A t \in Sources : t # s => (t \in h <=> t \in d.heard)
    OBVIOUS
  <1> HIDE DEF rest, h, l, left, soon, x
  <1>d. /\ x \in Desk
        /\ x.queue = d.queue /\ x.shown = d.shown /\ x.state = d.state /\ x.removed = d.removed
        /\ x.blocked = d.blocked /\ x.mode = d.mode /\ x.busy = d.busy /\ x.fullscreen = d.fullscreen
        /\ x.seen = left /\ x.heard = h /\ x.list = l
    BY <1>1, <1>4, <1>5, <1>a DEF Desk
  <1>6. \A t \in Sources : x.list[t] = IF t = s THEN rest ELSE d.list[t]
    BY <1>d, <1>5
  <1>7. Listing(x)
    <2>1. ASSUME NEW t \in Sources
          PROVE  /\ Len(x.list[t]) <= MaxPerSource /\ IsInjective(x.list[t])
                 /\ \A p \in Range(x.list[t]) : SourceOf[p] = t
      <3>1. /\ Len(d.list[t]) <= MaxPerSource /\ IsInjective(d.list[t])
            /\ \A p \in Range(d.list[t]) : SourceOf[p] = t
        BY DEF Listing
      <3>2. MaxPerSource \in Nat
        BY TrayAssumption
      <3>3. CASE t = s
        <4>1. x.list[t] = rest
          BY <1>6, <3>3
        <4>2. Len(rest) <= MaxPerSource
          BY <1>3, <3>1, <3>2, <3>3
        <4> QED BY <1>2, <3>1, <3>3, <4>1, <4>2
      <3>4. CASE t # s
        BY <1>6, <3>1, <3>4
      <3> QED BY <3>3, <3>4
    <2> QED BY <1>d, <2>1 DEF Listing
  <1>8. \A p \in Notifications : p \in Live(x) <=> p \in Live(d) \ {n}
    BY <1>1, <1>2, <1>6, <1>7, LiveFacts
  <1>9. Live(x) = Live(d) \ {n}
    BY <1>7, <1>8, LiveFacts
  <1>10. ASSUME NEW p \in Live(x), SourceOf[p] \in d.heard PROVE SourceOf[p] \in x.heard
    <2>1. p \in Notifications /\ p \in Range(x.list[SourceOf[p]]) /\ SourceOf[p] \in Sources
      BY <1>7, <1>10, LiveFacts
    <2>2. SourceOf[p] = s => rest # <<>>
      BY <1>1, <1>6, <2>1 DEF Range
    <2> QED BY <1>b, <1>c, <1>d, <1>10, <2>1, <2>2
  <1>11. \A t \in Sources : Len(x.list[t]) <= Len(d.list[t])
    BY <1>3, <1>6, <1>1, DeskFacts
  <1>12. InTray(x) = InTray(d)
    BY <1>d DEF InTray
  <1>13. n \in Live(d) => Len(x.list[s]) < Len(d.list[s])
    BY <1>1, <1>3, <1>6, LiveFacts
  <1> QED BY <1>a, <1>d, <1>7, <1>9, <1>10, <1>11, <1>12, <1>13 DEF StruckOff, Within, x

\* A banner is down.
Down(d, x, m) ==
    /\ Sound(x, m)
    /\ x.state = "hidden" /\ x.shown = None /\ ~x.removed
    /\ x.queue = d.queue /\ x.seen \subseteq d.seen /\ Within(d, x)
    /\ d.removed => Live(x) = Live(d)

LEMMA CompletedFacts ==
    ASSUME NEW d, NEW m, Sound(d, m), d.shown # None
    PROVE  Down(d, HideCompleted(d), m)
  <1> DEFINE n == d.shown
  <1> DEFINE y == [d EXCEPT !.state = "hidden", !.shown = None,
                            !.pointer = FALSE, !.removed = FALSE, !.held = FALSE]
  <1>1. d \in Desk /\ Listing(d) /\ Tidy(d) /\ Haunted(d, m) /\ n \in Notifications
    BY DeskFacts DEF Sound, Listing
  <1>2. /\ y \in Desk
        /\ y.state = "hidden" /\ y.shown = None /\ y.removed = FALSE
        /\ y.queue = d.queue /\ y.list = d.list /\ y.heard = d.heard /\ y.seen = d.seen
        /\ y.blocked = d.blocked /\ y.mode = d.mode /\ y.busy = d.busy /\ y.fullscreen = d.fullscreen
    BY <1>1 DEF Desk
  <1>3. HideCompleted(d) = y \/ (HideCompleted(d) = Unlisted(y, n) /\ ~d.removed)
    BY DEF HideCompleted
  <1> HIDE DEF y
  <1>4. Live(y) = Live(d) /\ InTray(y) = Range(d.queue) /\ InTray(y) \subseteq InTray(d)
    BY <1>2 DEF Live, InTray
  <1>5. Listing(y)
    BY <1>1, <1>2 DEF Listing
  <1>6. None \notin Range(d.queue)
    BY <1>1, DeskFacts, TrayAssumption
  <1>7. Tidy(y)
    BY <1>1, <1>2, <1>6 DEF Tidy
  <1>8. \A p \in InTray(y) \ m : p # n /\ p \in Live(d) /\ SourceOf[p] \in d.heard
    BY <1>1, <1>4 DEF Tidy, Haunted
  <1>9. Haunted(y, m)
    BY <1>2, <1>4, <1>8 DEF Haunted
  <1>10. Within(d, y)
    <2>1. \A s \in Sources : Len(y.list[s]) <= Len(d.list[s])
      BY <1>1, <1>2, DeskFacts
    <2> QED BY <1>2, <1>4, <2>1 DEF Within
  <1>11. CASE HideCompleted(d) = y
    BY <1>2, <1>4, <1>5, <1>7, <1>9, <1>10, <1>11 DEF Down, Sound
  <1>12. CASE HideCompleted(d) = Unlisted(y, n) /\ ~d.removed
    <2> DEFINE x == Unlisted(y, n)
    <2>1. StruckOff(y, x, n)
      BY <1>1, <1>5, UnlistedFacts
    <2> HIDE DEF x
    <2>2. /\ Listing(x) /\ Live(x) = Live(d) \ {n}
          /\ x.queue = d.queue /\ x.shown = None /\ x.state = "hidden" /\ x.removed = FALSE
          /\ x.seen \subseteq d.seen
      BY <1>2, <1>4, <2>1 DEF StruckOff
    <2>3. Tidy(x)
      BY <1>1, <1>6, <2>2 DEF Tidy
    <2>4. InTray(x) = InTray(y)
      BY <1>2, <2>2 DEF InTray
    <2>5. Haunted(x, m)
      BY <1>2, <1>8, <2>1, <2>2, <2>4 DEF Haunted, StruckOff
    <2>6. Within(d, x)
      <3>1. \A s \in Sources : Len(x.list[s]) <= Len(d.list[s])
        BY <1>2, <2>1 DEF StruckOff, Within
      <3> QED BY <1>2, <1>4, <2>1, <2>2, <2>4, <3>1 DEF StruckOff, Within
    <2> QED BY <1>12, <2>2, <2>3, <2>5, <2>6 DEF Down, Sound, x
  <1> QED BY <1>3, <1>11, <1>12

\* A banner goes down, with an animation or without.
LEMMA HideFacts ==
    ASSUME NEW d, NEW m, NEW animate \in BOOLEAN, Sound(d, m), d.shown # None
    PROVE  LET x == Hide(d, animate)
           IN IF animate
              THEN /\ Sound(x, m) /\ Within(d, x)
                   /\ x.state = "hiding" /\ x.shown = d.shown /\ x.removed = d.removed
                   /\ x.queue = d.queue /\ x.seen = d.seen /\ Live(x) = Live(d)
              ELSE Down(d, x, m)
  <1> DEFINE y == [d EXCEPT !.leftTimer = FALSE]
  <1> DEFINE x == [y EXCEPT !.state = "hiding"]
  <1>1. d \in Desk
    BY DEF Sound, Listing
  <1>2. SameTray(d, y) /\ y.shown # None
    BY <1>1 DEF SameTray, Desk
  <1>3. /\ y.queue = d.queue /\ y.seen = d.seen /\ y.list = d.list /\ y.blocked = d.blocked /\ y.mode = d.mode
        /\ y.busy = d.busy /\ y.fullscreen = d.fullscreen
    BY <1>1 DEF Desk
  <1>4. Sound(y, m) /\ Live(y) = Live(d) /\ InTray(y) = InTray(d)
    BY <1>2, SameTrayFacts
  <1>5. CASE ~animate
    <2>1. Hide(d, animate) = HideCompleted(y)
      BY <1>5 DEF Hide
    <2> HIDE DEF y
    <2>2. Down(y, HideCompleted(y), m)
      BY <1>2, <1>4, CompletedFacts
    <2> DEFINE z == HideCompleted(y)
    <2> HIDE DEF z
    <2>3. Down(d, z, m)
      BY <1>2, <1>3, <1>4, <2>2 DEF SameTray, Down, Within, z
    <2> QED BY <1>5, <2>1, <2>3 DEF z
  <1>6. CASE animate
    <2>1. Hide(d, animate) = x
      BY <1>6 DEF Hide
    <2>2. /\ x \in Desk /\ x.state = "hiding" /\ x.shown = d.shown /\ x.removed = d.removed
          /\ x.queue = d.queue /\ x.seen = d.seen /\ x.list = d.list /\ x.heard = d.heard
          /\ x.blocked = d.blocked /\ x.mode = d.mode /\ x.busy = d.busy /\ x.fullscreen = d.fullscreen
      BY <1>1 DEF Desk
    <2> HIDE DEF x, y
    <2>3. Live(x) = Live(d) /\ InTray(x) = InTray(d)
      BY <2>2 DEF Live, InTray
    <2>4. Listing(x) /\ Tidy(x) /\ Haunted(x, m)
      BY <2>2, <2>3 DEF Sound, Listing, Tidy, Haunted
    <2>5. Within(d, x)
      <3>1. \A s \in Sources : Len(x.list[s]) <= Len(d.list[s])
        BY <1>1, <2>2, DeskFacts
      <3> QED BY <2>2, <2>3, <3>1 DEF Within
    <2> QED BY <1>6, <2>1, <2>2, <2>3, <2>4, <2>5 DEF Sound
  <1> QED BY <1>5, <1>6

\* The first that waits comes up.
LEMMA ShowFacts ==
    ASSUME NEW d, NEW m, Sound(d, m), d.state = "hidden", d.queue # <<>>
    PROVE  LET x == Show(d)
           IN /\ Sound(x, m) /\ Within(d, x)
              /\ x.state = "showing" /\ ~x.removed
              /\ Range(d.queue) = Range(x.queue) \cup {x.shown}
  <1> DEFINE x == Show(d)
  <1> DEFINE n == Head(d.queue)
  <1> DEFINE q == Tail(d.queue)
  <1>1. d \in Desk /\ Listing(d) /\ Tidy(d) /\ Haunted(d, m)
    BY DEF Sound, Listing
  <1>2. /\ n \in Notifications /\ q \in Seq(Notifications)
        /\ Range(d.queue) = Range(q) \cup {n} /\ IsInjective(q) /\ n \notin Range(q)
    BY <1>1, TailFacts, DeskFacts DEF Tidy
  <1>3. d.shown = None /\ d.removed = FALSE
    BY <1>1, DeskFacts DEF Tidy
  <1> HIDE DEF n, q
  <1> DEFINE present == ~d.away
  <1> DEFINE awaited == d.watched \/ d.away
  <1>a. present \in BOOLEAN /\ awaited \in BOOLEAN
    BY <1>1 DEF Desk
  <1> DEFINE y == [d EXCEPT !.shown = n, !.queue = q, !.active = present, !.watched = awaited]
  <1>4. /\ y \in Desk /\ y.shown = n /\ y.queue = q /\ y.removed = d.removed
        /\ y.list = d.list /\ y.heard = d.heard /\ y.seen = d.seen
        /\ y.blocked = d.blocked /\ y.mode = d.mode /\ y.busy = d.busy /\ y.fullscreen = d.fullscreen
    <2> HIDE DEF present, awaited
    <2> QED BY <1>1, <1>2, <1>a DEF Desk
  <1>5. x = [UpdateShowing(y) EXCEPT !.leftTimer = FALSE]
    BY <1>1 DEF Show, Desk, n, q
  <1> HIDE DEF x, y
  <1>6. /\ x \in Desk /\ x.shown = n /\ x.queue = q /\ x.removed = FALSE /\ x.state = "showing"
        /\ x.list = d.list /\ x.heard = d.heard
        /\ x.blocked = d.blocked /\ x.mode = d.mode /\ x.busy = d.busy /\ x.fullscreen = d.fullscreen
    BY <1>2, <1>3, <1>4, <1>5 DEF UpdateShowing, Desk
  <1>7. n # None
    BY <1>2, TrayAssumption
  <1>8. Live(x) = Live(d) /\ InTray(x) = InTray(d)
    BY <1>2, <1>3, <1>6, <1>7, TrayAssumption, DeskFacts, <1>1 DEF Live, InTray
  <1>9. Listing(x) /\ Tidy(x)
    BY <1>1, <1>2, <1>6, <1>7 DEF Listing, Tidy
  <1>10. Haunted(x, m)
    BY <1>1, <1>3, <1>6, <1>8 DEF Haunted
  <1>11. \A s \in Sources : Len(x.list[s]) <= Len(d.list[s])
    BY <1>1, <1>6, DeskFacts
  <1> QED BY <1>2, <1>6, <1>8, <1>9, <1>10, <1>11 DEF Sound, Within, x

\* What leaves the queue is shown, was seen, or is gone.
Taken(d, x) ==
    \A p \in Range(d.queue) \ Range(x.queue) : p = x.shown \/ p \in d.seen \/ p \notin Live(x)

\* updateState leaves nothing behind that could show, but when it takes down what was removed.
Updated(d, x, m) ==
    /\ Sound(x, m) /\ Within(d, x) /\ Taken(d, x)
    /\ Past(d) => Past(x)
    /\ CouldShow(x) => d.state \in {"showing", "shown"} /\ d.removed
    /\ d.removed => Live(x) = Live(d)
    /\ d.state \in {"showing", "shown"} =>
          /\ x.shown \in {None, d.shown} /\ x.seen \subseteq d.seen
          /\ x.state \in {d.state, "hiding", "hidden"}
          /\ d.removed => x.state = "hidden" \/ (x.state = d.state /\ x.removed)

\* What was seen needn't wait.
LEMMA SiftedFacts ==
    ASSUME NEW d, NEW m, Sound(d, m)
    PROVE  LET x == [d EXCEPT !.queue = Excluding(@, d.seen)]
           IN /\ Sound(x, m) /\ Within(d, x) /\ Live(x) = Live(d)
              /\ Range(x.queue) = Range(d.queue) \ d.seen
              /\ x.shown = d.shown /\ x.state = d.state /\ x.removed = d.removed /\ x.seen = d.seen
              /\ x.blocked = d.blocked /\ x.mode = d.mode /\ x.busy = d.busy /\ x.fullscreen = d.fullscreen
  <1> DEFINE q == Excluding(d.queue, d.seen)
  <1> DEFINE x == [d EXCEPT !.queue = q]
  <1>1. d \in Desk /\ Listing(d) /\ Tidy(d) /\ Haunted(d, m)
    BY DEF Sound, Listing
  <1>2. q \in Seq(Notifications) /\ Range(q) = Range(d.queue) \ d.seen /\ IsInjective(q)
    BY <1>1, DeskFacts, ExcludingFacts DEF Tidy
  <1>3. x = [d EXCEPT !.queue = Excluding(@, d.seen)]
    BY <1>1 DEF Desk
  <1> HIDE DEF q
  <1>4. /\ x \in Desk /\ x.queue = q /\ x.shown = d.shown /\ x.state = d.state /\ x.removed = d.removed
        /\ x.list = d.list /\ x.heard = d.heard /\ x.seen = d.seen
        /\ x.blocked = d.blocked /\ x.mode = d.mode /\ x.busy = d.busy /\ x.fullscreen = d.fullscreen
    BY <1>1, <1>2 DEF Desk
  <1> HIDE DEF x
  <1>5. Live(x) = Live(d) /\ InTray(x) \subseteq InTray(d)
    BY <1>2, <1>4 DEF Live, InTray
  <1>6. Listing(x) /\ Tidy(x)
    BY <1>1, <1>2, <1>4 DEF Listing, Tidy
  <1>7. Haunted(x, m)
    BY <1>1, <1>4, <1>5 DEF Haunted
  <1>8. \A s \in Sources : Len(x.list[s]) <= Len(d.list[s])
    BY <1>1, <1>4, DeskFacts
  <1> QED BY <1>2, <1>3, <1>4, <1>5, <1>6, <1>7, <1>8 DEF Sound, Within

LEMMA UpdateFacts ==
    ASSUME NEW d, NEW m, NEW escaped \in BOOLEAN, Sound(d, m)
    PROVE  Updated(d, Update(d, escaped), m)
  <1> DEFINE y == [d EXCEPT !.queue = Excluding(@, d.seen)]
  <1> DEFINE x == Update(d, escaped)
  <1> DEFINE limited == y.busy \/ y.fullscreen
  <1> DEFINE first == y.mode /\ y.queue # <<>> /\ (limited => Urgent(y, Head(y.queue)))
  <1> DEFINE down == y.removed \/ ~y.mode \/ Expired(y) \/ escaped
  <1> DEFINE animate == y.mode /\ ~y.removed
  <1>1. d \in Desk /\ Listing(d) /\ Tidy(d)
    BY DEF Sound, Listing
  <1>2. /\ Sound(y, m) /\ Within(d, y) /\ Live(y) = Live(d)
        /\ Range(y.queue) = Range(d.queue) \ d.seen
        /\ y.shown = d.shown /\ y.state = d.state /\ y.removed = d.removed /\ y.seen = d.seen
        /\ y.blocked = d.blocked /\ y.mode = d.mode /\ y.busy = d.busy /\ y.fullscreen = d.fullscreen
    BY SiftedFacts
  <1>3. x = IF d.blocked THEN d
            ELSE IF y.state = "hidden" THEN (IF first THEN Show(y) ELSE y)
            ELSE IF y.state \in {"showing", "shown"} THEN (IF down THEN Hide(y, animate) ELSE y)
            ELSE y
    BY DEF Update
  <1>a. animate \in BOOLEAN
    OBVIOUS
  <1>b. first => y.queue # <<>>
    OBVIOUS
  <1>c. y.state = "hidden" /\ ~first => ~CouldShow(y)
    BY DEF CouldShow
  <1>d. animate <=> y.mode /\ ~y.removed
    OBVIOUS
  <1>e. y \in Desk /\ Tidy(y)
    BY <1>2 DEF Sound, Listing
  <1> HIDE DEF y, x, first, down, animate
  <1>4. CASE x = d /\ d.blocked
    <2>1. Within(d, d)
      BY <1>1, DeskFacts DEF Within
    <2> QED BY <1>4, <2>1 DEF Updated, Taken, CouldShow, x
  <1>5. CASE x = y /\ ~(y.state = "hidden" /\ first)
    BY <1>2, <1>5, <1>c DEF Updated, Taken, CouldShow, Past, x
  <1>6. CASE x = Show(y) /\ y.state = "hidden" /\ first
    <2>1. /\ Sound(x, m) /\ Within(y, x) /\ x.state = "showing" /\ ~x.removed
          /\ Range(y.queue) = Range(x.queue) \cup {x.shown}
      BY <1>2, <1>6, <1>b, ShowFacts
    <2>2. Within(d, x)
      BY <1>2, <2>1 DEF Within
    <2>3. Taken(d, x)
      BY <1>2, <2>1 DEF Taken
    <2>4. ~y.removed
      BY <1>6, <1>e DEF Tidy
    <2> QED BY <1>2, <1>6, <2>1, <2>2, <2>3, <2>4 DEF Updated, CouldShow, Past, x
  <1>7. CASE x = Hide(y, animate) /\ y.state \in {"showing", "shown"}
    <2>1. y.shown # None
      BY <1>7, <1>e DEF Tidy
    <2>2. CASE animate
      <3>1. /\ Sound(x, m) /\ Within(y, x)
            /\ x.state = "hiding" /\ x.shown = y.shown /\ x.removed = y.removed
            /\ x.queue = y.queue /\ x.seen = y.seen /\ Live(x) = Live(y)
        BY <1>2, <1>7, <1>a, <2>1, <2>2, HideFacts
      <3>2. Within(d, x)
        BY <1>2, <3>1 DEF Within
      <3>3. Taken(d, x)
        BY <1>2, <3>1 DEF Taken
      <3>4. Past(d) => Past(x)
        BY <1>2, <3>1 DEF Past
      <3> QED BY <1>2, <1>d, <2>2, <3>1, <3>2, <3>3, <3>4 DEF Updated, CouldShow, x
    <2>3. CASE ~animate
      <3>1. Down(y, x, m)
        BY <1>2, <1>7, <1>a, <2>1, <2>3, HideFacts
      <3>2. Within(d, x)
        BY <1>2, <3>1 DEF Within, Down
      <3>3. Taken(d, x)
        BY <1>2, <3>1 DEF Taken, Down
      <3>4. CouldShow(x) => y.removed
        BY <1>d, <2>3, <3>1 DEF CouldShow, Down, Within
      <3> QED BY <1>2, <1>7, <3>1, <3>2, <3>3, <3>4 DEF Updated, Past, Down, x
    <2> QED BY <2>2, <2>3
  <1> QED BY <1>2, <1>3, <1>4, <1>5, <1>6, <1>7

-----------------------------------------------------------------------------
(* A notification goes. *)

\* Something that waits with nothing in its way did before, or what was shown is gone.
Restful(d, x) ==
    CouldShow(x) => CouldShow(d) \/ (d.state \in {"showing", "shown"} /\ d.shown \notin Live(x))

\* What a destroyed notification takes with it.
Gone(d, x) ==
    /\ Within(d, x)
    /\ x.shown \in {None, d.shown} /\ x.seen \subseteq d.seen
    /\ x.state = d.state \/ (x.state = "hidden" /\ d.state \in {"showing", "shown"})
    /\ \A p \in Range(d.queue) \ Range(x.queue) : p \in d.seen \/ p \notin Live(x)
    /\ Restful(d, x)

\* The tray was told that one is removed; its source lists it yet.
Told(d, x, n, m) ==
    /\ Sound(x, m) /\ Within(d, x)
    /\ x.shown \in {None, d.shown} /\ x.seen \subseteq d.seen
    /\ x.state = d.state \/ (x.state = "hidden" /\ d.state \in {"showing", "shown"})
    /\ \A p \in Range(d.queue) \ Range(x.queue) : p = n \/ p \in d.seen \/ p \notin Live(x)
    /\ n \in InTray(x) => x.shown = n /\ x.removed
    /\ x.removed => x.shown = n \/ x.shown \notin Live(x)
    /\ CouldShow(x) => CouldShow(d) \/ (d.state \in {"showing", "shown"} /\ d.shown = n)
    /\ Live(x) = Live(d)

LEMMA RemovedFacts ==
    ASSUME NEW d, NEW m, NEW n \in Notifications, Sound(d, m), Past(d)
    PROVE  Told(d, Removed(d, n), n, m)
  <1>1. d \in Desk /\ Listing(d) /\ Tidy(d) /\ Haunted(d, m)
    BY DEF Sound, Listing
  <1>2. n # None
    BY TrayAssumption
  <1>3. \A s \in Sources : Len(d.list[s]) <= Len(d.list[s])
    BY <1>1, DeskFacts
  <1>4. CASE d.shown = n
    <2> DEFINE y == [d EXCEPT !.removed = TRUE]
    <2> DEFINE z == [y EXCEPT !.pointer = FALSE, !.timer = FALSE]
    <2>1. /\ y \in Desk /\ y.removed = TRUE /\ y.shown = d.shown /\ y.state = d.state /\ y.queue = d.queue
          /\ y.list = d.list /\ y.heard = d.heard /\ y.seen = d.seen
          /\ y.blocked = d.blocked /\ y.mode = d.mode /\ y.busy = d.busy /\ y.fullscreen = d.fullscreen
      BY <1>1 DEF Desk
    <2>2. /\ SameTray(y, z) /\ z.seen = d.seen
          /\ z.removed = TRUE /\ z.shown = d.shown /\ z.state = d.state /\ z.queue = d.queue /\ z.list = d.list
          /\ z.blocked = d.blocked /\ z.mode = d.mode /\ z.busy = d.busy /\ z.fullscreen = d.fullscreen
      BY <1>1 DEF Desk, SameTray
    <2>3. Removed(d, n) = IF d.state \in {"showing", "shown"} THEN Update(z, FALSE) ELSE y
      BY <1>4 DEF Removed
    <2> HIDE DEF y, z
    <2>4. Live(y) = Live(d) /\ InTray(y) = InTray(d)
      BY <2>1 DEF Live, InTray
    <2>5. Listing(y) /\ Tidy(y)
      BY <1>1, <1>2, <1>4, <2>1 DEF Listing, Tidy
    <2>6. Haunted(y, m)
      BY <1>1, <2>1, <2>4 DEF Haunted
    <2>7. Sound(y, m)
      BY <2>5, <2>6 DEF Sound
    <2>8. n \notin Range(d.queue)
      BY <1>1, <1>4 DEF Tidy
    <2>9. CASE d.state \in {"showing", "shown"}
      <3> DEFINE x == Update(z, FALSE)
      <3>1. Sound(z, m) /\ Live(z) = Live(d) /\ InTray(z) = InTray(d)
        BY <2>2, <2>4, <2>7, SameTrayFacts
      <3>2. Updated(z, x, m)
        BY <3>1, UpdateFacts
      <3> HIDE DEF x
      <3>3. Within(d, x)
        BY <2>2, <3>1, <3>2 DEF Updated, Within
      <3>4. n \notin Range(x.queue)
        BY <2>8, <3>3 DEF Within
      <3>5. Tidy(x)
        BY <3>2 DEF Updated, Sound
      <3>6. x.shown \in {None, n} /\ (x.state = "hidden" \/ (x.state = d.state /\ x.removed))
        BY <1>4, <2>2, <2>9, <3>2 DEF Updated
      <3>7. n \in InTray(x) => x.shown = n /\ x.removed
        BY <1>2, <3>4, <3>5, <3>6 DEF InTray, Tidy
      <3>8. x.removed => x.shown = n
        BY <3>5, <3>6 DEF Tidy
      <3>9. \A p \in Range(d.queue) \ Range(x.queue) : p = n \/ p \in d.seen \/ p \notin Live(x)
        <4>1. None \notin Range(d.queue)
          BY <1>1, DeskFacts, TrayAssumption
        <4> QED BY <2>2, <3>2, <3>6, <4>1 DEF Updated, Taken
      <3> QED BY <1>4, <2>2, <2>3, <2>9, <3>1, <3>2, <3>3, <3>6, <3>7, <3>8, <3>9 DEF Told, Updated, x
    <2>10. CASE d.state \notin {"showing", "shown"}
      <3>1. Within(d, y)
        BY <1>3, <2>1, <2>4 DEF Within
      <3>2. CouldShow(y) => CouldShow(d)
        BY <2>1 DEF CouldShow
      <3> QED BY <1>4, <2>1, <2>3, <2>4, <2>7, <2>10, <3>1, <3>2 DEF Told
    <2> QED BY <2>9, <2>10
  <1>5. CASE d.shown # n
    <2> DEFINE q == Excluding(d.queue, {n})
    <2> DEFINE x == Removed(d, n)
    <2>1. x = [d EXCEPT !.queue = q]
      BY <1>1, <1>5 DEF Removed, Desk
    <2>2. q \in Seq(Notifications) /\ Range(q) = Range(d.queue) \ {n} /\ IsInjective(q)
      BY <1>1, DeskFacts, ExcludingFacts DEF Tidy
    <2>3. CouldShow(d) \/ d.queue # <<>> \/ q = <<>>
      BY ExcludingEmpty
    <2> HIDE DEF q, x
    <2>4. /\ x \in Desk /\ x.queue = q /\ x.shown = d.shown /\ x.state = d.state /\ x.removed = d.removed
          /\ x.list = d.list /\ x.heard = d.heard /\ x.seen = d.seen
          /\ x.blocked = d.blocked /\ x.mode = d.mode /\ x.busy = d.busy /\ x.fullscreen = d.fullscreen
      BY <1>1, <2>1, <2>2 DEF Desk
    <2>5. Live(x) = Live(d) /\ InTray(x) \subseteq InTray(d) /\ n \notin InTray(x)
      BY <1>5, <2>2, <2>4 DEF Live, InTray
    <2>6. Listing(x) /\ Tidy(x)
      BY <1>1, <2>2, <2>4 DEF Listing, Tidy
    <2>7. Haunted(x, m)
      BY <1>1, <2>4, <2>5 DEF Haunted
    <2>8. Within(d, x)
      BY <1>3, <2>2, <2>4, <2>5 DEF Within
    <2>9. CouldShow(x) => CouldShow(d)
      BY <2>3, <2>4 DEF CouldShow
    <2>10. x.removed => x.shown \notin Live(x)
      BY <2>4, <2>5 DEF Past
    <2> QED BY <2>2, <2>4, <2>5, <2>6, <2>7, <2>8, <2>9, <2>10 DEF Told, Sound, x
  <1> QED BY <1>4, <1>5

LEMMA GoneStays ==
    ASSUME NEW d, d \in Desk PROVE Gone(d, d)
  <1>1. \A s \in Sources : Len(d.list[s]) <= Len(d.list[s])
    BY DeskFacts
  <1> QED BY <1>1 DEF Gone, Within, Restful

\* One after another.
LEMMA GoneOn ==
    ASSUME NEW d, NEW y, NEW x, d \in Desk, x \in Desk, Listing(y), Tidy(y), Gone(d, y), Gone(y, x)
    PROVE  Gone(d, x)
  <1>1. \A s \in Sources : /\ Len(d.list[s]) \in Nat /\ Len(y.list[s]) \in Nat /\ Len(x.list[s]) \in Nat
                           /\ Len(y.list[s]) <= Len(d.list[s]) /\ Len(x.list[s]) <= Len(y.list[s])
    BY DeskFacts DEF Listing, Gone, Within
  <1>2. \A s \in Sources : Len(x.list[s]) <= Len(d.list[s])
    BY <1>1
  <1>3. Within(d, x)
    BY <1>2 DEF Gone, Within
  <1>4. \A p \in Range(d.queue) \ Range(x.queue) : p \in d.seen \/ p \notin Live(x)
    BY DEF Gone, Within
  <1>5. y.state \in {"showing", "shown"} => d.state = y.state /\ y.shown = d.shown
    BY DEF Gone, Tidy
  <1>6. Restful(d, x)
    BY <1>5 DEF Gone, Within, Restful
  <1> QED BY <1>3, <1>4, <1>6 DEF Gone

LEMMA DestroyFacts ==
    ASSUME NEW d, NEW m, NEW n \in Notifications, Sound(d, m), Past(d)
    PROVE  LET x == Destroy(d, n)
           IN /\ Sound(x, m) /\ Past(x) /\ Gone(d, x)
              /\ n \notin Live(x)
              /\ n \in Live(d) => Len(x.list[SourceOf[n]]) < Len(d.list[SourceOf[n]])
  <1> DEFINE x == Destroy(d, n)
  <1> DEFINE y == IF SourceOf[n] \in d.heard THEN Removed(d, n) ELSE d
  <1>1. d \in Desk /\ Listing(d) /\ Tidy(d) /\ Haunted(d, m)
    BY DEF Sound, Listing
  <1>2. CASE n \notin Live(d)
    BY <1>1, <1>2, GoneStays DEF Destroy
  <1>3. CASE n \in Live(d)
    <2>1. x = Unlisted(y, n)
      BY <1>3 DEF Destroy
    <2>2. /\ Sound(y, m) /\ Within(d, y) /\ Live(y) = Live(d)
          /\ y.shown \in {None, d.shown} /\ y.seen \subseteq d.seen
          /\ y.state = d.state \/ (y.state = "hidden" /\ d.state \in {"showing", "shown"})
          /\ \A p \in Range(d.queue) \ Range(y.queue) : p = n \/ p \in d.seen \/ p \notin Live(y)
          /\ n \in InTray(y) \ m => y.shown = n /\ y.removed
          /\ y.removed => y.shown = n \/ y.shown \notin Live(y)
          /\ CouldShow(y) => CouldShow(d) \/ (d.state \in {"showing", "shown"} /\ d.shown = n)
      <3>1. CASE SourceOf[n] \in d.heard
        <4>1. y = Removed(d, n)
          BY <3>1
        <4> HIDE DEF y
        <4> QED BY <4>1, RemovedFacts DEF Told
      <3>2. CASE SourceOf[n] \notin d.heard
        <4>1. y = d
          BY <3>2
        <4>2. Within(d, d)
          BY <1>1, GoneStays DEF Gone
        <4>3. n \notin InTray(d) \ m
          BY <1>1, <1>3, <3>2 DEF Haunted
        <4> QED BY <4>1, <4>2, <4>3 DEF Past
      <3> QED BY <3>1, <3>2
    <2> HIDE DEF y
    <2>3. StruckOff(y, Unlisted(y, n), n)
      BY <2>2, UnlistedFacts DEF Sound
    <2>4. /\ Listing(x) /\ Live(x) = Live(y) \ {n}
          /\ x.queue = y.queue /\ x.shown = y.shown /\ x.state = y.state /\ x.removed = y.removed
          /\ x.seen \subseteq y.seen /\ Within(y, x)
          /\ \A p \in Live(x) : SourceOf[p] \in y.heard => SourceOf[p] \in x.heard
      BY <2>1, <2>3 DEF StruckOff
    <2> HIDE DEF x
    <2>5. InTray(x) = InTray(y)
      BY <2>4 DEF InTray
    <2>6. Tidy(x)
      BY <2>2, <2>4 DEF Tidy, Sound
    <2>7. Haunted(x, m)
      <3> SUFFICES ASSUME NEW p \in InTray(x) \ m
                   PROVE  /\ p \in Live(x) => SourceOf[p] \in x.heard
                          /\ p \in Live(x) \/ (p = x.shown /\ x.removed)
        BY DEF Haunted
      <3>1. /\ p \in Live(y) => SourceOf[p] \in y.heard
            /\ p \in Live(y) \/ (p = y.shown /\ y.removed)
        BY <2>2, <2>5 DEF Sound, Haunted
      <3> QED BY <2>2, <2>4, <2>5, <3>1
    <2>8. Past(x)
      BY <2>2, <2>4 DEF Past
    <2>9. \A s \in Sources : /\ Len(d.list[s]) \in Nat /\ Len(y.list[s]) \in Nat /\ Len(x.list[s]) \in Nat
                             /\ Len(y.list[s]) <= Len(d.list[s]) /\ Len(x.list[s]) <= Len(y.list[s])
      BY <1>1, <2>2, <2>4, DeskFacts DEF Listing, Within, Sound
    <2>10. \A s \in Sources : Len(x.list[s]) <= Len(d.list[s])
      BY <2>9
    <2>11. Within(d, x)
      BY <2>2, <2>4, <2>10 DEF Within
    <2>12. Restful(d, x)
      <3>1. CouldShow(x) => CouldShow(y)
        BY <2>4 DEF CouldShow, Within
      <3> QED BY <2>2, <2>4, <3>1 DEF Restful
    <2>13. Gone(d, x)
      <3>1. \A p \in Range(d.queue) \ Range(x.queue) : p \in d.seen \/ p \notin Live(x)
        BY <2>2, <2>4
      <3> QED BY <2>2, <2>4, <2>11, <2>12, <3>1 DEF Gone
    <2>14. Len(x.list[SourceOf[n]]) < Len(d.list[SourceOf[n]])
      <3>1. SourceOf[n] \in Sources
        BY <1>1, LiveFacts
      <3>2. Len(x.list[SourceOf[n]]) < Len(y.list[SourceOf[n]])
        BY <1>3, <2>1, <2>2, <2>3 DEF StruckOff, x
      <3> QED BY <2>9, <3>1, <3>2
    <2> QED BY <2>4, <2>6, <2>7, <2>8, <2>13, <2>14 DEF Sound, x
  <1> QED BY <1>2, <1>3

\* A step of DestroyAll, given the desks before.
AfterAt(f, d, q, i) == IF i = 0 THEN d ELSE Destroy(f[i - 1], q[i])

\* The recursion in DestroyAll defines a function.
LEMMA AfterExists ==
    ASSUME NEW d, NEW q, Len(q) \in Nat
    PROVE  \E f : f = [i \in 0..Len(q) |-> AfterAt(f, d, q, i)]
  <1> DEFINE T == {n \in Nat : \E f : f = [i \in 0..n |-> AfterAt(f, d, q, i)]}
  <1>1. 0 \in T
    <2> DEFINE f == [i \in 0..0 |-> d]
    <2>1. f = [i \in 0..0 |-> AfterAt(f, d, q, i)]
      BY DEF AfterAt
    <2> QED BY <2>1
  <1>2. ASSUME NEW n \in Nat, n \in T PROVE n + 1 \in T
    <2>1. PICK f : f = [i \in 0..n |-> AfterAt(f, d, q, i)]
      BY <1>2
    <2> DEFINE g == [i \in 0..(n + 1) |-> IF i = n + 1 THEN AfterAt(f, d, q, i) ELSE f[i]]
    <2>2. ASSUME NEW i \in 0..(n + 1) PROVE g[i] = AfterAt(g, d, q, i)
      <3>1. i # 0 => i - 1 \in 0..n /\ i - 1 # n + 1 /\ i - 1 \in 0..(n + 1)
        OBVIOUS
      <3>2. i # 0 => g[i - 1] = f[i - 1]
        BY <3>1
      <3>3. AfterAt(g, d, q, i) = AfterAt(f, d, q, i)
        BY <3>2 DEF AfterAt
      <3>4. i # n + 1 => i \in 0..n
        OBVIOUS
      <3>5. i # n + 1 => f[i] = AfterAt(f, d, q, i)
        BY <3>4, <2>1
      <3>6. g[i] = IF i = n + 1 THEN AfterAt(f, d, q, i) ELSE f[i]
        OBVIOUS
      <3> QED BY <3>3, <3>5, <3>6
    <2> HIDE DEF g
    <2>3. g = [i \in 0..(n + 1) |-> AfterAt(g, d, q, i)]
      <3>1. g = [i \in 0..(n + 1) |-> g[i]]
        BY DEF g
      <3> QED BY <3>1, <2>2
    <2>4. n + 1 \in Nat
      OBVIOUS
    <2> QED BY <2>3, <2>4
  <1> HIDE DEF T
  <1>3. Len(q) \in T
    BY <1>1, <1>2, SetInduction
  <1> QED BY <1>3 DEF T

LEMMA DestroyAllFacts ==
    ASSUME NEW d, NEW m, NEW q \in Seq(Notifications), Sound(d, m), Past(d)
    PROVE  LET x == DestroyAll(d, q) IN Sound(x, m) /\ Past(x) /\ Gone(d, x)
  <1> DEFINE after == CHOOSE f : f = [i \in 0..Len(q) |-> AfterAt(f, d, q, i)]
  <1>1. Len(q) \in Nat /\ \A i \in 1..Len(q) : q[i] \in Notifications
    OBVIOUS
  <1>2. after = [i \in 0..Len(q) |-> AfterAt(after, d, q, i)]
    <2>1. \E f : f = [i \in 0..Len(q) |-> AfterAt(f, d, q, i)]
      BY <1>1, AfterExists
    <2> QED BY <2>1
  <1>3. DestroyAll(d, q) = after[Len(q)]
    BY DEF DestroyAll, AfterAt
  <1> HIDE DEF after
  <1>4. \A i \in 0..Len(q) : after[i] = AfterAt(after, d, q, i)
    BY <1>2
  <1> DEFINE Good(x) == Sound(x, m) /\ Past(x) /\ Gone(d, x)
  <1> DEFINE T == {n \in Nat : n <= Len(q) => Good(after[n])}
  <1>5. d \in Desk /\ Gone(d, d)
    BY GoneStays DEF Sound, Listing
  <1>6. 0 \in T
    <2>1. after[0] = d
      BY <1>1, <1>4 DEF AfterAt
    <2> QED BY <1>5, <2>1
  <1>7. ASSUME NEW n \in Nat, n \in T PROVE n + 1 \in T
    <2> SUFFICES ASSUME n + 1 <= Len(q) PROVE Good(after[n + 1])
      OBVIOUS
    <2> DEFINE y == after[n]
    <2> DEFINE p == q[n + 1]
    <2>1. n + 1 \in 0..Len(q) /\ n + 1 # 0 /\ (n + 1) - 1 = n /\ n <= Len(q) /\ n + 1 \in 1..Len(q)
      BY <1>1
    <2>2. after[n + 1] = Destroy(y, p) /\ p \in Notifications
      BY <1>1, <1>4, <2>1 DEF AfterAt
    <2>3. Good(y)
      BY <1>7, <2>1
    <2> HIDE DEF y, p
    <2> DEFINE x == Destroy(y, p)
    <2>4. Sound(x, m) /\ Past(x) /\ Gone(y, x)
      BY <2>2, <2>3, DestroyFacts
    <2> HIDE DEF x
    <2>5. Gone(d, x)
      BY <1>5, <2>3, <2>4, GoneOn DEF Sound, Listing
    <2> QED BY <2>2, <2>4, <2>5 DEF x
  <1> HIDE DEF T
  <1>8. Len(q) \in T
    BY <1>1, <1>6, <1>7, SetInduction
  <1> QED BY <1>1, <1>3, <1>8 DEF T

-----------------------------------------------------------------------------
(* A notification comes. *)

\* Sorting by urgency neither loses nor doubles what waits.
LEMMA SortedFacts ==
    ASSUME NEW d, d \in Desk, NEW q \in Seq(Notifications)
    PROVE  /\ Sorted(d, q) \in Seq(Notifications)
           /\ Range(Sorted(d, q)) = Range(q)
           /\ IsInjective(q) => IsInjective(Sorted(d, q))
  <1> DEFINE At(u) == {i \in DOMAIN q : d.urgency[q[i]] = u}
  <1> DEFINE Those(u) == {p \in Range(q) : d.urgency[p] = u}
  <1>1. ASSUME NEW u
        PROVE  /\ Of(d, q, u) \in Seq(Notifications)
               /\ Range(Of(d, q, u)) = Those(u)
               /\ IsInjective(q) => IsInjective(Of(d, q, u))
    <2> DEFINE places == At(u)
    <2>1. {q[i] : i \in DOMAIN q \cap places} = Those(u)
      BY DEF Range
    <2>2. Of(d, q, u) = Picked(q, places)
      BY DEF Of
    <2> HIDE DEF places
    <2> QED BY <2>1, <2>2, PickedFacts
  <1> DEFINE a == Of(d, q, CRITICAL)
  <1> DEFINE b == Of(d, q, NORMAL)
  <1> DEFINE c == Of(d, q, LOW)
  <1>2. /\ a \in Seq(Notifications) /\ b \in Seq(Notifications) /\ c \in Seq(Notifications)
        /\ Range(a) = Those(CRITICAL) /\ Range(b) = Those(NORMAL) /\ Range(c) = Those(LOW)
        /\ IsInjective(q) => IsInjective(a) /\ IsInjective(b) /\ IsInjective(c)
    BY <1>1
  <1>3. Sorted(d, q) = a \o b \o c
    BY DEF Sorted
  <1>4. /\ Range(q) = Those(CRITICAL) \cup Those(NORMAL) \cup Those(LOW)
        /\ Those(CRITICAL) \cap Those(NORMAL) = {} /\ (Those(CRITICAL) \cup Those(NORMAL)) \cap Those(LOW) = {}
    <2>1. \A p \in Range(q) : d.urgency[p] \in {LOW, NORMAL, CRITICAL}
      BY DeskFacts DEF Range
    <2>2. LOW # NORMAL /\ LOW # CRITICAL /\ NORMAL # CRITICAL
      BY DEF LOW, NORMAL, CRITICAL
    <2> QED BY <2>1, <2>2
  <1> HIDE DEF a, b, c, Those
  <1> DEFINE e == a \o b
  <1>5. /\ e \in Seq(Notifications) /\ Range(e) = Range(a) \cup Range(b)
        /\ IsInjective(a) /\ IsInjective(b) /\ Range(a) \cap Range(b) = {} => IsInjective(e)
    BY <1>2, ConcatFacts
  <1> HIDE DEF e
  <1>6. /\ e \o c \in Seq(Notifications) /\ Range(e \o c) = Range(e) \cup Range(c)
        /\ IsInjective(e) /\ IsInjective(c) /\ Range(e) \cap Range(c) = {} => IsInjective(e \o c)
    BY <1>2, <1>5, ConcatFacts
  <1>7. Sorted(d, q) = e \o c
    BY <1>3 DEF e
  <1> QED BY <1>2, <1>4, <1>5, <1>6, <1>7

\* A notification joins those that wait, if there is room.
Joined(d, x, n) ==
    /\ x.shown = d.shown /\ x.state = d.state /\ x.removed = d.removed /\ x.seen = d.seen
    /\ Live(x) = Live(d)
    /\ Range(d.queue) \subseteq Range(x.queue) /\ Range(x.queue) \subseteq Range(d.queue) \cup {n}

LEMMA EnqueueFacts ==
    ASSUME NEW d, NEW m, NEW n \in Live(d), Sound(d, m), n \notin InTray(d), SourceOf[n] \in d.heard
    PROVE  Sound(Enqueue(d, n), m) /\ Joined(d, Enqueue(d, n), n)
  <1> DEFINE r == Append(d.queue, n)
  <1> DEFINE q == Sorted(d, r)
  <1> DEFINE x == [d EXCEPT !.queue = q]
  <1>1. d \in Desk /\ Listing(d) /\ Tidy(d) /\ Haunted(d, m)
    BY DEF Sound, Listing
  <1>2. n \in Notifications /\ n # None
    BY <1>1, LiveFacts, TrayAssumption
  <1>3. n \notin Range(d.queue) /\ n # d.shown
    BY <1>2 DEF InTray
  <1>4. r \in Seq(Notifications) /\ Range(r) = Range(d.queue) \cup {n} /\ IsInjective(r)
    BY <1>1, <1>2, <1>3, AppendFacts, DeskFacts DEF Tidy
  <1>5. Enqueue(d, n) = d \/ Enqueue(d, n) = x
    BY <1>1 DEF Enqueue, Desk
  <1> HIDE DEF r
  <1>6. q \in Seq(Notifications) /\ Range(q) = Range(d.queue) \cup {n} /\ IsInjective(q)
    BY <1>1, <1>4, SortedFacts
  <1> HIDE DEF q
  <1>7. /\ x \in Desk /\ x.queue = q /\ x.shown = d.shown /\ x.state = d.state /\ x.removed = d.removed
        /\ x.list = d.list /\ x.heard = d.heard /\ x.seen = d.seen
    BY <1>1, <1>6 DEF Desk
  <1> HIDE DEF x
  <1>8. Live(x) = Live(d) /\ InTray(x) = InTray(d) \cup {n}
    BY <1>6, <1>7 DEF Live, InTray
  <1>9. Listing(x) /\ Tidy(x)
    BY <1>1, <1>3, <1>6, <1>7 DEF Listing, Tidy
  <1>10. Haunted(x, m)
    BY <1>1, <1>7, <1>8 DEF Haunted
  <1>11. Joined(d, d, n)
    BY DEF Joined
  <1>12. Joined(d, x, n)
    BY <1>6, <1>7, <1>8 DEF Joined
  <1> QED BY <1>5, <1>9, <1>10, <1>11, <1>12 DEF Sound

\* Of a step: what leaves the queue, and what comes to wait with nothing in its way.
Orderly(d, x) == Taken(d, x) /\ Restful(d, x)

\* A step that keeps what's kept.
Keeping(d, x, m) == Sound(x, m) /\ Past(x) /\ Orderly(d, x)

\* The tray stays, with all that quiets it.
Untouched(d, x) ==
    /\ SameTray(d, x)
    /\ x.blocked = d.blocked /\ x.mode = d.mode /\ x.busy = d.busy /\ x.fullscreen = d.fullscreen

LEMMA UntouchedKeeps ==
    ASSUME NEW d, NEW x, NEW m, Sound(d, m), Past(d), Untouched(d, x)
    PROVE  Keeping(d, x, m)
  <1>1. Sound(x, m) /\ Past(x)
    BY SameTrayFacts DEF Untouched
  <1>2. Taken(d, x)
    BY DEF Untouched, SameTray, Taken
  <1>3. Restful(d, x)
    BY DEF Untouched, SameTray, Restful, CouldShow
  <1> QED BY <1>1, <1>2, <1>3 DEF Keeping, Orderly

LEMMA GoneKeeps ==
    ASSUME NEW d, NEW x, NEW m, Sound(x, m), Past(x), Gone(d, x)
    PROVE  Keeping(d, x, m)
  BY DEF Keeping, Orderly, Gone, Taken

\* Whatever starts it, updateState keeps what's kept, of the tray as it was.
LEMMA SettledKeeps ==
    ASSUME NEW d, NEW m, NEW y, NEW escaped \in BOOLEAN,
           Sound(y, m), Past(d), SameTray(d, y), y.seen = d.seen
    PROVE  Keeping(d, Update(y, escaped), m)
  <1> DEFINE x == Update(y, escaped)
  <1>1. Updated(y, x, m)
    BY UpdateFacts
  <1> HIDE DEF x
  <1>2. Live(y) = Live(d) /\ Past(y)
    BY SameTrayFacts
  <1>3. Taken(d, x)
    BY <1>1 DEF Updated, Taken, SameTray
  <1>4. Restful(d, x)
    BY <1>1, <1>2 DEF Updated, Within, Restful, SameTray, Past
  <1> QED BY <1>1, <1>2, <1>3, <1>4 DEF Keeping, Orderly, Updated, x

\* onNotificationRequestBanner, of a notification that is there.
LEMMA RequestFacts ==
    ASSUME NEW d, NEW m, NEW n \in Live(d), Sound(d, m), Past(d)
    PROVE  Keeping(d, Request(d, n), m) /\ Live(Request(d, n)) \subseteq Live(d)
  <1> DEFINE x == Request(d, n)
  <1>1. d \in Desk /\ Listing(d) /\ Tidy(d) /\ Haunted(d, m)
    BY DEF Sound, Listing
  <1>2. n \in Notifications /\ n # None
    BY <1>1, LiveFacts, TrayAssumption
  <1>3. CASE SourceOf[n] \notin d.heard \/ n \in d.seen
    <2>1. x = d
      BY <1>3 DEF Request
    <2>2. Untouched(d, d)
      BY <1>1 DEF Untouched, SameTray
    <2> QED BY <2>1, <2>2, UntouchedKeeps
  <1>4. CASE SourceOf[n] \in d.heard /\ n \notin d.seen /\ ~BannerAllowed(d, n)
    <2> DEFINE soon == IF SourceOf[n] \in KeptInList THEN d.discarding ELSE d.discarding \cup {n}
    <2>1. x = [d EXCEPT !.discarding = soon]
      BY <1>1, <1>4 DEF Request, Desk
    <2>2. soon \subseteq Notifications
      BY <1>1, <1>2 DEF Desk
    <2> HIDE DEF soon, x
    <2>3. Untouched(d, x)
      BY <1>1, <2>1, <2>2 DEF Untouched, SameTray, Desk
    <2>4. Live(x) = Live(d)
      BY <2>3, SameTrayFacts DEF Untouched
    <2> QED BY <2>3, <2>4, UntouchedKeeps DEF x
  <1>5. CASE SourceOf[n] \in d.heard /\ n \notin d.seen /\ BannerAllowed(d, n) /\ d.shown = n
    <2> DEFINE y == UpdateShowing(d)
    <2>1. x = Update(y, FALSE)
      BY <1>5 DEF Request
    <2>2. /\ y \in Desk /\ y.queue = d.queue /\ y.shown = d.shown /\ y.removed = d.removed
          /\ y.state = "showing" /\ y.seen = d.seen \cup {n}
          /\ y.list = d.list /\ y.heard = d.heard
          /\ y.blocked = d.blocked /\ y.mode = d.mode /\ y.busy = d.busy /\ y.fullscreen = d.fullscreen
      BY <1>1, <1>2, <1>5 DEF UpdateShowing, Desk
    <2> HIDE DEF y
    <2>3. Live(y) = Live(d) /\ InTray(y) = InTray(d)
      BY <2>2 DEF Live, InTray
    <2>4. Listing(y) /\ Tidy(y)
      BY <1>1, <1>2, <1>5, <2>2 DEF Listing, Tidy
    <2>5. Haunted(y, m)
      BY <1>1, <2>2, <2>3 DEF Haunted
    <2>6. ~y.removed
      BY <1>5, <2>2 DEF Past
    <2>7. Updated(y, x, m)
      BY <2>1, <2>4, <2>5, UpdateFacts DEF Sound
    <2> HIDE DEF x
    <2>8. Sound(x, m) /\ Past(x) /\ Live(x) \subseteq Live(d) /\ ~CouldShow(x)
      BY <2>3, <2>6, <2>7 DEF Updated, Within, Past
    <2>9. Taken(d, x)
      BY <1>1, <1>5, <2>2, <2>7 DEF Updated, Taken, Tidy
    <2> QED BY <2>8, <2>9 DEF Keeping, Orderly, Restful, x
  <1>6. CASE SourceOf[n] \in d.heard /\ n \notin d.seen /\ BannerAllowed(d, n) /\ d.shown # n
    <2> DEFINE y == IF n \in Range(d.queue) THEN d ELSE Enqueue(d, n)
    <2>1. x = Update(y, FALSE)
      BY <1>6 DEF Request
    <2>2. Sound(y, m) /\ Joined(d, y, n)
      <3>1. Joined(d, d, n)
        BY DEF Joined
      <3>2. n \notin Range(d.queue) => n \notin InTray(d)
        BY <1>6 DEF InTray
      <3> QED BY <1>6, <3>1, <3>2, EnqueueFacts
    <2> HIDE DEF y
    <2>3. Updated(y, x, m)
      BY <2>1, <2>2, UpdateFacts
    <2> HIDE DEF x
    <2>4. Sound(x, m) /\ Past(x) /\ Live(x) \subseteq Live(d)
      BY <2>2, <2>3 DEF Updated, Within, Joined, Past
    <2>5. Taken(d, x)
      BY <2>2, <2>3 DEF Updated, Taken, Joined
    <2>6. Restful(d, x)
      BY <2>2, <2>3, <2>4 DEF Updated, Restful, Joined, Past
    <2> QED BY <2>4, <2>5, <2>6 DEF Keeping, Orderly, x
  <1> QED BY <1>3, <1>4, <1>5, <1>6

\* One that came before asks again.
LEMMA AgainFacts ==
    ASSUME NEW d, NEW m, NEW n \in Live(d), NEW u \in {LOW, NORMAL, CRITICAL}, NEW known \in SUBSET {n},
           Sound(d, m), Past(d)
    PROVE  Keeping(d, Again(d, n, u, known), m)
  <1> DEFINE left == d.seen \ {n}
  <1> DEFINE z == [d EXCEPT !.seen = left]
  <1> DEFINE y == IF n \in d.seen THEN Request(z, n) ELSE d
  <1> DEFINE rank == [y.urgency EXCEPT ![n] = u]
  <1> DEFINE viewed == y.seen \cup known
  <1> DEFINE x == [y EXCEPT !.urgency = rank, !.seen = viewed]
  <1>1. d \in Desk /\ n \in Notifications
    BY LiveFacts DEF Sound, Listing
  <1>2. Keeping(d, y, m)
    <2>1. CASE n \notin d.seen
      <3>1. Untouched(d, d)
        BY <1>1 DEF Untouched, SameTray
      <3> QED BY <2>1, <3>1, UntouchedKeeps
    <2>2. CASE n \in d.seen
      <3>1. left \subseteq d.seen /\ left \subseteq Notifications
        BY <1>1, DeskFacts
      <3> HIDE DEF left
      <3>2. Untouched(d, z) /\ z.seen = left
        BY <1>1, <3>1 DEF Untouched, SameTray, Desk
      <3> HIDE DEF z
      <3>3. Sound(z, m) /\ Past(z) /\ Live(z) = Live(d)
        BY <3>2, SameTrayFacts DEF Untouched
      <3>4. Keeping(z, y, m)
        BY <2>2, <3>3, RequestFacts
      <3> HIDE DEF y
      <3>5. Taken(d, y) /\ Restful(d, y)
        BY <3>1, <3>2, <3>4
           DEF Keeping, Orderly, Taken, Restful, CouldShow, Untouched, SameTray
      <3> QED BY <3>4, <3>5 DEF Keeping, Orderly
    <2> QED BY <2>1, <2>2
  <1>3. Again(d, n, u, known) = [y EXCEPT !.urgency[n] = u, !.seen = @ \cup known]
    <2>1. [d EXCEPT !.seen = @ \ {n}] = z
      BY <1>1 DEF Desk
    <2> QED BY <2>1 DEF Again
  <1> HIDE DEF y
  <1>4. y \in Desk
    BY <1>2 DEF Keeping, Sound, Listing
  <1>5. Again(d, n, u, known) = x
    BY <1>3, <1>4 DEF Desk
  <1>6. rank \in [Notifications -> {LOW, NORMAL, CRITICAL}] /\ viewed \subseteq Notifications
    BY <1>1, <1>4, DeskFacts
  <1> HIDE DEF rank, viewed
  <1>7. Untouched(y, x)
    BY <1>4, <1>6 DEF Untouched, SameTray, Desk
  <1> HIDE DEF x
  <1>8. Sound(x, m) /\ Past(x) /\ Live(x) = Live(y)
    BY <1>2, <1>7, SameTrayFacts DEF Untouched, Keeping
  <1>9. Taken(d, x) /\ Restful(d, x)
    BY <1>2, <1>7, <1>8 DEF Keeping, Orderly, Taken, Restful, CouldShow, Untouched, SameTray
  <1> QED BY <1>5, <1>8, <1>9 DEF Keeping, Orderly

\* A source takes one that's new into its list, and the oldest makes room.
LEMMA ListedFacts ==
    ASSUME NEW d, NEW m, NEW n \in Notifications, Sound(d, m), Past(d),
           n \notin Live(d), n \notin InTray(d)
    PROVE  Keeping(d, Listed(d, n), m)
  <1> DEFINE s == SourceOf[n]
  <1> DEFINE h == Head(d.list[s])
  <1> DEFINE y == IF Len(d.list[s]) >= MaxPerSource THEN Destroy(d, h) ELSE d
  <1> DEFINE q == Append(y.list[s], n)
  <1> DEFINE l == [y.list EXCEPT ![s] = q]
  <1> DEFINE z == [y EXCEPT !.list = l]
  <1> DEFINE x == Listed(d, n)
  <1>1. d \in Desk /\ Listing(d) /\ s \in Sources /\ d.list[s] \in Seq(Notifications) /\ n # None
    BY LiveFacts, TrayAssumption DEF Sound, Listing
  <1>2. MaxPerSource \in Nat /\ MaxPerSource >= 2
    BY TrayAssumption
  <1>3. Sound(y, m) /\ Past(y) /\ Gone(d, y) /\ Len(y.list[s]) < MaxPerSource
    <2>1. Len(d.list[s]) \in Nat /\ Len(d.list[s]) <= MaxPerSource
      BY <1>1 DEF Listing
    <2>2. CASE Len(d.list[s]) >= MaxPerSource
      <3>1. d.list[s] # <<>>
        BY <1>1, <1>2, <2>1, <2>2
      <3>2. h \in Notifications /\ h \in Range(d.list[s])
        BY <1>1, <3>1, TailFacts
      <3>3. h \in Live(d) /\ SourceOf[h] = s
        BY <1>1, <3>2, LiveFacts DEF Listing
      <3>4. y = Destroy(d, h)
        BY <2>2
      <3> HIDE DEF h, y
      <3>5. Sound(y, m) /\ Past(y) /\ Gone(d, y) /\ Len(y.list[s]) < Len(d.list[s])
        BY <3>2, <3>3, <3>4, DestroyFacts
      <3>6. Len(y.list[s]) \in Nat
        BY <1>1, <3>5, DeskFacts DEF Sound, Listing
      <3> QED BY <1>2, <2>1, <3>5, <3>6
    <2>3. CASE ~(Len(d.list[s]) >= MaxPerSource)
      <3>1. y = d
        BY <2>3
      <3> QED BY <1>1, <1>2, <2>1, <2>3, <3>1, GoneStays
    <2> QED BY <2>2, <2>3
  <1>4. x = Request([y EXCEPT !.list[s] = Append(@, n)], n)
    BY DEF Listed
  <1> HIDE DEF y
  <1>5. y \in Desk /\ Listing(y) /\ Tidy(y) /\ Haunted(y, m) /\ y.list[s] \in Seq(Notifications)
    BY <1>1, <1>3, LiveFacts DEF Sound, Listing
  <1>6. n \notin Live(y) /\ n \notin InTray(y) /\ n \notin Range(y.list[s])
    <2>1. n \notin Live(y) /\ n \notin InTray(y)
      BY <1>3 DEF Gone, Within
    <2> QED BY <1>1, <1>5, <2>1, LiveFacts
  <1>7. [y EXCEPT !.list[s] = Append(@, n)] = z
    BY <1>5 DEF Desk
  <1>8. q \in Seq(Notifications) /\ Range(q) = Range(y.list[s]) \cup {n} /\ IsInjective(q)
        /\ Len(q) <= MaxPerSource
    <2>1. Len(q) = Len(y.list[s]) + 1 /\ Len(y.list[s]) \in Nat
      BY <1>5
    <2>2. Len(q) <= MaxPerSource
      BY <1>2, <1>3, <2>1
    <2> QED BY <1>1, <1>5, <1>6, <2>2, AppendFacts DEF Listing
  <1> HIDE DEF q
  <1>9. l \in [Sources -> Seq(Notifications)] /\ \A t \in Sources : l[t] = IF t = s THEN q ELSE y.list[t]
    BY <1>1, <1>5, <1>8, DeskFacts
  <1> HIDE DEF l
  <1>10. /\ z \in Desk /\ z.list = l /\ z.heard = y.heard /\ z.seen = y.seen
         /\ z.queue = y.queue /\ z.shown = y.shown /\ z.state = y.state /\ z.removed = y.removed
         /\ z.blocked = y.blocked /\ z.mode = y.mode /\ z.busy = y.busy /\ z.fullscreen = y.fullscreen
    BY <1>5, <1>9 DEF Desk
  <1> HIDE DEF z
  <1>11. Listing(z)
    <2>1. ASSUME NEW t \in Sources
          PROVE  /\ Len(z.list[t]) <= MaxPerSource /\ IsInjective(z.list[t])
                 /\ \A p \in Range(z.list[t]) : SourceOf[p] = t
      <3>1. /\ Len(y.list[t]) <= MaxPerSource /\ IsInjective(y.list[t])
            /\ \A p \in Range(y.list[t]) : SourceOf[p] = t
        BY <1>5 DEF Listing
      <3>2. z.list[t] = IF t = s THEN q ELSE y.list[t]
        BY <1>9, <1>10
      <3> QED BY <1>8, <3>1, <3>2
    <2> QED BY <1>10, <2>1 DEF Listing
  <1>12. Live(z) = Live(y) \cup {n}
    <2>1. \A p \in Notifications : p \in Live(z) <=> p \in Live(y) \cup {n}
      BY <1>1, <1>5, <1>8, <1>9, <1>10, <1>11, LiveFacts
    <2> QED BY <1>5, <1>11, <2>1, LiveFacts
  <1>13. InTray(z) = InTray(y)
    BY <1>10 DEF InTray
  <1>14. Tidy(z)
    BY <1>5, <1>10 DEF Tidy
  <1>15. Haunted(z, m)
    BY <1>5, <1>6, <1>10, <1>12, <1>13 DEF Haunted
  <1>16. Past(z)
    BY <1>1, <1>3, <1>6, <1>10, <1>12, <1>14 DEF Past, InTray, Tidy
  <1>17. Keeping(z, x, m) /\ Live(x) \subseteq Live(z)
    <2>1. x = Request(z, n)
      BY <1>4, <1>7
    <2> HIDE DEF x
    <2> QED BY <1>11, <1>12, <1>14, <1>15, <1>16, <2>1, RequestFacts DEF Sound
  <1> HIDE DEF x
  <1>18. Taken(d, x)
    <2> SUFFICES ASSUME NEW p \in Range(d.queue) \ Range(x.queue)
                 PROVE  p = x.shown \/ p \in d.seen \/ p \notin Live(x)
      BY DEF Taken
    <2>1. p # n
      BY DEF InTray
    <2>2. CASE p \in Range(y.queue)
      BY <1>3, <1>10, <1>17, <2>2 DEF Keeping, Orderly, Taken, Gone
    <2>3. CASE p \notin Range(y.queue)
      BY <1>3, <1>12, <1>17, <2>1, <2>3 DEF Gone
    <2> QED BY <2>2, <2>3
  <1>19. Restful(d, x)
    <2> SUFFICES ASSUME CouldShow(x)
                 PROVE  CouldShow(d) \/ (d.state \in {"showing", "shown"} /\ d.shown \notin Live(x))
      BY DEF Restful
    <2>1. CouldShow(z) \/ (z.state \in {"showing", "shown"} /\ z.shown \notin Live(x))
      BY <1>17 DEF Keeping, Orderly, Restful
    <2>2. CASE CouldShow(z)
      <3>1. CouldShow(y)
        BY <1>10, <2>2 DEF CouldShow
      <3>2. CouldShow(d) \/ (d.state \in {"showing", "shown"} /\ d.shown \notin Live(y))
        BY <1>3, <3>1 DEF Gone, Restful
      <3>3. d.state \in {"showing", "shown"} => d.shown # n
        <4>1. Tidy(d)
          BY DEF Sound
        <4> QED BY <1>1, <4>1 DEF Tidy, InTray
      <3> QED BY <1>12, <1>17, <3>2, <3>3
    <2>3. CASE z.state \in {"showing", "shown"} /\ z.shown \notin Live(x)
      BY <1>3, <1>5, <1>10, <2>3 DEF Gone, Tidy
    <2> QED BY <2>1, <2>2, <2>3
  <1> QED BY <1>17, <1>18, <1>19 DEF Keeping, Orderly, x

\* One that's new comes, and the tray follows its source if it's the first.
LEMMA AnewFacts ==
    ASSUME NEW d, NEW m, NEW n \in Notifications, NEW u \in {LOW, NORMAL, CRITICAL},
           NEW known \in SUBSET {n}, Sound(d, m), Past(d), n \notin Live(d), n \notin InTray(d)
    PROVE  Keeping(d, Anew(d, n, u, known), m)
  <1> DEFINE s == SourceOf[n]
  <1> DEFINE rank == [d.urgency EXCEPT ![n] = u]
  <1> DEFINE h == IF d.list[s] = <<>> /\ s \in d.enabled THEN d.heard \cup {s} ELSE d.heard
  <1> DEFINE viewed == d.seen \cup known
  <1> DEFINE y == [d EXCEPT !.urgency = rank, !.seen = viewed, !.heard = h]
  <1> DEFINE x == Listed(y, n)
  <1>1. d \in Desk /\ s \in Sources
    BY LiveFacts DEF Sound, Listing
  <1>2. Anew(d, n, u, known) = x
    BY <1>1 DEF Anew, Desk
  <1>3. rank \in [Notifications -> {LOW, NORMAL, CRITICAL}] /\ h \subseteq Sources /\ d.heard \subseteq h
        /\ viewed \subseteq Notifications /\ viewed \subseteq d.seen \cup {n}
    BY <1>1, DeskFacts
  <1> HIDE DEF rank, h, viewed
  <1>4. Untouched(d, y) /\ y.seen = viewed
    BY <1>1, <1>3 DEF Untouched, SameTray, Desk
  <1> HIDE DEF y
  <1>5. Sound(y, m) /\ Past(y) /\ Live(y) = Live(d) /\ InTray(y) = InTray(d)
    BY <1>4, SameTrayFacts DEF Untouched
  <1>6. Keeping(y, x, m)
    BY <1>5, ListedFacts
  <1> HIDE DEF x
  <1>7. Taken(d, x)
    BY <1>3, <1>4, <1>6 DEF Keeping, Orderly, Taken, Untouched, SameTray, InTray
  <1>8. Restful(d, x)
    BY <1>4, <1>6 DEF Keeping, Orderly, Restful, CouldShow, Untouched, SameTray
  <1> QED BY <1>2, <1>6, <1>7, <1>8 DEF Keeping, Orderly

-----------------------------------------------------------------------------
(* The steps. *)

Counted == moves \in 0..MaxMoves /\ muted \subseteq Notifications

\* The inductive invariant.
Order == Sound(desk, muted) /\ Past(desk) /\ Counted

\* What each step has to do.
Onward == Keeping(desk, desk', muted') /\ Counted'

LEMMA StepGoesOn ==
    ASSUME NEW x, Order, Keeping(desk, x, muted), Step(x)
    PROVE  Onward
  BY DEF Order, Counted, Step, Onward

LEMMA MoveGoesOn ==
    ASSUME NEW x, Order, Keeping(desk, x, muted), Move(x)
    PROVE  Onward
  <1>1. moves \in Nat /\ MaxMoves \in Nat /\ moves < MaxMoves /\ moves' = moves + 1
    BY TrayAssumption DEF Order, Counted, Move
  <1> QED BY <1>1 DEF Order, Counted, Move, Onward

LEMMA SwitchGoesOn ==
    ASSUME NEW x, NEW back, Order, Keeping(desk, x, muted), Switch(back, x)
    PROVE  Onward
  BY StepGoesOn, MoveGoesOn DEF Switch

LEMMA NotifyGoesOn ==
    ASSUME NEW n \in Notifications, Order, Notify(n)
    PROVE  Onward
  <1>1. PICK u \in Urgencies[n], known \in SUBSET ({n} \cap Resident) :
           /\ n \notin Live(desk) => n \notin InTray(desk)
           /\ desk' = IF n \in Live(desk) THEN Again(desk, n, u, known) ELSE Anew(desk, n, u, known)
           /\ muted' = muted \ (IF n \in Live(desk) THEN {} ELSE {n})
           /\ UNCHANGED moves
    BY DEF Notify
  <1>2. u \in {LOW, NORMAL, CRITICAL} /\ known \in SUBSET {n}
    BY TrayAssumption
  <1>3. Sound(desk, muted) /\ Past(desk) /\ Counted'
    BY <1>1 DEF Order, Counted
  <1>4. CASE n \in Live(desk)
    <2>1. muted' = muted
      BY <1>1, <1>4
    <2> QED BY <1>1, <1>2, <1>3, <1>4, <2>1, AgainFacts DEF Onward
  <1>5. CASE n \notin Live(desk)
    <2>1. muted' = muted \ {n} /\ n \notin InTray(desk)
      BY <1>1, <1>5
    <2>2. Sound(desk, muted')
      BY <1>3, <2>1 DEF Sound, Haunted
    <2> QED BY <1>1, <1>2, <1>3, <1>5, <2>1, <2>2, AnewFacts DEF Onward
  <1> QED BY <1>4, <1>5

LEMMA DestroyGoesOn ==
    ASSUME NEW n \in Notifications, Order, Step(Destroy(desk, n))
    PROVE  Onward
  BY DestroyFacts, GoneKeeps, StepGoesOn DEF Order

LEMMA AcknowledgeGoesOn ==
    ASSUME NEW n \in Notifications, Order, Acknowledge(n)
    PROVE  Onward
  <1> DEFINE known == desk.seen \cup {n}
  <1> DEFINE x == [desk EXCEPT !.seen = known]
  <1>1. Step([desk EXCEPT !.seen = @ \cup {n}]) /\ desk \in Desk
    BY DEF Acknowledge, Order, Sound, Listing
  <1>2. known \subseteq Notifications /\ [desk EXCEPT !.seen = @ \cup {n}] = x
    BY <1>1, DeskFacts DEF Desk
  <1> HIDE DEF known
  <1>3. Untouched(desk, x)
    BY <1>1, <1>2 DEF Untouched, SameTray, Desk
  <1> HIDE DEF x
  <1> QED BY <1>1, <1>2, <1>3, UntouchedKeeps, StepGoesOn DEF Order

LEMMA LeaveGoesOn ==
    ASSUME NEW s \in Sources, Order, Leave(s)
    PROVE  Onward
  <1> DEFINE x == DestroyAll(desk, desk.list[s])
  <1>1. Step(x) /\ desk.list[s] \in Seq(Notifications)
    BY LiveFacts DEF Leave, Order, Sound
  <1>2. Sound(x, muted) /\ Past(x) /\ Gone(desk, x)
    BY <1>1, DestroyAllFacts DEF Order
  <1> HIDE DEF x
  <1> QED BY <1>1, <1>2, GoneKeeps, StepGoesOn

LEMMA OpenGoesOn ==
    ASSUME NEW s \in Sources, Order, Open(s)
    PROVE  Onward
  <1>1. Step(DestroyAll(desk, Reverse(Excluding(desk.list[s], Resident))))
    BY DEF Open
  <1> DEFINE r == Excluding(desk.list[s], Resident)
  <1> DEFINE q == Reverse(r)
  <1> DEFINE x == DestroyAll(desk, q)
  <1>2. desk.list[s] \in Seq(Notifications)
    BY LiveFacts DEF Order, Sound
  <1>3. r \in Seq(Notifications)
    BY <1>2, ExcludingFacts
  <1> HIDE DEF r
  <1>4. q \in Seq(Notifications)
    BY <1>3 DEF Reverse
  <1> HIDE DEF q
  <1>5. Sound(x, muted) /\ Past(x) /\ Gone(desk, x)
    BY <1>4, DestroyAllFacts DEF Order
  <1>6. Step(x)
    BY <1>1 DEF q, r
  <1> HIDE DEF x
  <1> QED BY <1>5, <1>6, GoneKeeps, StepGoesOn

\* A step that changes nothing of the tray before it has it look at itself.
LEMMA UpdateGoesOn ==
    ASSUME NEW y, NEW escaped \in BOOLEAN, NEW x, Order, SameTray(desk, y), y.seen = desk.seen,
           x = Update(y, escaped)
    PROVE  Keeping(desk, x, muted)
  <1>1. Sound(y, muted)
    BY SameTrayFacts DEF Order
  <1> QED BY <1>1, SettledKeeps DEF Order

LEMMA ShowDoneGoesOn ==
    ASSUME Order, ShowDone
    PROVE  Onward
  <1> DEFINE x == [desk EXCEPT !.state = "shown"]
  <1> DEFINE y == ShowCompleted(x)
  <1>1. desk \in Desk /\ desk.state = "showing" /\ Step(Update(y, FALSE))
    BY DEF ShowDone, Order, Sound, Listing
  <1>2. y = x \/ y = [x EXCEPT !.timer = TRUE]
    BY DEF ShowCompleted
  <1> HIDE DEF y
  <1>3. SameTray(desk, y) /\ y.seen = desk.seen
    BY <1>1, <1>2 DEF SameTray, Desk
  <1> QED BY <1>1, <1>3, UpdateGoesOn, StepGoesOn

LEMMA HideDoneGoesOn ==
    ASSUME Order, HideDone
    PROVE  Onward
  <1> DEFINE y == HideCompleted(desk)
  <1> DEFINE x == Update(y, FALSE)
  <1>1. desk.state = "hiding" /\ Step(x) /\ Tidy(desk)
    BY DEF HideDone, Order, Sound
  <1>2. desk.shown # None
    BY <1>1 DEF Tidy
  <1>3. Down(desk, y, muted)
    BY <1>2, CompletedFacts DEF Order
  <1> HIDE DEF y
  <1>4. Updated(y, x, muted)
    BY <1>3, UpdateFacts DEF Down
  <1> HIDE DEF x
  <1>5. Past(x) /\ ~CouldShow(x)
    BY <1>3, <1>4 DEF Updated, Down, Past
  <1>6. Taken(desk, x)
    BY <1>3, <1>4 DEF Updated, Down, Taken
  <1>7. Keeping(desk, x, muted)
    BY <1>4, <1>5, <1>6 DEF Keeping, Orderly, Restful, Updated
  <1> QED BY <1>1, <1>7, StepGoesOn

LEMMA EscapeGoesOn ==
    ASSUME Order, Escape
    PROVE  Onward
  <1>1. desk \in Desk /\ Move(Update(desk, TRUE))
    BY DEF Escape, Order, Sound, Listing
  <1>2. SameTray(desk, desk)
    BY <1>1 DEF SameTray
  <1> QED BY <1>1, <1>2, UpdateGoesOn, MoveGoesOn

LEMMA TimeoutGoesOn ==
    ASSUME Order, NotificationTimeout
    PROVE  Onward
  <1> DEFINE y == [desk EXCEPT !.timer = FALSE]
  <1>1. desk \in Desk /\ Step(Update(y, FALSE))
    BY DEF NotificationTimeout, Order, Sound, Listing
  <1>2. SameTray(desk, y) /\ y.seen = desk.seen
    BY <1>1 DEF SameTray, Desk
  <1> HIDE DEF y
  <1> QED BY <1>1, <1>2, UpdateGoesOn, StepGoesOn

LEMMA LeftTimeoutGoesOn ==
    ASSUME Order, NotificationLeftTimeout
    PROVE  Onward
  <1> DEFINE y == [desk EXCEPT !.leftTimer = FALSE, !.pointer = FALSE, !.timer = FALSE]
  <1>1. desk \in Desk /\ Step(Update(y, FALSE))
    BY DEF NotificationLeftTimeout, Order, Sound, Listing
  <1>2. SameTray(desk, y) /\ y.seen = desk.seen
    BY <1>1 DEF SameTray, Desk
  <1> HIDE DEF y
  <1> QED BY <1>1, <1>2, UpdateGoesOn, StepGoesOn

LEMMA HoverEnterGoesOn ==
    ASSUME Order, HoverEnter
    PROVE  Onward
  <1> DEFINE x == [desk EXCEPT !.hovered = TRUE, !.leftTimer = FALSE]
  <1> DEFINE y == [x EXCEPT !.pointer = TRUE]
  <1>1. desk \in Desk /\ (Move(x) \/ Move(Update(y, FALSE)))
    BY DEF HoverEnter, Order, Sound, Listing
  <1>2. Untouched(desk, x)
    BY <1>1 DEF Untouched, SameTray, Desk
  <1>3. SameTray(desk, y) /\ y.seen = desk.seen
    BY <1>1 DEF SameTray, Desk
  <1> HIDE DEF x, y
  <1>4. Keeping(desk, x, muted) /\ Keeping(desk, Update(y, FALSE), muted)
    BY <1>2, <1>3, UntouchedKeeps, UpdateGoesOn DEF Order
  <1> QED BY <1>1, <1>4, MoveGoesOn

LEMMA HoverLeaveGoesOn ==
    ASSUME Order, HoverLeave
    PROVE  Onward
  <1> DEFINE x == [desk EXCEPT !.hovered = FALSE, !.leftTimer = TRUE]
  <1>1. desk \in Desk /\ Step(x)
    BY DEF HoverLeave, Order, Sound, Listing
  <1>2. Untouched(desk, x)
    BY <1>1 DEF Untouched, SameTray, Desk
  <1> HIDE DEF x
  <1> QED BY <1>1, <1>2, UntouchedKeeps, StepGoesOn DEF Order

LEMMA HoldGoesOn ==
    ASSUME Order, Hold
    PROVE  Onward
  <1> DEFINE x == [desk EXCEPT !.held = TRUE, !.timer = FALSE]
  <1>1. desk \in Desk /\ Move(x)
    BY DEF Hold, Order, Sound, Listing
  <1>2. Untouched(desk, x)
    BY <1>1 DEF Untouched, SameTray, Desk
  <1> HIDE DEF x
  <1> QED BY <1>1, <1>2, UntouchedKeeps, MoveGoesOn DEF Order

LEMMA ReleaseGoesOn ==
    ASSUME Order, Release
    PROVE  Onward
  <1> DEFINE y == [desk EXCEPT !.held = FALSE]
  <1> DEFINE x == IF y.state = "shown" THEN ShowCompleted(y) ELSE y
  <1> DEFINE z == [y EXCEPT !.timer = TRUE]
  <1>1. desk \in Desk /\ Step(x)
    BY DEF Release, Order, Sound, Listing
  <1>2. x = y \/ x = z
    BY DEF ShowCompleted
  <1>3. Untouched(desk, y) /\ Untouched(desk, z)
    BY <1>1 DEF Untouched, SameTray, Desk
  <1> HIDE DEF x, y, z
  <1> QED BY <1>1, <1>2, <1>3, UntouchedKeeps, StepGoesOn DEF Order

LEMMA GoAwayGoesOn ==
    ASSUME Order, GoAway
    PROVE  Onward
  <1> DEFINE x == [desk EXCEPT !.away = TRUE]
  <1>1. desk \in Desk /\ Move(x)
    BY DEF GoAway, Order, Sound, Listing
  <1>2. Untouched(desk, x)
    BY <1>1 DEF Untouched, SameTray, Desk
  <1> HIDE DEF x
  <1> QED BY <1>1, <1>2, UntouchedKeeps, MoveGoesOn DEF Order

LEMMA ComeBackGoesOn ==
    ASSUME Order, ComeBack
    PROVE  Onward
  <1> DEFINE x == [desk EXCEPT !.away = FALSE, !.watched = FALSE]
  <1> DEFINE y == [x EXCEPT !.active = TRUE, !.timer = TRUE]
  <1>1. desk \in Desk /\ (Step(x) \/ Step(Update(y, FALSE)))
    BY DEF ComeBack, Order, Sound, Listing
  <1>2. Untouched(desk, x)
    BY <1>1 DEF Untouched, SameTray, Desk
  <1>3. SameTray(desk, y) /\ y.seen = desk.seen
    BY <1>1 DEF SameTray, Desk
  <1> HIDE DEF x, y
  <1>4. Keeping(desk, x, muted) /\ Keeping(desk, Update(y, FALSE), muted)
    BY <1>2, <1>3, UntouchedKeeps, UpdateGoesOn DEF Order
  <1> QED BY <1>1, <1>4, StepGoesOn

LEMMA SwitchBlockedGoesOn ==
    ASSUME Order, SwitchBlocked
    PROVE  Onward
  <1> DEFINE other == ~desk.blocked
  <1> DEFINE y == [desk EXCEPT !.blocked = other]
  <1>1. desk \in Desk
    BY DEF Order, Sound, Listing
  <1>2. other \in BOOLEAN /\ Switch(desk.blocked, Update(y, FALSE))
    BY <1>1 DEF SwitchBlocked, Desk
  <1> HIDE DEF other
  <1>3. SameTray(desk, y) /\ y.seen = desk.seen
    BY <1>1, <1>2 DEF SameTray, Desk
  <1> HIDE DEF y
  <1> QED BY <1>2, <1>3, UpdateGoesOn, SwitchGoesOn

LEMMA SwitchModeGoesOn ==
    ASSUME Order, SwitchMode
    PROVE  Onward
  <1> DEFINE other == ~desk.mode
  <1> DEFINE y == [desk EXCEPT !.mode = other]
  <1>1. desk \in Desk
    BY DEF Order, Sound, Listing
  <1>2. other \in BOOLEAN /\ Switch(~desk.mode, Update(y, FALSE))
    BY <1>1 DEF SwitchMode, Desk
  <1> HIDE DEF other
  <1>3. SameTray(desk, y) /\ y.seen = desk.seen
    BY <1>1, <1>2 DEF SameTray, Desk
  <1> HIDE DEF y
  <1> QED BY <1>2, <1>3, UpdateGoesOn, SwitchGoesOn

LEMMA SwitchFullscreenGoesOn ==
    ASSUME Order, SwitchFullscreen
    PROVE  Onward
  <1> DEFINE other == ~desk.fullscreen
  <1> DEFINE y == [desk EXCEPT !.fullscreen = other]
  <1>1. desk \in Desk
    BY DEF Order, Sound, Listing
  <1>2. other \in BOOLEAN /\ Switch(desk.fullscreen, Update(y, FALSE))
    BY <1>1 DEF SwitchFullscreen, Desk
  <1> HIDE DEF other
  <1>3. SameTray(desk, y) /\ y.seen = desk.seen
    BY <1>1, <1>2 DEF SameTray, Desk
  <1> HIDE DEF y
  <1> QED BY <1>2, <1>3, UpdateGoesOn, SwitchGoesOn

LEMMA SwitchBusyGoesOn ==
    ASSUME Order, SwitchBusy
    PROVE  Onward
  <1> DEFINE other == ~desk.busy
  <1> DEFINE armed == desk.timer /\ desk.busy
  <1> DEFINE y == [desk EXCEPT !.busy = other, !.timer = armed]
  <1>1. desk \in Desk
    BY DEF Order, Sound, Listing
  <1>2. other \in BOOLEAN /\ armed \in BOOLEAN /\ Switch(desk.busy, Update(y, FALSE))
    BY <1>1 DEF SwitchBusy, Desk
  <1> HIDE DEF other, armed
  <1>3. SameTray(desk, y) /\ y.seen = desk.seen
    BY <1>1, <1>2 DEF SameTray, Desk
  <1> HIDE DEF y
  <1> QED BY <1>2, <1>3, UpdateGoesOn, SwitchGoesOn

LEMMA SwitchQuietGoesOn ==
    ASSUME Order, SwitchQuiet
    PROVE  Onward
  <1> DEFINE other == ~desk.quiet
  <1> DEFINE x == [desk EXCEPT !.quiet = other]
  <1>1. desk \in Desk
    BY DEF Order, Sound, Listing
  <1>2. other \in BOOLEAN /\ Switch(desk.quiet, x)
    BY <1>1 DEF SwitchQuiet, Desk
  <1> HIDE DEF other
  <1>3. Untouched(desk, x)
    BY <1>1, <1>2 DEF Untouched, SameTray, Desk
  <1> HIDE DEF x
  <1> QED BY <1>2, <1>3, UntouchedKeeps, SwitchGoesOn DEF Order

\* The tray stops following a source, and what it holds of it is noted.
LEMMA SwitchEnabledGoesOn ==
    ASSUME NEW s \in Sources, Order, SwitchEnabled(s)
    PROVE  Onward
  <1> DEFINE on == s \notin desk.enabled
  <1> DEFINE able == IF on THEN desk.enabled \cup {s} ELSE desk.enabled \ {s}
  <1> DEFINE h == IF on /\ desk.list[s] # <<>> THEN desk.heard \cup {s} ELSE desk.heard \ {s}
  <1> DEFINE y == [desk EXCEPT !.enabled = able, !.heard = h]
  <1> DEFINE m == muted \cup {n \in InTray(desk) : SourceOf[n] = s}
  <1>1. desk \in Desk /\ Listing(desk) /\ Tidy(desk) /\ Haunted(desk, muted) /\ Past(desk)
    BY DEF Order, Sound, Listing
  <1>2. /\ desk' = IF desk.list[s] # <<>> THEN Update(y, FALSE) ELSE y
        /\ on \/ moves < MaxMoves
        /\ moves' = IF on THEN moves ELSE moves + 1
        /\ muted' = m
    BY <1>1 DEF SwitchEnabled, Desk
  <1>3. able \subseteq Sources /\ h \subseteq Sources /\ \A t \in Sources : t # s => (t \in h <=> t \in desk.heard)
    BY <1>1, DeskFacts DEF Desk
  <1>4. Counted'
    <2>1. InTray(desk) \subseteq Notifications
      BY <1>1, DeskFacts DEF InTray
    <2>2. moves \in Nat /\ MaxMoves \in Nat /\ moves <= MaxMoves /\ muted \subseteq Notifications
      BY TrayAssumption DEF Order, Counted
    <2>3. moves' \in 0..MaxMoves
      BY <1>2, <2>2
    <2> QED BY <1>2, <2>1, <2>2, <2>3 DEF Counted
  <1> HIDE DEF able, h
  <1>5. /\ y \in Desk /\ y.queue = desk.queue /\ y.shown = desk.shown /\ y.state = desk.state
        /\ y.removed = desk.removed /\ y.list = desk.list /\ y.heard = h /\ y.seen = desk.seen
        /\ y.blocked = desk.blocked /\ y.mode = desk.mode /\ y.busy = desk.busy /\ y.fullscreen = desk.fullscreen
    BY <1>1, <1>3 DEF Desk
  <1> HIDE DEF y
  <1>6. Live(y) = Live(desk) /\ InTray(y) = InTray(desk)
    BY <1>5 DEF Live, InTray
  <1>7. Listing(y) /\ Tidy(y) /\ Past(y)
    BY <1>1, <1>5, <1>6 DEF Listing, Tidy, Past
  <1>8. Haunted(y, m)
    <2> SUFFICES ASSUME NEW p \in InTray(desk) \ m
                 PROVE  /\ p \in Live(desk) => SourceOf[p] \in h
                        /\ p \in Live(desk) \/ (p = desk.shown /\ desk.removed)
      BY <1>5, <1>6 DEF Haunted
    <2>1. /\ p \in Live(desk) => SourceOf[p] \in desk.heard
          /\ p \in Live(desk) \/ (p = desk.shown /\ desk.removed)
      BY <1>1 DEF Haunted
    <2>2. SourceOf[p] # s
      OBVIOUS
    <2>3. desk.heard \subseteq Sources
      BY <1>1, DeskFacts
    <2> QED BY <1>3, <2>1, <2>2, <2>3
  <1> HIDE DEF m
  <1>9. CASE desk.list[s] = <<>>
    <2>1. desk' = y
      BY <1>2, <1>9
    <2>2. Orderly(desk, y)
      BY <1>5 DEF Orderly, Taken, Restful, CouldShow
    <2> QED BY <1>2, <1>4, <1>7, <1>8, <2>1, <2>2 DEF Onward, Keeping, Sound
  <1>10. CASE desk.list[s] # <<>>
    <2> DEFINE x == Update(y, FALSE)
    <2>1. desk' = x
      BY <1>2, <1>10
    <2>2. Updated(y, x, m)
      BY <1>7, <1>8, UpdateFacts DEF Sound
    <2> HIDE DEF x
    <2>3. Taken(desk, x)
      BY <1>5, <2>2 DEF Updated, Taken
    <2>4. Restful(desk, x)
      BY <1>1, <1>5, <1>6, <2>2 DEF Updated, Within, Restful, Past
    <2>5. Keeping(desk, x, m)
      BY <1>7, <2>2, <2>3, <2>4 DEF Keeping, Orderly, Updated
    <2> QED BY <1>2, <1>4, <2>1, <2>5 DEF Onward
  <1> QED BY <1>9, <1>10

LEMMA PersonGoesOn ==
    ASSUME Order, Person
    PROVE  Onward
  BY EscapeGoesOn, HoverEnterGoesOn, HoverLeaveGoesOn, HoldGoesOn, ReleaseGoesOn, GoAwayGoesOn,
     ComeBackGoesOn, SwitchBlockedGoesOn, SwitchModeGoesOn, SwitchFullscreenGoesOn, SwitchBusyGoesOn,
     SwitchQuietGoesOn, SwitchEnabledGoesOn
     DEF Person

LEMMA NextGoesOn ==
    ASSUME Order, Next
    PROVE  Onward
  <1>1. ASSUME NEW n \in Notifications, Notify(n) \/ Close(n) \/ Discard(n) \/ Acknowledge(n) PROVE Onward
    BY <1>1, NotifyGoesOn, DestroyGoesOn, AcknowledgeGoesOn DEF Close, Discard
  <1> QED BY <1>1, LeaveGoesOn, OpenGoesOn, ShowDoneGoesOn, HideDoneGoesOn, TimeoutGoesOn, LeftTimeoutGoesOn, PersonGoesOn
          DEF Next

LEMMA NothingGoesOn ==
    ASSUME Order, UNCHANGED vars
    PROVE  Onward
  <1>1. Untouched(desk, desk)
    BY DEF Order, Sound, Listing, Untouched, SameTray
  <1>2. Keeping(desk, desk, muted)
    BY <1>1, UntouchedKeeps DEF Order
  <1> QED BY <1>2 DEF Order, Counted, Onward, vars

-----------------------------------------------------------------------------
(* The theorems. *)

LEMMA BeginsInOrder ==
    ASSUME Init
    PROVE  Order
  <1>1. <<>> \in Seq(Notifications) /\ Len(<<>>) = 0 /\ Range(<<>>) = {} /\ IsInjective(<<>>)
    BY DEF Range, IsInjective
  <1>2. /\ desk.queue = <<>> /\ desk.shown = None /\ desk.state = "hidden" /\ desk.removed = FALSE
        /\ \A s \in Sources : desk.list[s] = <<>>
    BY DEF Init
  <1>3. desk \in Desk
    <2> DEFINE lists == [s \in Sources |-> <<>>]
    <2> DEFINE ranks == [n \in Notifications |-> NORMAL]
    <2>1. lists \in [Sources -> Seq(Notifications)] /\ ranks \in [Notifications -> {LOW, NORMAL, CRITICAL}]
      BY <1>1
    <2>2. desk = [queue |-> <<>>, shown |-> None, state |-> "hidden", removed |-> FALSE,
                  timer |-> FALSE, leftTimer |-> FALSE, active |-> FALSE, pointer |-> FALSE,
                  hovered |-> FALSE, held |-> FALSE, heard |-> {},
                  enabled |-> Sources, list |-> lists, urgency |-> ranks, seen |-> {}, discarding |-> {},
                  watched |-> FALSE, away |-> FALSE, blocked |-> FALSE, mode |-> TRUE,
                  busy |-> FALSE, fullscreen |-> FALSE, quiet |-> FALSE]
      BY DEF Init
    <2> HIDE DEF lists, ranks
    <2> QED BY <1>1, <2>1, <2>2 DEF Desk
  <1>4. InTray(desk) = {}
    BY <1>1, <1>2 DEF InTray
  <1>5. Listing(desk)
    BY <1>1, <1>2, <1>3, TrayAssumption DEF Listing
  <1>6. Tidy(desk) /\ Haunted(desk, muted) /\ Past(desk)
    BY <1>1, <1>2, <1>4 DEF Tidy, Haunted, Past
  <1>7. Counted
    BY TrayAssumption DEF Init, Counted
  <1> QED BY <1>5, <1>6, <1>7 DEF Order, Sound

\* Whatever apps, timers and the person do, the tray and the sources stay in order.
THEOREM StaysInOrder == Spec => []Order
  <1>1. Order /\ [Next]_vars => Order'
    BY NextGoesOn, NothingGoesOn DEF Onward, Keeping, Order
  <1> QED BY <1>1, BeginsInOrder, PTL DEF Spec

(* Type correctness of the tray, its sources and the desktop around them; no source keeps more *)
(* than it may: Source.addNotification makes room before it adds.                              *)
THEOREM StaysTyped == Spec => []TypeOK
  <1>1. Order => TypeOK
    BY DEF Order, Sound, Listing, Counted, TypeOK
  <1> QED BY <1>1, StaysInOrder, PTL

(* The tray lets go of what was destroyed: onNotificationRemoved takes it from the queue, or   *)
(* takes its banner down, in the same step that takes it from its source's list.               *)
THEOREM HoldsNoGhosts == Spec => []NoGhosts
  <1>1. Order => NoGhosts
    BY DEF Order, Sound, Tidy, Haunted, Past, NoGhosts
  <1> QED BY <1>1, StaysInOrder, PTL

(* updateState is called wherever something may come to show, and shows it, unless it takes a  *)
(* removed notification's banner down.                                                         *)
THEOREM ShowsWhatItCan == Spec => WaitsOnlyBehindRemoved
  <1>1. Order /\ [Next]_vars => Restful(desk, desk')
    BY NextGoesOn, NothingGoesOn DEF Onward, Keeping, Orderly
  <1> QED BY <1>1, StaysInOrder, PTL DEF Spec, WaitsOnlyBehindRemoved, Restful

(* updateState drops from the queue what was acknowledged, onNotificationRemoved what is gone, *)
(* and showNotification what it shows; sorting the queue drops nothing.                        *)
THEOREM SkipsNothing == Spec => NothingSkipped
  <1>1. Order /\ [Next]_vars => Taken(desk, desk')
    BY NextGoesOn, NothingGoesOn DEF Onward, Keeping, Orderly
  <1>2. Order /\ [Next]_vars =>
           \A n \in Range(desk.queue) \ Range(desk'.queue) :
              n = desk'.shown \/ n \in desk.seen \/ n \notin Live(desk')
    BY <1>1 DEF Taken
  <1> QED BY <1>2, StaysInOrder, PTL DEF Spec, NothingSkipped
=============================================================================
