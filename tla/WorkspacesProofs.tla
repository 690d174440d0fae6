--------------------------- MODULE WorkspacesProofs ---------------------------
(***************************************************************************)
(* Workspaces' invariants, and what looking takes from the person, for any *)
(* windows and apps and any number of workspaces.                          *)
(*                                                                         *)
(* All that happens besides Check leaves the tracker something to look at, *)
(* so what OneFree says has to follow from one look alone: from which      *)
(* places are flagged, which of them go, and where the others come to be.  *)
(***************************************************************************)
EXTENDS Workspaces, FiltersProofs

(* What is kept, of any desk. *)

Apart(d) ==
    \A p, q \in Places(d) :
       /\ p # q => d.workspaces[p].windows \cap d.workspaces[q].windows = {}
       /\ d.workspaces[p].windows \cap d.sticky = {}

Typed(d) ==
    /\ d \in Desk
    /\ Len(d.workspaces) \in 1..MaxWorkspaces /\ d.active \in Places(d)
    /\ Apart(d)

LEMMA TypingIsTyped == TypeOK <=> Typed(desk)
  BY DEF TypeOK, Typed, Apart

LEMMA FunctionIsList ==
    ASSUME NEW S, NEW n \in Nat, NEW f \in [1..n -> S]
    PROVE  f \in Seq(S) /\ Len(f) = n /\ DOMAIN f = 1..n
  OBVIOUS

LEMMA DeskFacts ==
    ASSUME NEW d, d \in Desk
    PROVE  /\ d.workspaces \in Seq(Workspace) /\ Len(d.workspaces) \in Nat
           /\ Places(d) = 1..Len(d.workspaces)
           /\ \A p \in Places(d) : /\ d.workspaces[p] \in Workspace
                                   /\ d.workspaces[p].windows \subseteq Windows
                                   /\ d.workspaces[p].last \in {"none", "fleeting", "other"}
           /\ d.starting \in [Apps -> Nat] /\ d.sticky \subseteq Windows /\ d.active \in Nat
           /\ d.check \in {"none", "queued", "broken"} /\ d.blocks \in 0..MaxBlocks
           /\ d.gone \in BOOLEAN /\ d.full \in BOOLEAN
  <1>1. d.workspaces \in Seq(Workspace) /\ \A p \in DOMAIN d.workspaces : d.workspaces[p] \in Workspace
    BY DEF Desk
  <1> QED BY <1>1 DEF Desk, Workspace, Places

LEMMA FreshType == Fresh \in Workspace /\ Fresh.windows = {} /\ Fresh.last = "none"
  BY DEF Fresh, Workspace

\* Whatever is told to the tracker makes it look, unless it broke.
LEMMA QueuedFacts ==
    ASSUME NEW d, d \in Desk
    PROVE  LET x == Queued(d)
           IN /\ x \in Desk
              /\ x.workspaces = d.workspaces /\ x.active = d.active /\ x.sticky = d.sticky
              /\ x.starting = d.starting /\ x.full = d.full /\ x.gone = d.gone /\ x.blocks = d.blocks
              /\ x.check = IF d.check = "none" THEN "queued" ELSE d.check
              /\ Typed(d) => Typed(x)
  <1> DEFINE x == Queued(d)
  <1>1. x = [d EXCEPT !.check = IF d.check = "none" THEN "queued" ELSE d.check]
    BY DEF Queued, Desk
  <1>2. /\ x \in Desk
        /\ x.workspaces = d.workspaces /\ x.active = d.active /\ x.sticky = d.sticky
        /\ x.starting = d.starting /\ x.full = d.full /\ x.gone = d.gone /\ x.blocks = d.blocks
        /\ x.check = IF d.check = "none" THEN "queued" ELSE d.check
    BY <1>1 DEF Desk
  <1> HIDE DEF x
  <1>3. Typed(d) => Typed(x)
    BY <1>2 DEF Typed, Apart, Places
  <1> QED BY <1>2, <1>3 DEF x

\* What the tracker is told of: the desk changed to another, and it has to look.
Told(d, x) == Typed(x) /\ x.check = IF d.check = "none" THEN "queued" ELSE d.check

LEMMA ToldQueued ==
    ASSUME NEW d, NEW x, Typed(x), x.check = d.check
    PROVE  Told(d, Queued(x))
  BY QueuedFacts DEF Told, Typed

-----------------------------------------------------------------------------
(* Windows come and go. *)

LEMMA RemovedFacts ==
    ASSUME NEW d, NEW w \in Windows, Typed(d)
    PROVE  LET x == Removed(d, w)
           IN /\ Told(d, x) /\ w \notin Open(x)
              /\ Places(x) = Places(d) /\ x.active = d.active
  <1> DEFINE ws == Without(d, w)
  <1> DEFINE n == Len(d.workspaces)
  <1>1. /\ d \in Desk /\ n \in Nat /\ Places(d) = 1..n /\ Places(d) = DOMAIN d.workspaces
        /\ \A p \in Places(d) : d.workspaces[p] \in Workspace
      BY DeskFacts DEF Typed, Places
  <1>2. Kind(w) \in {"none", "fleeting", "other"}
    BY DEF Kind
  <1>3. \A p \in 1..n : ws[p] = IF w \in d.sticky \cup d.workspaces[p].windows
                               THEN [windows |-> d.workspaces[p].windows \ {w}, last |-> Kind(w)]
                               ELSE d.workspaces[p]
    BY <1>1 DEF Without
  <1>4. \A p \in 1..n : ws[p] \in Workspace /\ ws[p].windows = d.workspaces[p].windows \ {w}
    <2> SUFFICES ASSUME NEW p \in 1..n
                 PROVE  ws[p] \in Workspace /\ ws[p].windows = d.workspaces[p].windows \ {w}
      OBVIOUS
    <2> DEFINE k == d.workspaces[p]
    <2>1. k \in Workspace /\ ws[p] = IF w \in d.sticky \cup k.windows
                                     THEN [windows |-> k.windows \ {w}, last |-> Kind(w)] ELSE k
      BY <1>1, <1>3
    <2> HIDE DEF k, ws
    <2>2. CASE w \in d.sticky \cup k.windows
      BY <1>2, <2>1, <2>2 DEF Workspace, k
    <2>3. CASE w \notin d.sticky \cup k.windows
      BY <2>1, <2>3 DEF k
    <2> QED BY <2>2, <2>3
  <1>5. ws \in [1..n -> Workspace]
    <2>1. ws = [p \in 1..n |-> ws[p]]
      BY <1>1 DEF Without
    <2> HIDE DEF ws
    <2> QED BY <1>4, <2>1
  <1>6. ws \in Seq(Workspace) /\ Len(ws) = n /\ DOMAIN ws = 1..n
    BY <1>1, <1>5, FunctionIsList
  <1> HIDE DEF ws
  <1> DEFINE y == [d EXCEPT !.sticky = d.sticky \ {w}, !.workspaces = ws]
  <1>7. /\ y \in Desk /\ y.workspaces = ws /\ y.sticky = d.sticky \ {w} /\ y.active = d.active
        /\ y.check = d.check
    BY <1>1, <1>6 DEF Desk
  <1>8. Removed(d, w) = Queued(y)
    <2>1. Removed(d, w) = Queued([d EXCEPT !.sticky = @ \ {w}, !.workspaces = ws])
      BY DEF Removed, ws
    <2>2. [d EXCEPT !.sticky = @ \ {w}, !.workspaces = ws] = y
      BY <1>1 DEF Desk
    <2> QED BY <2>1, <2>2
  <1> HIDE DEF y
  <1>9. Places(y) = Places(d)
    BY <1>1, <1>6, <1>7 DEF Places
  <1>10. Typed(y)
    <2>1. Apart(d) /\ Len(ws) \in 1..MaxWorkspaces /\ d.active \in Places(d)
      BY <1>6 DEF Typed
    <2>2. Apart(y)
      <3> SUFFICES ASSUME NEW p \in Places(d), NEW q \in Places(d)
                   PROVE  /\ p # q => y.workspaces[p].windows \cap y.workspaces[q].windows = {}
                          /\ y.workspaces[p].windows \cap y.sticky = {}
        BY <1>9 DEF Apart
      <3>1. /\ y.workspaces[p].windows = d.workspaces[p].windows \ {w}
            /\ y.workspaces[q].windows = d.workspaces[q].windows \ {w}
        BY <1>1, <1>4, <1>7
      <3>2. /\ p # q => d.workspaces[p].windows \cap d.workspaces[q].windows = {}
            /\ d.workspaces[p].windows \cap d.sticky = {}
        BY <2>1 DEF Apart
      <3> QED BY <1>7, <3>1, <3>2
    <2> QED BY <1>7, <1>9, <2>1, <2>2 DEF Typed
  <1>11. w \notin Open(y)
    BY <1>1, <1>4, <1>7, <1>9 DEF Open, OnOne
  <1>12. Told(d, Queued(y))
    BY <1>7, <1>10, ToldQueued
  <1>13. Open(Queued(y)) = Open(y) /\ Places(Queued(y)) = Places(y) /\ Queued(y).active = y.active
    BY <1>7, QueuedFacts DEF Open, OnOne, Places
  <1> QED BY <1>7, <1>8, <1>9, <1>11, <1>12, <1>13

LEMMA AddedFacts ==
    ASSUME NEW d, NEW w \in Windows, NEW p \in Places(d), Typed(d), w \notin Open(d)
    PROVE  Told(d, Added(d, w, p))
  <1> DEFINE n == Len(d.workspaces)
  <1> DEFINE k == [d.workspaces[p] EXCEPT !.windows = d.workspaces[p].windows \cup {w}]
  <1> DEFINE ws == [d.workspaces EXCEPT ![p] = k]
  <1>1. /\ d \in Desk /\ n \in Nat /\ Places(d) = 1..n /\ DOMAIN d.workspaces = 1..n
        /\ \A q \in 1..n : d.workspaces[q] \in Workspace
        /\ d.workspaces \in Seq(Workspace)
      BY DeskFacts DEF Typed, Places
  <1>2. k \in Workspace /\ k.windows = d.workspaces[p].windows \cup {w}
    BY <1>1 DEF Workspace
  <1> HIDE DEF k
  <1>3. /\ ws \in Seq(Workspace) /\ Len(ws) = n /\ DOMAIN ws = 1..n
        /\ \A q \in 1..n : ws[q] = IF q = p THEN k ELSE d.workspaces[q]
    BY <1>1, <1>2
  <1>4. \A q \in 1..n : ws[q].windows = IF q = p THEN d.workspaces[q].windows \cup {w} ELSE d.workspaces[q].windows
    BY <1>2, <1>3
  <1> HIDE DEF ws
  <1> DEFINE y == [d EXCEPT !.workspaces = ws]
  <1>5. y \in Desk /\ y.workspaces = ws /\ y.sticky = d.sticky /\ y.active = d.active /\ y.check = d.check
    BY <1>1, <1>3 DEF Desk
  <1>6. Added(d, w, p) = Queued(y)
    <2>1. [d EXCEPT !.workspaces[p].windows = @ \cup {w}] = y
      BY <1>1 DEF Desk, ws, k
    <2> QED BY <2>1 DEF Added
  <1> HIDE DEF y
  <1>7. Places(y) = Places(d)
    BY <1>1, <1>3, <1>5 DEF Places
  <1>8. /\ \A q \in Places(d) : w \notin d.workspaces[q].windows
        /\ w \notin d.sticky
    BY DEF Open, OnOne
  <1>9. Apart(y)
    <2> SUFFICES ASSUME NEW q \in Places(d), NEW r \in Places(d)
                 PROVE  /\ q # r => y.workspaces[q].windows \cap y.workspaces[r].windows = {}
                        /\ y.workspaces[q].windows \cap y.sticky = {}
      BY <1>7 DEF Apart
    <2>1. /\ y.workspaces[q].windows = IF q = p THEN d.workspaces[q].windows \cup {w} ELSE d.workspaces[q].windows
          /\ y.workspaces[r].windows = IF r = p THEN d.workspaces[r].windows \cup {w} ELSE d.workspaces[r].windows
      BY <1>1, <1>4, <1>5
    <2>2. /\ q # r => d.workspaces[q].windows \cap d.workspaces[r].windows = {}
          /\ d.workspaces[q].windows \cap d.sticky = {}
      BY DEF Apart, Typed
    <2> QED BY <1>5, <1>8, <2>1, <2>2
  <1>10. Typed(y)
    BY <1>3, <1>5, <1>7, <1>9 DEF Typed
  <1> QED BY <1>5, <1>6, <1>10, ToldQueued

\* Looking is still to come, however often the tracker is told.
LEMMA ToldAgain ==
    ASSUME NEW d, NEW x, NEW y, d \in Desk, Told(d, x), Told(x, y) PROVE Told(d, y)
  BY DEF Told, Desk

\* A change of something besides the workspaces.
LEMMA ChangedAround ==
    ASSUME NEW d, NEW x, Typed(d), x \in Desk, x.workspaces = d.workspaces, x.active \in Places(d),
           x.sticky = d.sticky
    PROVE  Typed(x)
  <1>1. Places(x) = Places(d)
    BY DEF Places
  <1>2. Apart(x)
    BY <1>1 DEF Apart, Typed
  <1> QED BY <1>1, <1>2 DEF Typed

LEMMA OpenWindowTells ==
    ASSUME TypeOK, NEW w \in Windows, OpenWindow(w)
    PROVE  Told(desk, desk')
  <1>1. Typed(desk) /\ desk \in Desk /\ w \notin Open(desk)
    BY TypingIsTyped DEF Typed, OpenWindow
  <1> DEFINE n == Len(desk.workspaces)
  <1> DEFINE more(p) == [i \in 1..(IF p > n THEN p - n ELSE 0) |-> Fresh]
  <1>2. PICK p \in 1..MaxWorkspaces :
           desk' = Added([desk EXCEPT !.workspaces = @ \o more(p)], w, p)
    BY DEF OpenWindow
  <1> DEFINE m == IF p > n THEN p - n ELSE 0
  <1>3. /\ n \in 1..MaxWorkspaces /\ Places(desk) = 1..n /\ DOMAIN desk.workspaces = 1..n
        /\ desk.workspaces \in Seq(Workspace) /\ desk.active \in 1..n
    BY <1>1, DeskFacts DEF Typed, Places
  <1>4. m \in Nat /\ n + m \in 1..MaxWorkspaces /\ p \in 1..(n + m) /\ n \in Nat
    <2> HIDE DEF n
    <2>1. CASE p > n
      BY <1>3, <2>1, WorkspacesAssumption
    <2>2. CASE ~(p > n)
      BY <1>3, <2>2, WorkspacesAssumption
    <2> QED BY <2>1, <2>2
  <1>5. more(p) \in Seq(Workspace) /\ Len(more(p)) = m /\ \A i \in 1..m : more(p)[i] = Fresh
    <2>1. more(p) \in [1..m -> Workspace]
      BY FreshType
    <2> QED BY <1>4, <2>1, FunctionIsList
  <1> HIDE DEF m
  <1> DEFINE ws == desk.workspaces \o more(p)
  <1>6. /\ ws \in Seq(Workspace) /\ Len(ws) = n + m /\ DOMAIN ws = 1..(n + m)
        /\ \A i \in 1..(n + m) : ws[i] = IF i <= n THEN desk.workspaces[i] ELSE Fresh
    <2> HIDE DEF more
    <2>1. \A i \in 1..(n + m) : ~(i <= n) => i - n \in 1..m
      BY <1>3, <1>4
    <2>2. /\ ws \in Seq(Workspace) /\ Len(ws) = n + m /\ DOMAIN ws = 1..(n + m)
          /\ \A i \in 1..(n + m) : ws[i] = IF i <= n THEN desk.workspaces[i] ELSE more(p)[i - n]
      <3> DEFINE more2 == more(p)
      <3>1. more2 \in Seq(Workspace) /\ Len(more2) = m
        BY <1>5
      <3> HIDE DEF more2
      <3> DEFINE old == desk.workspaces
      <3>2. old \in Seq(Workspace) /\ Len(old) = n
        BY <1>3
      <3> HIDE DEF old, n
      <3>3. /\ old \o more2 \in Seq(Workspace) /\ Len(old \o more2) = Len(old) + Len(more2)
            /\ DOMAIN (old \o more2) = 1..(Len(old) + Len(more2))
            /\ \A i \in 1..(Len(old) + Len(more2)) :
                  (old \o more2)[i] = IF i <= Len(old) THEN old[i] ELSE more2[i - Len(old)]
        BY <3>1, <3>2, ConcatFacts
      <3> QED BY <3>1, <3>2, <3>3 DEF old, more2
    <2> HIDE DEF ws, n
    <2> QED BY <1>5, <2>1, <2>2
  <1> HIDE DEF ws, more
  <1> DEFINE x == [desk EXCEPT !.workspaces = ws]
  <1>7. /\ x \in Desk /\ x.workspaces = ws /\ x.sticky = desk.sticky /\ x.active = desk.active
        /\ x.check = desk.check
    BY <1>1, <1>6 DEF Desk
  <1>8. desk' = Added(x, w, p)
    BY <1>2 DEF ws
  <1> HIDE DEF x
  <1>9. Places(x) = 1..(n + m) /\ \A i \in 1..(n + m) :
           x.workspaces[i].windows = IF i <= n THEN desk.workspaces[i].windows ELSE {}
    BY <1>6, <1>7, FreshType DEF Places
  <1>10. Apart(x)
    <2> SUFFICES ASSUME NEW q \in Places(x), NEW r \in Places(x)
                 PROVE  /\ q # r => x.workspaces[q].windows \cap x.workspaces[r].windows = {}
                        /\ x.workspaces[q].windows \cap x.sticky = {}
      BY DEF Apart
    <2>1. \A i \in 1..(n + m) : i <= n => i \in Places(desk)
      BY <1>3, <1>4
    <2>2. Apart(desk)
      BY <1>1 DEF Typed
    <2>3. CASE q > n \/ r > n
      BY <1>3, <1>4, <1>7, <1>9, <2>1, <2>2, <2>3 DEF Apart
    <2>4. CASE q <= n /\ r <= n
      BY <1>3, <1>4, <1>7, <1>9, <2>1, <2>2, <2>4 DEF Apart
    <2> QED BY <1>3, <1>4, <1>9, <2>3, <2>4
  <1>11. Typed(x)
    <2>1. x.active \in Places(x)
      BY <1>3, <1>4, <1>7, <1>9
    <2>2. Len(x.workspaces) \in 1..MaxWorkspaces
      BY <1>4, <1>6, <1>7
    <2> QED BY <1>7, <1>10, <2>1, <2>2 DEF Typed
  <1>12. w \notin Open(x)
    BY <1>1, <1>3, <1>4, <1>7, <1>9 DEF Open, OnOne
  <1>13. Told(x, desk')
    BY <1>4, <1>8, <1>9, <1>11, <1>12, AddedFacts
  <1> QED BY <1>7, <1>13 DEF Told

LEMMA CloseWindowTells ==
    ASSUME TypeOK, NEW w \in Windows, CloseWindow(w) PROVE Told(desk, desk')
  BY TypingIsTyped, RemovedFacts DEF CloseWindow

LEMMA MoveWindowTells ==
    ASSUME TypeOK, NEW w \in Windows, NEW p \in Places(desk), MoveWindow(w, p) PROVE Told(desk, desk')
  <1> DEFINE x == Removed(desk, w)
  <1>1. Typed(desk) /\ desk \in Desk
    BY TypingIsTyped DEF Typed
  <1>2. Told(desk, x) /\ w \notin Open(x) /\ p \in Places(x)
    BY <1>1, RemovedFacts
  <1>3. desk' = Added(x, w, p)
    BY DEF MoveWindow
  <1> HIDE DEF x
  <1>4. Told(x, desk')
    BY <1>2, <1>3, AddedFacts DEF Told
  <1> QED BY <1>1, <1>2, <1>4, ToldAgain

LEMMA StickTells ==
    ASSUME TypeOK, NEW w \in Windows, Stick(w) PROVE Told(desk, desk')
  <1> DEFINE x == Removed(desk, w)
  <1>1. Typed(desk) /\ desk \in Desk
    BY TypingIsTyped DEF Typed
  <1>2. Told(desk, x) /\ w \notin Open(x)
    BY <1>1, RemovedFacts
  <1>3. desk' = [x EXCEPT !.sticky = @ \cup {w}]
    BY DEF Stick
  <1> HIDE DEF x
  <1>4. Typed(x) /\ x \in Desk
    BY <1>2 DEF Told, Typed
  <1>5. /\ desk' \in Desk /\ (desk').workspaces = x.workspaces /\ (desk').active = x.active
        /\ (desk').sticky = x.sticky \cup {w} /\ (desk').check = x.check
    BY <1>3, <1>4 DEF Desk
  <1>6. Apart(desk')
    <2>1. \A q \in Places(x) : w \notin x.workspaces[q].windows
      BY <1>2 DEF Open, OnOne
    <2> QED BY <1>4, <1>5, <2>1 DEF Apart, Typed, Places
  <1>7. Typed(desk')
    BY <1>4, <1>5, <1>6 DEF Typed, Places
  <1> QED BY <1>2, <1>5, <1>7 DEF Told

LEMMA UnstickTells ==
    ASSUME TypeOK, NEW w \in Windows, Unstick(w) PROVE Told(desk, desk')
  <1> DEFINE x == Removed(desk, w)
  <1>1. Typed(desk) /\ desk \in Desk /\ desk.active \in Places(desk)
    BY TypingIsTyped DEF Typed
  <1>2. Told(desk, x) /\ w \notin Open(x) /\ desk.active \in Places(x)
    BY <1>1, RemovedFacts
  <1>3. desk' = Added(x, w, desk.active)
    BY DEF Unstick
  <1> HIDE DEF x
  <1>4. Told(x, desk')
    BY <1>2, <1>3, AddedFacts DEF Told
  <1> QED BY <1>1, <1>2, <1>4, ToldAgain

LEMMA MoveBeforeFirstTells ==
    ASSUME TypeOK, NEW w \in Windows, MoveBeforeFirst(w) PROVE Told(desk, desk')
  <1> DEFINE n == Len(desk.workspaces)
  <1> DEFINE on(p) == desk.workspaces[p].windows
  <1> DEFINE ws(last) ==
          [p \in 1..(n + 1) |->
             [windows |-> IF p = 1 THEN {w} ELSE on(p - 1) \ {w},
              last    |-> IF p = 2 THEN Kind(w) ELSE IF p > n THEN "none" ELSE last[p]]]
  <1>1. Typed(desk) /\ desk \in Desk /\ desk.active = 1 /\ w \in on(1) /\ n < MaxWorkspaces
    BY TypingIsTyped DEF Typed, MoveBeforeFirst, Room
  <1>2. PICK last \in [1..n -> {"none", "fleeting", "other"}],
             blocks \in {desk.blocks, desk.blocks + 1} \cap (1..MaxBlocks) :
           desk' = Queued([desk EXCEPT !.prepended = TRUE, !.blocks = blocks, !.workspaces = ws(last)])
    <2>1. PICK last \in [1..n -> {"none", "fleeting", "other"}],
               blocks \in {desk.blocks, desk.blocks + 1} \cap (1..MaxBlocks) :
             desk' = Queued([desk EXCEPT !.workspaces = Prepended(desk, w, last),
                                         !.prepended = TRUE, !.blocks = blocks])
      BY DEF MoveBeforeFirst
    <2>2. Prepended(desk, w, last) = ws(last)
      BY DEF Prepended
    <2> DEFINE ks == ws(last)
    <2> HIDE DEF ws
    <2>3. [desk EXCEPT !.workspaces = ks, !.prepended = TRUE, !.blocks = blocks]
            = [desk EXCEPT !.prepended = TRUE, !.blocks = blocks, !.workspaces = ks]
      BY <1>1 DEF Desk
    <2> QED BY <2>1, <2>2, <2>3
  <1>3. /\ n \in Nat /\ n >= 1 /\ n + 1 \in 1..MaxWorkspaces /\ Places(desk) = 1..n /\ DOMAIN desk.workspaces = 1..n
        /\ \A p \in 1..n : on(p) \subseteq Windows
    BY <1>1, DeskFacts, WorkspacesAssumption DEF Typed, Places
  <1> DEFINE ks == ws(last)
  <1> DEFINE new(p) == IF p = 1 THEN {w} ELSE on(p - 1) \ {w}
  <1>4. \A p \in 1..(n + 1) : p # 1 => p - 1 \in 1..n
    BY <1>3
  <1>5. \A p \in 1..(n + 1) : ks[p] \in Workspace /\ ks[p].windows = new(p)
    <2> SUFFICES ASSUME NEW p \in 1..(n + 1) PROVE ks[p] \in Workspace /\ ks[p].windows = new(p)
      OBVIOUS
    <2> DEFINE l == IF p = 2 THEN Kind(w) ELSE IF p > n THEN "none" ELSE last[p]
    <2>1. l \in {"none", "fleeting", "other"}
      BY <1>3 DEF Kind
    <2>2. ks[p] = [windows |-> new(p), last |-> l]
      OBVIOUS
    <2>3. new(p) \in SUBSET Windows
      BY <1>3, <1>4
    <2> HIDE DEF l, new, ks
    <2> QED BY <2>1, <2>2, <2>3 DEF Workspace
  <1>6. ks \in Seq(Workspace) /\ Len(ks) = n + 1 /\ DOMAIN ks = 1..(n + 1)
    <2>1. ks = [p \in 1..(n + 1) |-> ks[p]]
      OBVIOUS
    <2> HIDE DEF ks
    <2>2. ks \in [1..(n + 1) -> Workspace]
      BY <1>5, <2>1
    <2>3. n + 1 \in Nat
      BY <1>3
    <2> QED BY <2>2, <2>3, FunctionIsList
  <1> DEFINE x == [desk EXCEPT !.prepended = TRUE, !.blocks = blocks, !.workspaces = ks]
  <1>7. desk' = Queued(x) /\ blocks \in 0..MaxBlocks
    BY <1>2, WorkspacesAssumption
  <1> HIDE DEF ks
  <1>8. /\ x \in Desk /\ x.workspaces = ks /\ x.sticky = desk.sticky /\ x.active = desk.active
        /\ x.check = desk.check
    BY <1>1, <1>6, <1>7 DEF Desk
  <1> HIDE DEF x
  <1>9. Places(x) = 1..(n + 1)
    BY <1>6, <1>8 DEF Places
  <1>10. Apart(x)
    <2> SUFFICES ASSUME NEW q \in 1..(n + 1), NEW r \in 1..(n + 1)
                 PROVE  /\ q # r => new(q) \cap new(r) = {}
                        /\ new(q) \cap desk.sticky = {}
      <3>1. \A p \in 1..(n + 1) : x.workspaces[p].windows = new(p)
        BY <1>5, <1>8
      <3> HIDE DEF new, ks
      <3> QED BY <1>8, <1>9, <3>1 DEF Apart
    <2>1. 1 \in Places(desk) /\ w \notin desk.sticky
      BY <1>1, <1>3 DEF Apart, Typed
    <2>2. q # 1 /\ r # 1 /\ q # r => on(q - 1) \cap on(r - 1) = {}
      <3>1. q # 1 /\ r # 1 /\ q # r => q - 1 \in Places(desk) /\ r - 1 \in Places(desk) /\ q - 1 # r - 1
        BY <1>3, <1>4
      <3> QED BY <1>1, <3>1 DEF Apart, Typed
    <2>3. q # 1 => on(q - 1) \cap desk.sticky = {}
      BY <1>1, <1>3, <1>4 DEF Apart, Typed
    <2> HIDE DEF on
    <2> QED BY <2>1, <2>2, <2>3
  <1>11. Typed(x)
    BY <1>1, <1>3, <1>6, <1>8, <1>9, <1>10 DEF Typed
  <1> QED BY <1>7, <1>8, <1>11, ToldQueued

LEMMA ActivateTells ==
    ASSUME TypeOK, NEW p \in Places(desk), Activate(p) PROVE Told(desk, desk')
  <1> DEFINE x == [desk EXCEPT !.active = p]
  <1>1. Typed(desk) /\ desk \in Desk /\ p \in Nat
    BY TypingIsTyped, DeskFacts DEF Typed
  <1>2. /\ x \in Desk /\ x.workspaces = desk.workspaces /\ x.active = p /\ x.sticky = desk.sticky
        /\ x.check = desk.check
    BY <1>1 DEF Desk
  <1>3. desk' = Queued(x)
    BY DEF Activate
  <1> HIDE DEF x
  <1>4. Typed(x)
    BY <1>1, <1>2, ChangedAround
  <1> QED BY <1>2, <1>3, <1>4, ToldQueued

LEMMA GraceEndsTells ==
    ASSUME TypeOK, NEW p \in Places(desk), GraceEnds(p) PROVE Told(desk, desk')
  <1> DEFINE k == [desk.workspaces[p] EXCEPT !.last = "none"]
  <1> DEFINE ws == [desk.workspaces EXCEPT ![p] = k]
  <1>1. /\ Typed(desk) /\ desk \in Desk /\ Len(desk.workspaces) \in Nat
        /\ desk.workspaces \in Seq(Workspace) /\ Places(desk) = DOMAIN desk.workspaces
        /\ desk.workspaces[p] \in Workspace
    BY TypingIsTyped, DeskFacts DEF Typed, Places
  <1>2. k \in Workspace /\ k.windows = desk.workspaces[p].windows
    BY <1>1 DEF Workspace
  <1> HIDE DEF k
  <1>3. /\ ws \in Seq(Workspace) /\ Len(ws) = Len(desk.workspaces) /\ DOMAIN ws = Places(desk)
        /\ \A q \in Places(desk) : ws[q].windows = desk.workspaces[q].windows
    BY <1>1, <1>2
  <1> DEFINE x == [desk EXCEPT !.workspaces = ws]
  <1>4. desk' = Queued(x)
    BY <1>1 DEF GraceEnds, Desk, k
  <1> HIDE DEF ws
  <1>5. /\ x \in Desk /\ x.workspaces = ws /\ x.active = desk.active /\ x.sticky = desk.sticky
        /\ x.check = desk.check
    BY <1>1, <1>3 DEF Desk
  <1> HIDE DEF x
  <1>6. Apart(x) /\ Places(x) = Places(desk)
    BY <1>1, <1>3, <1>5 DEF Apart, Typed, Places
  <1>7. Typed(x)
    BY <1>1, <1>3, <1>5, <1>6 DEF Typed
  <1> QED BY <1>4, <1>5, <1>7, ToldQueued

LEMMA GraceEndsForRemovedTells ==
    ASSUME TypeOK, GraceEndsForRemoved PROVE Told(desk, desk')
  <1>1. Typed(desk) /\ desk \in Desk
    BY TypingIsTyped DEF Typed
  <1>2. PICK more \in BOOLEAN : desk' = Queued([desk EXCEPT !.gone = more])
    BY DEF GraceEndsForRemoved
  <1> DEFINE x == [desk EXCEPT !.gone = more]
  <1>3. /\ x \in Desk /\ x.workspaces = desk.workspaces /\ x.active = desk.active /\ x.sticky = desk.sticky
        /\ x.check = desk.check
    BY <1>1 DEF Desk
  <1>4. Typed(x)
    BY <1>1, <1>3, ChangedAround DEF Typed
  <1> HIDE DEF x
  <1> QED BY <1>2, <1>3, <1>4, ToldQueued DEF x

\* An app names a place, or has started.
LEMMA StartingTells ==
    ASSUME TypeOK, NEW a \in Apps, NEW p \in Nat, desk' = Queued([desk EXCEPT !.starting[a] = p])
    PROVE  Told(desk, desk')
  <1>1. Typed(desk) /\ desk \in Desk
    BY TypingIsTyped DEF Typed
  <1> DEFINE x == [desk EXCEPT !.starting[a] = p]
  <1>2. /\ x \in Desk /\ x.workspaces = desk.workspaces /\ x.active = desk.active /\ x.sticky = desk.sticky
        /\ x.check = desk.check
    BY <1>1 DEF Desk
  <1>3. Typed(x)
    BY <1>1, <1>2, ChangedAround DEF Typed
  <1> HIDE DEF x
  <1> QED BY <1>2, <1>3, ToldQueued DEF x

LEMMA StartsTells ==
    ASSUME TypeOK, NEW a \in Apps, Starts(a) \/ Started(a) PROVE Told(desk, desk')
  <1>1. 1..(MaxWorkspaces + 1) \subseteq Nat
    BY WorkspacesAssumption
  <1> QED BY <1>1, StartingTells DEF Starts, Started

-----------------------------------------------------------------------------
(* A look. *)

\* There is a last place.
LEMMA MaxFacts ==
    ASSUME NEW n \in Nat, NEW S \in SUBSET (0..n), S # {}
    PROVE  Max(S) \in S /\ \A y \in S : Max(S) >= y
  <1> DEFINE Has(Z) == \E x \in Z : \A y \in Z : x >= y
  <1> DEFINE T == {k \in Nat : \A Z \in SUBSET (0..k) : Z # {} => Has(Z)}
  <1>1. 0 \in T
    <2> SUFFICES ASSUME NEW Z \in SUBSET (0..0), Z # {} PROVE Has(Z)
      OBVIOUS
    <2>a. \A z \in 0..0 : z = 0
      OBVIOUS
    <2>1. Z = {0}
      BY <2>a
    <2> QED BY <2>1
  <1>2. ASSUME NEW k \in Nat, k \in T PROVE k + 1 \in T
    <2> SUFFICES ASSUME NEW Z \in SUBSET (0..(k + 1)), Z # {} PROVE Has(Z)
      OBVIOUS
    <2>1. CASE k + 1 \in Z
      BY <2>1
    <2>2. CASE k + 1 \notin Z
      <3>1. Z \in SUBSET (0..k)
        BY <2>2
      <3> QED BY <1>2, <3>1
    <2> QED BY <2>1, <2>2
  <1> HIDE DEF T
  <1>3. n \in T
    BY <1>1, <1>2, SetInduction
  <1>4. Has(S)
    BY <1>3 DEF T
  <1> QED BY <1>4 DEF Max

\* What a look works out, one after another: whether there is to be one more workspace, the desk
\* with it, what is flagged, and what goes.
First  == Flags(desk)
More   == ~First[Len(First)] /\ Room(desk)
Looked == IF More THEN Append(First, TRUE) ELSE First
Longer == IF More THEN [desk EXCEPT !.workspaces = Append(@, Fresh)] ELSE desk
Out    == IF Len(Longer.workspaces) = 1 THEN {} ELSE Surplus(Longer, Looked)

LEMMA CheckLooks ==
    ASSUME Check
    PROVE  /\ desk.check = "queued"
           /\ desk' = IF Out \subseteq Places(Longer)
                      THEN [RemoveAll(Longer, Out) EXCEPT !.check = "none",
                                                          !.full = ~First[Len(First)] /\ ~More]
                      ELSE [Longer EXCEPT !.check = "broken"]
  BY DEF Check, Out, Longer, Looked, More, First

LEMMA FirstFacts ==
    ASSUME TypeOK
    PROVE  LET n == Len(desk.workspaces)
               m == IF n + 1 \in Awaited(desk) THEN n + 1 ELSE n
           IN /\ n \in Nat /\ n >= 1 /\ Places(desk) = 1..n
              /\ First \in Seq(BOOLEAN) /\ Len(First) = m /\ DOMAIN First = 1..m
              /\ \A p \in 1..m : First[p] <=> p <= n /\ Empty(desk, p)
  <1> DEFINE n == Len(desk.workspaces)
  <1> DEFINE m == IF n + 1 \in Awaited(desk) THEN n + 1 ELSE n
  <1>1. n \in Nat /\ n >= 1 /\ Places(desk) = 1..n /\ m \in Nat
    BY DeskFacts, TypingIsTyped, WorkspacesAssumption DEF Typed
  <1>2. First = [p \in 1..m |-> p <= n /\ Empty(desk, p)]
    BY DEF First, Flags
  <1> HIDE DEF m
  <1>3. First \in [1..m -> BOOLEAN]
    <2>1. \A p \in 1..m : (p <= n /\ Empty(desk, p)) \in BOOLEAN
      OBVIOUS
    <2> HIDE DEF n
    <2> QED BY <1>2, <2>1
  <1>4. First \in Seq(BOOLEAN) /\ Len(First) = m /\ DOMAIN First = 1..m
    BY <1>1, <1>3, FunctionIsList
  <1>5. \A p \in 1..m : First[p] <=> p <= n /\ Empty(desk, p)
    BY <1>2
  <1> QED BY <1>1, <1>4, <1>5 DEF m

LEMMA LongerFacts ==
    ASSUME TypeOK
    PROVE  LET n == Len(desk.workspaces)
               N == IF More THEN n + 1 ELSE n
           IN /\ Typed(Longer) /\ Longer.active = desk.active /\ Longer.starting = desk.starting
              /\ Longer.check = desk.check /\ Longer.sticky = desk.sticky
              /\ Len(Longer.workspaces) = N /\ Places(Longer) = 1..N
              /\ \A p \in 1..n : Longer.workspaces[p] = desk.workspaces[p]
              /\ More => Longer.workspaces = Append(desk.workspaces, Fresh) /\ Longer.workspaces[N] = Fresh
              /\ ~More => Longer.workspaces = desk.workspaces
  <1> DEFINE n == Len(desk.workspaces)
  <1>1. /\ Typed(desk) /\ desk \in Desk /\ desk.workspaces \in Seq(Workspace) /\ n \in Nat
        /\ Places(desk) = 1..n /\ n \in 1..MaxWorkspaces /\ desk.active \in 1..n /\ MaxWorkspaces \in Nat
    BY TypingIsTyped, DeskFacts, WorkspacesAssumption DEF Typed
  <1>2. CASE ~More
    BY <1>1, <1>2 DEF Longer
  <1>3. CASE More
    <2> DEFINE ws == Append(desk.workspaces, Fresh)
    <2>1. /\ ws \in Seq(Workspace) /\ Len(ws) = n + 1 /\ DOMAIN ws = 1..(n + 1)
          /\ ws[n + 1] = Fresh /\ \A p \in 1..n : ws[p] = desk.workspaces[p]
      BY <1>1, FreshType
    <2>2. Longer = [desk EXCEPT !.workspaces = ws]
      BY <1>1, <1>3 DEF Longer
    <2> HIDE DEF ws, n
    <2>3. /\ Longer \in Desk /\ Longer.workspaces = ws /\ Longer.active = desk.active
          /\ Longer.starting = desk.starting /\ Longer.check = desk.check /\ Longer.sticky = desk.sticky
      BY <1>1, <2>1, <2>2 DEF Desk
    <2>4. n + 1 \in 1..MaxWorkspaces
      <3>1. n < MaxWorkspaces
        BY <1>3 DEF More, Room, n
      <3> QED BY <1>1, <3>1
    <2>5. Places(Longer) = 1..(n + 1) /\ \A p \in 1..(n + 1) : p \notin 1..n => p = n + 1
      BY <1>1, <2>1, <2>3 DEF Places
    <2>6. Apart(Longer)
      <3> SUFFICES ASSUME NEW p \in 1..(n + 1), NEW q \in 1..(n + 1)
                   PROVE  /\ p # q => Longer.workspaces[p].windows \cap Longer.workspaces[q].windows = {}
                          /\ Longer.workspaces[p].windows \cap Longer.sticky = {}
        BY <2>5 DEF Apart
      <3>1. CASE p = n + 1 \/ q = n + 1
        BY <1>1, <2>1, <2>3, <2>5, <3>1, FreshType DEF Apart, Typed
      <3>2. CASE p \in 1..n /\ q \in 1..n
        BY <1>1, <2>1, <2>3, <3>2 DEF Apart, Typed
      <3> QED BY <2>5, <3>1, <3>2
    <2>7. desk.active \in 1..(n + 1)
      BY <1>1
    <2>8. Typed(Longer)
      BY <2>1, <2>3, <2>4, <2>5, <2>6, <2>7 DEF Typed
    <2> QED BY <1>3, <2>1, <2>3, <2>5, <2>8 DEF n, ws
  <1> QED BY <1>2, <1>3

\* Whatever is flagged has no windows. When no app names a place, every free one is flagged.
LEMMA LookedFacts ==
    ASSUME TypeOK
    PROVE  /\ \A p \in Places(Longer) : Looked[p] => Longer.workspaces[p].windows = {}
           /\ DOMAIN Looked = 1..Len(Looked) /\ Len(Looked) \in Nat /\ Places(Longer) \subseteq DOMAIN Looked
           /\ Awaited(desk) \subseteq {0} =>
                 /\ DOMAIN Looked = Places(Longer)
                 /\ \A p \in Places(Longer) : Looked[p] <=> Empty(Longer, p)
                 /\ ~Looked[Len(Looked)] => ~First[Len(First)] /\ ~More
  <1> DEFINE n == Len(desk.workspaces)
  <1> DEFINE m == IF n + 1 \in Awaited(desk) THEN n + 1 ELSE n
  <1> DEFINE N == IF More THEN n + 1 ELSE n
  <1> DEFINE M == IF More THEN m + 1 ELSE m
  <1>1. /\ n \in Nat /\ n >= 1 /\ First \in Seq(BOOLEAN) /\ Len(First) = m /\ DOMAIN First = 1..m
        /\ \A p \in 1..m : First[p] <=> p <= n /\ Empty(desk, p)
    BY FirstFacts
  <1>2. /\ Places(Longer) = 1..N /\ \A p \in 1..n : Longer.workspaces[p] = desk.workspaces[p]
        /\ More => Longer.workspaces[N] = Fresh
        /\ Longer.starting = desk.starting
    BY LongerFacts
  <1>3. \A p \in 1..n : Empty(Longer, p) <=> Empty(desk, p)
    BY <1>2 DEF Empty, InGrace, Awaited
  <1>4. m \in Nat /\ N \in Nat /\ M \in Nat /\ m >= n /\ N >= n /\ M >= N /\ M >= m
    BY <1>1
  <1>5. /\ Len(Looked) = M /\ DOMAIN Looked = 1..M
        /\ \A p \in 1..m : Looked[p] <=> First[p]
        /\ More => (Looked[m + 1] <=> TRUE)
    <2> HIDE DEF m
    <2>1. CASE More
      BY <1>1, <1>4, <2>1 DEF Looked
    <2>2. CASE ~More
      BY <1>1, <1>4, <2>2 DEF Looked
    <2> QED BY <2>1, <2>2
  <1>6. ASSUME NEW p \in 1..N, Looked[p] PROVE Longer.workspaces[p].windows = {}
    <2>1. CASE p <= n
      <3>1. p \in 1..n /\ p \in 1..m
        BY <1>4, <2>1
      <3>2. Empty(desk, p)
        BY <1>1, <1>5, <1>6, <3>1
      <3> QED BY <1>2, <3>1, <3>2 DEF Empty
    <2>2. CASE ~(p <= n)
      BY <1>1, <1>2, <1>4, <2>2, FreshType
    <2> QED BY <2>1, <2>2
  <1>7. ASSUME Awaited(desk) \subseteq {0}
        PROVE  /\ M = N /\ m = n
               /\ \A p \in 1..N : Looked[p] <=> Empty(Longer, p)
               /\ ~Looked[M] => ~First[m] /\ ~More
    <2>1. m = n /\ M = N
      BY <1>1, <1>7
    <2>2. ASSUME NEW p \in 1..N PROVE Looked[p] <=> Empty(Longer, p)
      <3>1. CASE p \in 1..n
        BY <1>1, <1>3, <1>5, <2>1, <3>1
      <3>2. CASE p \notin 1..n
        <4>1. More /\ p = n + 1 /\ N = n + 1
          BY <1>1, <2>2, <3>2
        <4>2. Longer.workspaces[p] = Fresh
          BY <1>2, <4>1
        <4>3. Awaited(Longer) = Awaited(desk) /\ p # 0
          BY <1>1, <1>2, <4>1 DEF Awaited
        <4>4. Empty(Longer, p)
          BY <1>7, <4>2, <4>3, FreshType DEF Empty, InGrace
        <4> QED BY <1>5, <2>1, <4>1, <4>4
      <3> QED BY <3>1, <3>2
    <2>3. ASSUME ~Looked[M] PROVE ~First[m] /\ ~More
      BY <1>1, <1>4, <1>5, <2>3
    <2> QED BY <2>1, <2>2, <2>3
  <1> HIDE DEF m, M, N
  <1>8. 1..N \subseteq 1..M
    BY <1>4
  <1> QED BY <1>1, <1>2, <1>4, <1>5, <1>6, <1>7, <1>8

\* The active workspace never goes, and nothing goes that isn't flagged.
LEMMA OutFacts ==
    ASSUME TypeOK
    PROVE  /\ Longer.active \notin Out
           /\ \A p \in Out : p \in DOMAIN Looked /\ Looked[p]
  BY DEF Out, Surplus

\* The workspaces that stay keep their order, and the one that's shown is the same.
Stayed(d, stay, x) ==
    /\ x.workspaces = Picked(d.workspaces, stay)
    /\ x.starting = d.starting
    /\ x.active = Rank(stay, d.active)
    /\ Len(x.workspaces) = Rank(stay, Len(d.workspaces))
    /\ \A p \in stay : Rank(stay, p) \in Places(x) /\ x.workspaces[Rank(stay, p)] = d.workspaces[p]
    /\ \A k \in Places(x) : \E p \in stay : Rank(stay, p) = k

LEMMA RemovingFacts ==
    ASSUME NEW d, NEW places, places \subseteq Places(d), Typed(d), d.active \notin places
    PROVE  Typed(RemoveAll(d, places)) /\ Stayed(d, Places(d) \ places, RemoveAll(d, places))
  <1> DEFINE x == RemoveAll(d, places)
  <1> DEFINE stay == Places(d) \ places
  <1> DEFINE q == d.workspaces
  <1> DEFINE ws == Picked(q, stay)
  <1> DEFINE n == Len(q)
  <1> DEFINE before == {p \in places : p < d.active}
  <1> DEFINE left == d.active - Cardinality(before)
  <1>1. /\ d \in Desk /\ q \in Seq(Workspace) /\ n \in 1..MaxWorkspaces /\ n \in Nat /\ DOMAIN q = 1..n
        /\ Places(d) = 1..n /\ d.active \in stay /\ d.active \in 1..n
    BY DeskFacts DEF Typed, Places
  <1>2. left = Rank(stay, d.active)
    <2> DEFINE a == d.active
    <2>1. a \in Nat /\ a \in 1..n
      BY <1>1
    <2>2. /\ IsFiniteSet(1..a) /\ Cardinality(1..a) = a
      BY <2>1, FS_Interval
    <2>3. (stay \cap (1..a)) \cup before = 1..a /\ (stay \cap (1..a)) \cap before = {}
      <3>1. 1..a \subseteq 1..n
        BY <1>1, <2>1
      <3>2. \A p \in 1..n : p < a => p \in 1..a
        BY <2>1
      <3>3. \A p \in 1..a : p # a => p < a
        BY <2>1
      <3> QED BY <1>1, <2>1, <3>1, <3>2, <3>3
    <2> DEFINE kept == stay \cap (1..a)
    <2> HIDE DEF a, before, kept
    <2>4. kept \cup before = 1..a /\ kept \cap before = {}
      BY <2>3 DEF kept
    <2>5. IsFiniteSet(kept) /\ IsFiniteSet(before)
      <3>1. kept \in SUBSET (1..a) /\ before \in SUBSET (1..a)
        BY <2>4
      <3> QED BY <2>2, <3>1, FS_Subset
    <2>6. Cardinality(kept) \in Nat /\ Cardinality(before) \in Nat
      BY <2>5, FS_CardinalityType
    <2>7. Cardinality(kept \cup before) = Cardinality(kept) + Cardinality(before) - Cardinality(kept \cap before)
      BY <2>5, FS_Union
    <2>8. Cardinality({}) = 0
      BY FS_EmptySet
    <2>9. a = Cardinality(kept) + Cardinality(before)
      <3>1. Cardinality(kept \cup before) = a
        BY <2>2, <2>4
      <3>2. Cardinality(kept \cap before) = 0
        BY <2>4, <2>8
      <3> QED BY <2>1, <2>6, <2>7, <3>1, <3>2
    <2>10. Rank(stay, a) = Cardinality(kept)
      BY DEF Rank, kept
    <2> QED BY <2>1, <2>6, <2>9, <2>10 DEF a
  <1>3. /\ ws \in Seq(Workspace)
        /\ Len(ws) = Rank(stay, n)
        /\ \A p \in DOMAIN q \cap stay : Rank(stay, p) \in DOMAIN ws /\ ws[Rank(stay, p)] = q[p]
        /\ \A k \in DOMAIN ws : \E p \in DOMAIN q \cap stay : Rank(stay, p) = k
    <2> HIDE DEF stay, q
    <2> QED BY <1>1, PickedFacts, PickedRank
  <1>4. DOMAIN q \cap stay = stay
    BY <1>1
  <1> DEFINE some == \E p \in places : d.workspaces[p].last # "none"
  <1> DEFINE gone == d.gone \/ some
  <1>5. gone \in BOOLEAN
    OBVIOUS
  <1> HIDE DEF gone
  <1>6. x = [d EXCEPT !.workspaces = ws, !.active = left, !.gone = gone]
    BY <1>1 DEF RemoveAll, Desk, gone
  <1>7. left \in DOMAIN ws /\ ws[left] = q[d.active] /\ left \in Nat
    <2>1. d.active \in DOMAIN q \cap stay
      BY <1>1
    <2>2. DOMAIN ws \subseteq Nat
      BY <1>3
    <2> HIDE DEF ws, left, q, stay
    <2> QED BY <1>2, <1>3, <2>1, <2>2
  <1> HIDE DEF x, ws, left
  <1>8. /\ x \in Desk /\ x.workspaces = ws /\ x.active = left /\ x.starting = d.starting /\ x.sticky = d.sticky
    BY <1>1, <1>3, <1>5, <1>6, <1>7 DEF Desk
  <1>9. Places(x) = DOMAIN ws
    BY <1>8 DEF Places
  <1>10. Len(ws) \in 1..MaxWorkspaces
    <2>1. Len(ws) \in Nat /\ DOMAIN ws = 1..Len(ws)
      BY <1>3
    <2>2. Len(ws) <= n
      <3>1. IsFiniteSet(1..n) /\ Cardinality(1..n) = n
        BY <1>1, FS_Interval
      <3>2. stay \cap (1..n) \in SUBSET (1..n)
        OBVIOUS
      <3>3. Cardinality(stay \cap (1..n)) <= Cardinality(1..n)
        BY <3>1, <3>2, FS_Subset
      <3> QED BY <1>3, <3>1, <3>3 DEF Rank
    <2>3. Len(ws) >= 1
      BY <1>7, <2>1
    <2> QED BY <1>1, <2>1, <2>2, <2>3, WorkspacesAssumption
  <1>11. Apart(x)
    <2> SUFFICES ASSUME NEW k \in Places(x), NEW l \in Places(x)
                 PROVE  /\ k # l => x.workspaces[k].windows \cap x.workspaces[l].windows = {}
                        /\ x.workspaces[k].windows \cap x.sticky = {}
      BY DEF Apart
    <2>1. PICK p \in stay : Rank(stay, p) = k
      BY <1>3, <1>4, <1>9
    <2>2. PICK r \in stay : Rank(stay, r) = l
      BY <1>3, <1>4, <1>9
    <2>3. x.workspaces[k] = q[p] /\ x.workspaces[l] = q[r] /\ p \in Places(d) /\ r \in Places(d)
      BY <1>3, <1>4, <1>8, <2>1, <2>2
    <2> QED BY <1>8, <2>1, <2>2, <2>3 DEF Apart, Typed
  <1>12. Typed(x)
    BY <1>7, <1>8, <1>9, <1>10, <1>11 DEF Typed
  <1>13. Stayed(d, stay, x)
    BY <1>1, <1>2, <1>3, <1>4, <1>8, <1>9 DEF ws, Stayed
  <1> QED BY <1>12, <1>13 DEF x

\* A look that ends keeps the types, and who is where; one that breaks only adds a workspace.
LEMMA CheckKeeps ==
    ASSUME TypeOK, Check
    PROVE  /\ Typed(desk')
           /\ Used(desk) = Used(desk')
           /\ desk.workspaces[desk.active] = (desk').workspaces[(desk').active]
  <1> DEFINE bare == {k \in Workspace : k.windows = {}}
  <1>1. /\ Typed(Longer) /\ Longer \in Desk /\ Longer.workspaces \in Seq(Workspace)
        /\ Longer.active = desk.active
        /\ Longer.workspaces[desk.active] = desk.workspaces[desk.active]
    <2>1. Typed(desk) /\ desk \in Desk /\ desk.active \in 1..Len(desk.workspaces)
      BY TypingIsTyped, DeskFacts DEF Typed
    <2>2. Typed(Longer) /\ Longer.active = desk.active /\ Longer \in Desk
          /\ \A p \in 1..Len(desk.workspaces) : Longer.workspaces[p] = desk.workspaces[p]
      BY LongerFacts DEF Typed
    <2> QED BY <2>1, <2>2, DeskFacts
  <1>2. Excluding(Longer.workspaces, bare) = Excluding(desk.workspaces, bare)
    <2>1. desk.workspaces \in Seq(Workspace)
      BY TypingIsTyped, DeskFacts DEF Typed
    <2>2. CASE More
      <3>1. Fresh \in bare /\ Fresh \in Workspace
        BY FreshType
      <3>2. Longer.workspaces = Append(desk.workspaces, Fresh)
        BY <2>2, LongerFacts
      <3> HIDE DEF bare
      <3> QED BY <2>1, <3>1, <3>2, ExcludingAppend
    <2>3. CASE ~More
      BY <2>3, LongerFacts
    <2> QED BY <2>2, <2>3
  <1>3. CASE ~(Out \subseteq Places(Longer))
    <2>1. desk' = [Longer EXCEPT !.check = "broken"]
      BY <1>3, CheckLooks
    <2>2. /\ desk' \in Desk /\ (desk').workspaces = Longer.workspaces /\ (desk').active = Longer.active
          /\ (desk').sticky = Longer.sticky
      BY <1>1, <2>1 DEF Desk
    <2>3. Longer.active \in Places(Longer)
      BY <1>1 DEF Typed
    <2>4. Typed(desk')
      BY <1>1, <2>2, <2>3, ChangedAround
    <2> QED BY <1>1, <1>2, <2>2, <2>4 DEF Used
  <1>4. CASE Out \subseteq Places(Longer)
    <2> DEFINE x == RemoveAll(Longer, Out)
    <2> DEFINE stay == Places(Longer) \ Out
    <2> DEFINE full == ~First[Len(First)] /\ ~More
    <2>1. Longer.active \notin Out /\ \A p \in Out : Looked[p]
      BY OutFacts
    <2>2. /\ Typed(x) /\ x.workspaces = Picked(Longer.workspaces, stay)
          /\ x.active = Rank(stay, Longer.active)
          /\ \A p \in stay : x.workspaces[Rank(stay, p)] = Longer.workspaces[p]
      <3>1. Typed(x) /\ Stayed(Longer, stay, x)
        BY <1>1, <1>4, <2>1, RemovingFacts
      <3> QED BY <3>1 DEF Stayed
    <2>3. desk' = [x EXCEPT !.check = "none", !.full = full]
      BY <1>4, CheckLooks
    <2>4. full \in BOOLEAN
      OBVIOUS
    <2> HIDE DEF x, full
    <2>5. x \in Desk /\ x.active \in Places(x)
      BY <2>2 DEF Typed
    <2>6. /\ desk' \in Desk /\ (desk').workspaces = x.workspaces /\ (desk').active = x.active
          /\ (desk').sticky = x.sticky
      BY <2>3, <2>4, <2>5 DEF Desk
    <2>7. Typed(desk')
      BY <2>2, <2>5, <2>6, ChangedAround
    <2>8. Excluding((desk').workspaces, bare) = Excluding(Longer.workspaces, bare)
      <3>1. \A p \in DOMAIN Longer.workspaces : p \notin stay => Longer.workspaces[p] \in bare
        <4> SUFFICES ASSUME NEW p \in Places(Longer), p \in Out PROVE Longer.workspaces[p] \in bare
          BY DEF Places
        <4>1. Longer.workspaces[p].windows = {}
          BY <2>1, LookedFacts
        <4>2. Longer.workspaces[p] \in Workspace
          BY <1>1, DeskFacts
        <4> QED BY <4>1, <4>2
      <3> HIDE DEF bare, stay
      <3> QED BY <1>1, <2>2, <2>6, <3>1, ExcludingPicked
    <2>9. Longer.active \in stay
      BY <1>1, <2>1 DEF Typed
    <2>10. (desk').workspaces[(desk').active] = desk.workspaces[desk.active]
      BY <1>1, <2>2, <2>6, <2>9
    <2> QED BY <1>2, <2>7, <2>8, <2>10 DEF Used
  <1> QED BY <1>3, <1>4

\* Of those that stay at most one is flagged: the active one, or one after which all go.
OneFlagged(stay, N) ==
    \/ (\A p \in stay : ~Looked[p]) /\ ~Looked[N]
    \/ \E r \in stay : /\ Looked[r] /\ \A p \in stay : Looked[p] => p = r
                       /\ r = Longer.active \/ Rank(stay, r) = Rank(stay, N)

LEMMA OutLeavesOne ==
    ASSUME TypeOK, Awaited(desk) \subseteq {0}
    PROVE  OneFlagged(Places(Longer) \ Out, Len(Longer.workspaces))
  <1> DEFINE N == Len(Longer.workspaces)
  <1> DEFINE stay == Places(Longer) \ Out
  <1> DEFINE a == Longer.active
  <1>1. /\ N \in Nat /\ N >= 1 /\ Places(Longer) = 1..N /\ DOMAIN Looked = 1..N /\ a \in 1..N
    <2>1. Typed(Longer)
      BY LongerFacts
    <2>2. Longer \in Desk /\ N \in 1..MaxWorkspaces /\ a \in Places(Longer)
      BY <2>1 DEF Typed
    <2>3. DOMAIN Looked = Places(Longer)
      BY LookedFacts
    <2>4. N \in Nat /\ Places(Longer) = 1..N
      BY <2>2, DeskFacts
    <2>5. N >= 1
      BY <2>2, WorkspacesAssumption
    <2> QED BY <2>2, <2>3, <2>4, <2>5
  <1> HIDE DEF N, a
  <1>2. CASE N = 1
    <2>1. Out = {}
      BY <1>2 DEF Out, N
    <2>2. stay = {1}
      <3>1. \A p \in 1..1 : p = 1
        OBVIOUS
      <3>2. 1 \in 1..1
        OBVIOUS
      <3> QED BY <1>1, <1>2, <2>1, <3>1, <3>2
    <2> QED BY <1>2, <2>2 DEF OneFlagged, N
  <1>3. CASE N # 1
    <2> DEFINE unflagged == {0} \cup {p \in DOMAIN Looked : ~Looked[p]}
    <2> DEFINE after == Max(unflagged) + 1
    <2>1. Out = {p \in 1..N : Looked[p]} \ {a, IF Looked[a] THEN a ELSE after}
      BY <1>1, <1>3 DEF Out, Surplus, N, a
    <2>2. unflagged \in SUBSET (0..N) /\ unflagged # {}
      BY <1>1
    <2>3. Max(unflagged) \in unflagged /\ \A y \in unflagged : Max(unflagged) >= y
      <3> HIDE DEF unflagged
      <3> QED BY <1>1, <2>2, MaxFacts
    <2>4. /\ after \in 1..(N + 1) /\ after - 1 \in unflagged
          /\ \A p \in 1..N : p >= after => Looked[p]
      <3> DEFINE last == Max(unflagged)
      <3>1. last \in 0..N /\ after = last + 1
        BY <2>2, <2>3
      <3>2. ASSUME NEW p \in 1..N, p >= after, ~Looked[p] PROVE FALSE
        <4>1. p \in unflagged
          BY <1>1, <3>2
        <4>2. last >= p
          BY <2>3, <4>1
        <4> HIDE DEF last, after
        <4> QED BY <1>1, <3>1, <3>2, <4>2
      <3>3. after \in 1..(N + 1) /\ after - 1 = last
        <4> HIDE DEF last, after
        <4> QED BY <1>1, <3>1
      <3> QED BY <2>3, <3>2, <3>3
    <2> HIDE DEF after
    <2>5. CASE Looked[a]
      <3>1. a \in stay /\ \A p \in stay : Looked[p] => p = a
        BY <1>1, <2>1, <2>5
      <3> QED BY <2>5, <3>1 DEF OneFlagged, a
    <2>6. CASE ~Looked[a] /\ after \in 1..N
      <3>1. Looked[after]
        BY <2>4, <2>6
      <3>2. after \in stay /\ \A p \in stay : Looked[p] => p = after
        BY <1>1, <2>1, <2>6, <3>1
      <3>3. stay \cap (1..N) = stay \cap (1..after)
        <4>1. \A p \in 1..N : p >= after /\ p # after => p \in Out
          BY <2>1, <2>4, <2>6
        <4>2. \A p \in 1..N : p \in 1..after \/ (p >= after /\ p # after)
          BY <1>1, <2>6
        <4>3. \A p \in 1..after : p \in 1..N
          BY <1>1, <2>6
        <4> QED BY <4>1, <4>2, <4>3
      <3>4. Rank(stay, after) = Rank(stay, N)
        BY <3>3 DEF Rank
      <3> QED BY <3>1, <3>2, <3>4 DEF OneFlagged, N
    <2>7. CASE ~Looked[a] /\ after \notin 1..N
      <3>1. after = N + 1
        BY <1>1, <2>4, <2>7
      <3>2. N \in unflagged /\ N # 0
        BY <1>1, <2>4, <3>1
      <3>3. ~Looked[N]
        BY <3>2
      <3>4. \A p \in stay : ~Looked[p]
        BY <1>1, <2>1, <2>7
      <3> QED BY <3>3, <3>4 DEF OneFlagged, N
    <2> QED BY <2>5, <2>6, <2>7
  <1> QED BY <1>2, <1>3

LEMMA CheckFindsOne ==
    ASSUME TypeOK, Check PROVE OneFree'
  <1> DEFINE x == RemoveAll(Longer, Out)
  <1> DEFINE stay == Places(Longer) \ Out
  <1> DEFINE full == ~First[Len(First)] /\ ~More
  <1>1. CASE ~(Out \subseteq Places(Longer))
    <2>1. desk' = [Longer EXCEPT !.check = "broken"]
      BY <1>1, CheckLooks
    <2>2. (desk').check = "broken"
      BY <2>1, LongerFacts DEF Typed, Desk
    <2> QED BY <2>2 DEF OneFree
  <1>2. CASE Out \subseteq Places(Longer)
    <2>1. Typed(Longer) /\ Longer.starting = desk.starting
      BY LongerFacts
    <2>2. Typed(x) /\ Stayed(Longer, stay, x)
      BY <1>2, <2>1, OutFacts, RemovingFacts
    <2>3. desk' = [x EXCEPT !.check = "none", !.full = full]
      BY <1>2, CheckLooks
    <2> HIDE DEF x
    <2>4. /\ (desk').workspaces = x.workspaces /\ (desk').active = x.active
          /\ (desk').starting = x.starting /\ ((desk').full <=> full)
      BY <2>2, <2>3 DEF Typed, Desk
    <2>5. Stayed(Longer, stay, desk')
      BY <2>2, <2>4 DEF Stayed, Places
    <2> SUFFICES ASSUME Quiet'
                 PROVE  \/ EmptyPlaces' = {Len((desk').workspaces)}
                        \/ EmptyPlaces' = {(desk').active}
                        \/ EmptyPlaces' = {} /\ (desk').full
      BY DEF OneFree
    <2>6. Awaited(desk) \subseteq {0} /\ Awaited(desk') \subseteq {0} /\ Awaited(Longer) \subseteq {0}
      BY <2>1, <2>5 DEF Quiet, Awaited, Stayed
    <2>7. Places(desk') \subseteq Nat \ {0} /\ Places(Longer) \subseteq Nat \ {0}
      <3>1. (desk').workspaces \in Seq(Workspace)
        BY <2>2, <2>4, DeskFacts DEF Typed
      <3>2. Longer \in Desk
        BY <2>1 DEF Typed
      <3> QED BY <3>1, <3>2, DeskFacts DEF Places
    <2>8. ASSUME NEW p \in stay
          PROVE  Rank(stay, p) \in Places(desk') /\ (Empty(desk', Rank(stay, p)) <=> Looked[p])
      <3> DEFINE k == Rank(stay, p)
      <3>1. k \in Places(desk') /\ (desk').workspaces[k] = Longer.workspaces[p]
        BY <2>5 DEF Stayed
      <3>2. ~InGrace(desk', k)
        BY <3>1 DEF Quiet
      <3>3. k \notin Awaited(desk') /\ p \notin Awaited(Longer)
        BY <2>6, <2>7, <3>1
      <3>4. Looked[p] <=> Empty(Longer, p)
        BY <2>6, LookedFacts
      <3> HIDE DEF k
      <3>5. Empty(desk', k) <=> Empty(Longer, p)
        BY <3>1, <3>2, <3>3 DEF Empty, InGrace
      <3> QED BY <3>1, <3>4, <3>5 DEF k
    <2>9. \A k \in Places(desk') : \E p \in stay : Rank(stay, p) = k
      BY <2>5 DEF Stayed
    <2>10. EmptyPlaces' = {k \in Places(desk') : Empty(desk', k)}
      BY DEF EmptyPlaces
    <2> DEFINE N == Len(Longer.workspaces)
    <2>11. OneFlagged(stay, N)
      BY <2>6, OutLeavesOne
    <2>12. (desk').active = Rank(stay, Longer.active) /\ Len((desk').workspaces) = Rank(stay, N)
      BY <2>5 DEF Stayed
    <2> HIDE DEF stay, N
    <2>13. CASE (\A p \in stay : ~Looked[p]) /\ ~Looked[N]
      <3>1. EmptyPlaces' = {}
        BY <2>8, <2>9, <2>10, <2>13
      <3>2. N = Len(Looked)
        <4>1. N \in Nat /\ Places(Longer) = 1..N
          BY <2>1, DeskFacts DEF Typed, N
        <4>2. DOMAIN Looked = 1..Len(Looked) /\ Len(Looked) \in Nat /\ DOMAIN Looked = Places(Longer)
          BY <2>6, LookedFacts
        <4>3. 1..N = 1..Len(Looked)
          BY <4>1, <4>2
        <4>4. \A i, j \in Nat : 1..i = 1..j => i <= j
          <5> SUFFICES ASSUME NEW i \in Nat, NEW j \in Nat, 1..i = 1..j, ~(i <= j) PROVE FALSE
            OBVIOUS
          <5>1. i \in 1..i /\ i \notin 1..j
            OBVIOUS
          <5> QED BY <5>1
        <4>5. N <= Len(Looked) /\ Len(Looked) <= N
          BY <4>1, <4>2, <4>3, <4>4
        <4>6. N \in Nat /\ Len(Looked) \in Nat
          BY <4>1, <4>2
        <4> QED BY <4>5, <4>6
      <3>3. full
        BY <2>6, <2>13, <3>2, LookedFacts
      <3> QED BY <2>4, <3>1, <3>3
    <2>14. CASE \E r \in stay : /\ Looked[r] /\ \A p \in stay : Looked[p] => p = r
                                /\ r = Longer.active \/ Rank(stay, r) = Rank(stay, N)
      <3>1. PICK r \in stay : /\ Looked[r] /\ \A p \in stay : Looked[p] => p = r
                              /\ r = Longer.active \/ Rank(stay, r) = Rank(stay, N)
        BY <2>14
      <3>2. EmptyPlaces' = {Rank(stay, r)}
        <4>1. Rank(stay, r) \in EmptyPlaces'
          BY <2>8, <2>10, <3>1
        <4>2. \A k \in EmptyPlaces' : k = Rank(stay, r)
          BY <2>8, <2>9, <2>10, <3>1
        <4> QED BY <4>1, <4>2
      <3> QED BY <2>12, <3>1, <3>2
    <2> QED BY <2>11, <2>13, <2>14 DEF OneFlagged
  <1> QED BY <1>1, <1>2

-----------------------------------------------------------------------------
(* All steps together. *)

\* Blocking leaves the workspaces alone, and what became of the look.
LEMMA BlockingKeeps ==
    ASSUME TypeOK, Block \/ Unblock
    PROVE  /\ Typed(desk')
           /\ (desk').check = desk.check /\ (desk').workspaces = desk.workspaces
           /\ (desk').active = desk.active /\ (desk').starting = desk.starting /\ (desk').full = desk.full
  <1>1. Typed(desk) /\ desk \in Desk /\ desk.active \in Places(desk) /\ desk.blocks \in 0..MaxBlocks
    BY TypingIsTyped, DeskFacts DEF Typed
  <1>2. PICK n \in 0..MaxBlocks, prepended \in BOOLEAN :
           desk' = [desk EXCEPT !.blocks = n, !.prepended = prepended]
    <2>1. desk.prepended \in BOOLEAN
      BY <1>1 DEF Desk
    <2>2. CASE Block
      <3>1. desk' = [desk EXCEPT !.blocks = desk.blocks + 1, !.prepended = desk.prepended]
        BY <1>1, <2>2 DEF Block, Desk
      <3>2. desk.blocks + 1 \in 0..MaxBlocks
        BY <1>1, <2>2, WorkspacesAssumption DEF Block
      <3> QED BY <2>1, <3>1, <3>2
    <2>3. CASE Unblock
      <3>1. PICK stays \in BOOLEAN :
               desk' = [desk EXCEPT !.blocks = desk.blocks - 1, !.prepended = desk.prepended /\ stays]
        BY <2>3 DEF Unblock
      <3>2. desk.blocks - 1 \in 0..MaxBlocks
        BY <1>1, <2>3, WorkspacesAssumption DEF Unblock
      <3>3. (desk.prepended /\ stays) \in BOOLEAN
        OBVIOUS
      <3> QED BY <3>1, <3>2, <3>3
    <2> QED BY <2>2, <2>3
  <1>3. /\ desk' \in Desk /\ (desk').sticky = desk.sticky
        /\ (desk').check = desk.check /\ (desk').workspaces = desk.workspaces
        /\ (desk').active = desk.active /\ (desk').starting = desk.starting /\ (desk').full = desk.full
    BY <1>1, <1>2 DEF Desk
  <1>4. Typed(desk')
    BY <1>1, <1>3, ChangedAround
  <1> QED BY <1>3, <1>4

\* Every step tells the tracker, or it looks, or holds it up.
LEMMA StepTells ==
    ASSUME TypeOK, Next
    PROVE  Told(desk, desk') \/ Check \/ Block \/ Unblock
  <1>1. ASSUME NEW w \in Windows,
               \/ OpenWindow(w) \/ CloseWindow(w) \/ Stick(w) \/ Unstick(w) \/ MoveBeforeFirst(w)
               \/ \E p \in Places(desk) : MoveWindow(w, p)
        PROVE  Told(desk, desk')
    <2>1. CASE OpenWindow(w)
      BY <2>1, OpenWindowTells
    <2>2. CASE CloseWindow(w)
      BY <2>2, CloseWindowTells
    <2>3. CASE Stick(w)
      BY <2>3, StickTells
    <2>4. CASE Unstick(w)
      BY <2>4, UnstickTells
    <2>5. CASE MoveBeforeFirst(w)
      BY <2>5, MoveBeforeFirstTells
    <2>6. CASE \E p \in Places(desk) : MoveWindow(w, p)
      BY <2>6, MoveWindowTells
    <2> QED BY <1>1, <2>1, <2>2, <2>3, <2>4, <2>5, <2>6
  <1>2. ASSUME NEW p \in Places(desk), Activate(p) \/ GraceEnds(p)
        PROVE  Told(desk, desk')
    BY <1>2, ActivateTells, GraceEndsTells
  <1>3. ASSUME NEW a \in Apps, Starts(a) \/ Started(a)
        PROVE  Told(desk, desk')
    BY <1>3, StartsTells
  <1>4. CASE GraceEndsForRemoved
    BY <1>4, GraceEndsForRemovedTells
  <1> QED BY <1>1, <1>2, <1>3, <1>4 DEF Next

LEMMA TypingInit == Init => TypeOK /\ OneFree
  <1> SUFFICES ASSUME Init PROVE TypeOK /\ OneFree
    OBVIOUS
  <1>1. desk = [workspaces |-> <<Fresh>>, active |-> 1, sticky |-> {}, starting |-> [a \in Apps |-> 0],
                check |-> "queued", blocks |-> 0, prepended |-> FALSE, gone |-> FALSE, full |-> FALSE]
    BY DEF Init
  <1>2. /\ <<Fresh>> \in Seq(Workspace) /\ Len(<<Fresh>>) = 1 /\ DOMAIN <<Fresh>> = {1} /\ <<Fresh>>[1] = Fresh
    BY FreshType
  <1>3. [a \in Apps |-> 0] \in [Apps -> Nat] /\ 0 \in 0..MaxBlocks /\ 1 \in 1..MaxWorkspaces
    BY WorkspacesAssumption
  <1>4. desk \in Desk
    BY <1>1, <1>2, <1>3 DEF Desk
  <1>5. Apart(desk) /\ Places(desk) = {1}
    BY <1>1, <1>2, FreshType DEF Apart, Places
  <1>6. Typed(desk)
    BY <1>1, <1>2, <1>3, <1>4, <1>5 DEF Typed
  <1>7. OneFree
    BY <1>1 DEF OneFree
  <1> QED BY <1>6, <1>7, TypingIsTyped

LEMMA TypingStep ==
    ASSUME TypeOK, [Next]_desk PROVE TypeOK'
  <1>1. CASE Next
    <2>1. Typed(desk')
      BY <1>1, StepTells, CheckKeeps, BlockingKeeps DEF Told
    <2> QED BY <2>1 DEF TypeOK, Typed, Apart, Places
  <1>2. CASE UNCHANGED desk
    BY <1>2 DEF TypeOK, Places
  <1> QED BY <1>1, <1>2

(* Windows are never on two workspaces, and there is always an active workspace, whatever the  *)
(* tracker adds and takes away.                                                                *)
THEOREM StaysTyped == Spec => []TypeOK
  <1>1. Init => TypeOK
    BY TypingInit
  <1>2. TypeOK /\ [Next]_desk => TypeOK'
    BY TypingStep
  <1> QED BY <1>1, <1>2, PTL DEF Spec

\* What OneFree says is said of the workspaces, the apps that start, and the last look.
LEMMA OneFreeSame ==
    ASSUME OneFree,
           (desk').check = desk.check, (desk').workspaces = desk.workspaces,
           (desk').active = desk.active, (desk').starting = desk.starting, (desk').full = desk.full
    PROVE  OneFree'
  <1>1. Places(desk') = Places(desk) /\ Awaited(desk') = Awaited(desk)
    BY DEF Places, Awaited
  <1>2. \A p : InGrace(desk', p) <=> InGrace(desk, p)
    BY DEF InGrace
  <1>3. \A p : Empty(desk', p) <=> Empty(desk, p)
    BY <1>1, <1>2 DEF Empty
  <1>4. Quiet' <=> Quiet
    BY <1>1, <1>2 DEF Quiet
  <1>5. EmptyPlaces' = EmptyPlaces
    BY <1>1, <1>3 DEF EmptyPlaces
  <1> QED BY <1>4, <1>5 DEF OneFree

LEMMA OneFreeStep ==
    ASSUME TypeOK, OneFree, [Next]_desk PROVE OneFree'
  <1>1. CASE Told(desk, desk')
    BY <1>1 DEF Told, OneFree
  <1>2. CASE Check
    BY <1>2, CheckFindsOne
  <1>3. CASE Block \/ Unblock
    BY <1>3, BlockingKeeps, OneFreeSame
  <1>4. CASE UNCHANGED desk
    BY <1>4, OneFreeSame
  <1> QED BY <1>1, <1>2, <1>3, <1>4, StepTells

(* Whatever windows, apps and the person do, a tracker with nothing to look at has left exactly *)
(* one workspace free, the one after the last in use or in its stead the one the person is on,  *)
(* or found no room for it.                                                                     *)
THEOREM LeavesOneFree == Spec => []OneFree
  <1>1. Init => OneFree
    BY TypingInit
  <1>2. TypeOK /\ OneFree /\ [Next]_desk => OneFree'
    BY OneFreeStep
  <1> QED BY <1>1, <1>2, StaysTyped, PTL DEF Spec

LEMMA NothingTakenStep ==
    ASSUME TypeOK, [Next]_desk, desk.check = "queued", (desk').check # "queued"
    PROVE  /\ Used(desk) = Used(desk')
           /\ desk.workspaces[desk.active] = (desk').workspaces[(desk').active]
  <1>1. CASE Check
    BY <1>1, CheckKeeps
  <1>2. CASE Told(desk, desk')
    BY <1>2 DEF Told
  <1>3. CASE Block \/ Unblock
    BY <1>3, BlockingKeeps
  <1> QED BY <1>1, <1>2, <1>3, StepTells

(* A look takes no workspace from under a window or the person, also the look that breaks.     *)
THEOREM LookingTakesNothing == Spec => NothingTakenAway
  <1>1. TypeOK /\ [Next]_desk =>
           [desk.check = "queued" /\ (desk').check # "queued" =>
              /\ Used(desk) = Used(desk')
              /\ desk.workspaces[desk.active] = (desk').workspaces[(desk').active]]_desk
    BY NothingTakenStep
  <1> QED BY <1>1, StaysTyped, PTL DEF Spec, NothingTakenAway

=============================================================================
