------------------------- MODULE KeyringPromptsProofs -------------------------
(***************************************************************************)
(* KeyringPrompts' invariants, for any calls and handles.                  *)
(*                                                                         *)
(* A handler is a chain of operators on the box.  Each keeps what is Sound *)
(* of it: the places a call may wait in have no call in common, and those  *)
(* that wait nowhere were answered once.  A call that came in and is in no *)
(* place yet is in the handler's hand.                                     *)
(***************************************************************************)
EXTENDS KeyringPrompts, FiltersProofs
-----------------------------------------------------------------------------
\* What stays in a queue is what isn't asked under the handle.
LEMMA OthersFacts ==
    ASSUME NEW q \in Seq(Calls), NEW key
    PROVE  /\ Others(q, key) \in Seq(Calls)
           /\ Range(Others(q, key)) = {c \in Range(q) : HandleOf[c] # key}
           /\ IsInjective(q) => IsInjective(Others(q, key))
  <1> DEFINE gone == {c \in Calls : HandleOf[c] = key}
  <1>1. Range(q) \subseteq Calls
    BY DEF Range
  <1>2. /\ Excluding(q, gone) \in Seq(Calls)
        /\ Range(Excluding(q, gone)) = Range(q) \ gone
        /\ IsInjective(q) => IsInjective(Excluding(q, gone))
    BY ExcludingFacts
  <1>3. Range(q) \ gone = {c \in Range(q) : HandleOf[c] # key}
    BY <1>1
  <1> QED BY <1>2, <1>3 DEF Others

-----------------------------------------------------------------------------
(* What is kept, of a box and what a handler has in hand. *)

Queued(b)  == Range(b.queue)
Coming(b)  == Calls \cap Range(b.incoming)
Pending(b) == IF b.active = None THEN {} ELSE {b.active.pending} \ {None}
Entered(b) == IF b.active = None THEN {} ELSE b.active.entered

WaitingIn(b) == Coming(b) \cup Queued(b) \cup b.late \cup Pending(b) \cup Entered(b)

\* TypeOK, of any box.
Typed(b) ==
    /\ b \in Box
    /\ \A c \in Pending(b) \cup Entered(b) :
          HandleOf[c] = b.active.key /\ (c \in Passwords <=> b.active.password)

\* No call is in two places, or twice in one. A handler may have calls in hand that are nowhere.
Apart(b, hand) ==
    /\ IsInjective(b.incoming) /\ IsInjective(b.queue)
    /\ Coming(b) \cap (Queued(b) \cup b.late \cup Pending(b) \cup Entered(b)) = {}
    /\ Queued(b) \cap (b.late \cup Pending(b) \cup Entered(b)) = {}
    /\ b.late \cap (Pending(b) \cup Entered(b)) = {}
    /\ Pending(b) \cap Entered(b) = {}
    /\ hand \cap WaitingIn(b) = {}
    /\ hand \cup WaitingIn(b) \subseteq b.asked

\* ExactlyOnce, of any box.
Counted(b, hand) ==
    \A c \in Calls : b.answers[c] = IF c \in b.asked \ (WaitingIn(b) \cup hand) THEN 1 ELSE 0

Sound(b, hand) == Typed(b) /\ Apart(b, hand) /\ Counted(b, hand)

\* What the handlers on the way to the next dialog leave alone.
Framed(b, x) ==
    /\ x.incoming = b.incoming /\ x.refused = b.refused /\ x.locked = b.locked
    /\ x.animated = b.animated /\ x.asked = b.asked /\ x.over = b.over

\* InTurn, of any box: what a dialog may be, and that nothing waits for no reason.
Fit(b) ==
    /\ b.locked => ~Opened(b)
    /\ Opened(b) /\ b.active.pending = None => b.active.password /\ b.active.busy

Woken(b) == b.queue # <<>> => b.active # None \/ b.locked

\* ClosedIsOver, of any box.
Past(b) ==
    /\ b.over \subseteq b.asked
    /\ b.over \cap (Queued(b) \cup Coming(b)) = {}
    /\ b.animated /\ Opened(b) => b.active.pending \notin b.over

-----------------------------------------------------------------------------
\* Answering changes the answers and nothing else.
LEMMA Answering ==
    ASSUME NEW b, NEW cs, b \in Box
    PROVE  LET x == AnswerAll(b, cs)
           IN /\ x \in Box /\ Framed(b, x)
              /\ x.queue = b.queue /\ x.active = b.active /\ x.late = b.late
              /\ x.answers = [c \in Calls |-> IF c \in cs THEN b.answers[c] + 1 ELSE b.answers[c]]
  <1> DEFINE given == [c \in Calls |-> IF c \in cs THEN b.answers[c] + 1 ELSE b.answers[c]]
  <1>1. given \in [Calls -> Nat]
    BY DEF Box
  <1>2. AnswerAll(b, cs) = [b EXCEPT !.answers = given]
    BY DEF AnswerAll, Box
  <1> HIDE DEF given
  <1>3. LET x == [b EXCEPT !.answers = given]
        IN /\ x \in Box /\ Framed(b, x)
           /\ x.queue = b.queue /\ x.active = b.active /\ x.late = b.late /\ x.answers = given
    BY <1>1 DEF Box, Framed
  <1> QED BY <1>2, <1>3 DEF given

\* Answering a call is answering all of it alone.
LEMMA AnsweringOne ==
    ASSUME NEW b, NEW c \in Calls, b \in Box
    PROVE  Answer(b, c) = AnswerAll(b, {c})
  BY DEF AnswerAll, Answer, Box

\* Calls are answered that leave the places they waited in, or the hand.
Leaves(b, x, hand, left, cs) ==
    /\ b.answers \in [Calls -> Nat] /\ x.asked = b.asked
    /\ \A c \in Calls : x.answers[c] = IF c \in cs THEN b.answers[c] + 1 ELSE b.answers[c]
    /\ cs \subseteq WaitingIn(b) \cup hand
    /\ WaitingIn(x) \cup left = (WaitingIn(b) \cup hand) \ cs

LEMMA Leaving ==
    ASSUME NEW b, NEW x, NEW hand, NEW left, NEW cs,
           Sound(b, hand), Leaves(b, x, hand, left, cs)
    PROVE  Counted(x, left)
  <1> SUFFICES ASSUME NEW c \in Calls
               PROVE  x.answers[c] = IF c \in x.asked \ (WaitingIn(x) \cup left) THEN 1 ELSE 0
    BY DEF Counted
  <1>1. b.answers[c] = IF c \in b.asked \ (WaitingIn(b) \cup hand) THEN 1 ELSE 0
    BY DEF Counted, Sound
  <1>2. x.answers[c] = IF c \in cs THEN b.answers[c] + 1 ELSE b.answers[c]
    BY DEF Leaves
  <1>3. cs \subseteq b.asked
    BY DEF Apart, Sound, Leaves
  <1> QED BY <1>1, <1>2, <1>3 DEF Leaves

\* A dialog that's new serves its call.
LEMMA Showing ==
    ASSUME NEW c \in Calls
    PROVE  /\ Shown(c) \in Dialog /\ Shown(c) # None
           /\ Shown(c).key = HandleOf[c] /\ (Shown(c).password <=> c \in Passwords)
  <1>1. HandleOf[c] \in Handles /\ (c \in Passwords) \in BOOLEAN
    BY PromptsAssumption
  <1>2. [key |-> HandleOf[c], password |-> c \in Passwords, pending |-> c, entered |-> {},
         busy |-> FALSE, closing |-> FALSE] \in Dialog
    BY <1>1 DEF Dialog
  <1>3. Shown(c).password <=> c \in Passwords
    BY DEF Shown
  <1>4. Shown(c).key = HandleOf[c]
    BY DEF Shown
  <1> QED BY <1>2, <1>3, <1>4, PromptsAssumption DEF Shown

\* The next dialog: whatever took a call out of the way looks at the queue.
LEMMA TakingNext ==
    ASSUME NEW b, NEW hand, Sound(b, hand)
    PROVE  LET x == TakeNext(b)
           IN /\ Sound(x, hand) /\ Framed(b, x) /\ Queued(x) \subseteq Queued(b)
              /\ Woken(x)
              /\ Fit(b) => Fit(x)
              /\ Past(b) => Past(x)
  <1> DEFINE x == TakeNext(b)
  <1>1. CASE b.active # None \/ b.locked \/ b.queue = <<>>
    BY <1>1 DEF TakeNext, Framed, Woken
  <1>2. CASE ~(b.active # None \/ b.locked \/ b.queue = <<>>)
    <2> DEFINE c == Head(b.queue)
    <2>1. /\ b \in Box /\ b.queue \in Seq(Calls) /\ IsInjective(b.queue)
      BY DEF Sound, Typed, Apart, Box
    <2>2. /\ c \in Calls /\ c \in Queued(b) /\ Tail(b.queue) \in Seq(Calls)
          /\ Range(b.queue) = Range(Tail(b.queue)) \cup {c}
          /\ IsInjective(Tail(b.queue)) /\ c \notin Range(Tail(b.queue))
      BY <1>2, <2>1, TailFacts DEF Queued
    <2>3. x = [b EXCEPT !.queue = Tail(@), !.active = Shown(c)]
      BY <1>2 DEF TakeNext
    <2>4. /\ x.queue = Tail(b.queue) /\ x.active = Shown(c) /\ x.late = b.late /\ x.answers = b.answers
          /\ Framed(b, x)
      BY <2>1, <2>3 DEF Box, Framed
    <2>5. Shown(c) \in Dialog /\ Shown(c) # None
      BY <2>2, Showing
    <2>6. x \in Box
      BY <2>1, <2>2, <2>3, <2>5 DEF Box
    <2>7. /\ Pending(x) = {c} /\ Entered(x) = {} /\ Pending(b) = {} /\ Entered(b) = {}
          /\ Queued(b) = Queued(x) \cup {c} /\ c \notin Queued(x) /\ Coming(x) = Coming(b)
      BY <1>2, <2>2, <2>4, <2>5, PromptsAssumption DEF Pending, Entered, Queued, Coming, Shown, Framed
    <2> HIDE DEF x, c
    <2>8. Typed(x)
      <3>1. x.active.key = HandleOf[c] /\ (x.active.password <=> c \in Passwords)
        BY <2>2, <2>4, Showing
      <3> QED BY <2>6, <2>7, <3>1 DEF Typed
    <2>9. WaitingIn(x) = WaitingIn(b)
      BY <2>4, <2>7 DEF WaitingIn
    <2>10. Apart(x, hand)
      <3>1. x.incoming = b.incoming /\ x.asked = b.asked
        BY <2>4 DEF Framed
      <3>2. c \notin Coming(b) /\ c \notin b.late
        BY <2>7 DEF Apart, Sound
      <3>3. IsInjective(x.incoming) /\ IsInjective(x.queue)
        BY <2>2, <2>4, <3>1 DEF Apart, Sound
      <3> QED BY <2>4, <2>7, <2>9, <3>1, <3>2, <3>3 DEF Apart, Sound
    <2>11. Counted(x, hand)
      BY <2>4, <2>9 DEF Counted, Framed, Sound
    <2>12. Woken(x)
      BY <2>4, <2>5 DEF Woken
    <2>13. Fit(x)
      BY <1>2, <2>2, <2>4, PromptsAssumption DEF Fit, Opened, Shown, Framed
    <2>14. Past(b) => Past(x)
      <3>1. x.active.pending = c /\ x.over = b.over /\ x.asked = b.asked
        BY <2>4 DEF Shown, Framed
      <3> QED BY <2>7, <3>1 DEF Past
    <2> QED BY <2>4, <2>7, <2>8, <2>10, <2>11, <2>12, <2>13, <2>14 DEF Sound, x
  <1> QED BY <1>1, <1>2

\* A dialog that's gone leaves what was entered to be handed over, and its call is answered.
LEMMA Finishing ==
    ASSUME NEW b, NEW hand, Sound(b, hand), b.active # None
    PROVE  LET z == Finished(b)
           IN /\ Sound(z, hand) /\ Framed(b, z) /\ Queued(z) \subseteq Queued(b)
              /\ Fit(z) /\ Woken(z)
              /\ Past(b) => Past(z)
  <1> DEFINE x == AnswerPending(b)
  <1> DEFINE y == [x EXCEPT !.active = None, !.late = @ \cup b.active.entered]
  <1> DEFINE z == Finished(b)
  <1>1. b \in Box /\ b.active \in Dialog /\ b.active.entered \subseteq Calls /\ b.late \subseteq Calls
    BY DEF Sound, Typed, Box, Dialog
  <1>2. Pending(b) = {b.active.pending} \ {None} /\ Entered(b) = b.active.entered
    BY DEF Pending, Entered
  <1>3. /\ x \in Box /\ Framed(b, x)
        /\ x.queue = b.queue /\ x.active = b.active /\ x.late = b.late
        /\ x.answers = [c \in Calls |-> IF c \in Pending(b) THEN b.answers[c] + 1 ELSE b.answers[c]]
    BY <1>1, <1>2, Answering DEF AnswerPending
  <1> HIDE DEF x
  <1>4. /\ y \in Box /\ Framed(x, y) /\ y.queue = x.queue /\ y.answers = x.answers
        /\ y.active = None /\ y.late = b.late \cup Entered(b)
    BY <1>1, <1>2, <1>3 DEF Box, Framed
  <1>5. z = TakeNext(y)
    BY DEF Finished, x
  <1> HIDE DEF y, z
  <1>6. Framed(b, y)
    BY <1>3, <1>4 DEF Framed
  <1>7. /\ Coming(y) = Coming(b) /\ Queued(y) = Queued(b) /\ Pending(y) = {} /\ Entered(y) = {}
    BY <1>3, <1>4, <1>6 DEF Coming, Queued, Pending, Entered, Framed
  <1>8. Typed(y)
    BY <1>4, <1>7 DEF Typed
  <1>9. WaitingIn(y) = WaitingIn(b) \ Pending(b)
    BY <1>4, <1>7 DEF WaitingIn, Sound, Apart
  <1>10. Apart(y, hand)
    <2>1. y.incoming = b.incoming /\ y.queue = b.queue /\ y.asked = b.asked
      BY <1>3, <1>4, <1>6 DEF Framed
    <2> QED BY <1>4, <1>7, <1>9, <2>1 DEF Apart, Sound
  <1>11. Counted(y, hand)
    <2>1. b.answers \in [Calls -> Nat] /\ y.asked = b.asked
      BY <1>1, <1>6 DEF Box, Framed
    <2>2. \A c \in Calls : y.answers[c] = IF c \in Pending(b) THEN b.answers[c] + 1 ELSE b.answers[c]
      BY <1>3, <1>4
    <2>3. Pending(b) \subseteq WaitingIn(b) /\ hand \cap WaitingIn(b) = {}
      BY DEF WaitingIn, Sound, Apart
    <2>4. WaitingIn(y) \cup hand = (WaitingIn(b) \cup hand) \ Pending(b)
      BY <1>9, <2>3
    <2>5. Leaves(b, y, hand, hand, Pending(b))
      BY <2>1, <2>2, <2>3, <2>4 DEF Leaves
    <2> QED BY <2>5, Leaving
  <1>12. Sound(y, hand)
    BY <1>8, <1>10, <1>11 DEF Sound
  <1>13. Fit(y)
    BY <1>4 DEF Fit, Opened
  <1>14. Past(b) => Past(y)
    BY <1>4, <1>6, <1>7 DEF Past, Opened, Framed
  <1>15. /\ Sound(z, hand) /\ Framed(y, z) /\ Queued(z) \subseteq Queued(y)
         /\ Woken(z) /\ Fit(z) /\ (Past(y) => Past(z))
    BY <1>5, <1>12, <1>13, TakingNext
  <1>16. Framed(b, z)
    BY <1>6, <1>15 DEF Framed
  <1> QED BY <1>7, <1>14, <1>15, <1>16 DEF z

\* A dialog that's answered closes; with animations nothing can be answered in it any more.
LEMMA Responding ==
    ASSUME NEW b, NEW hand, Sound(b, hand), b.active # None
    PROVE  LET z == Respond(b)
           IN /\ Sound(z, hand) /\ Framed(b, z) /\ Queued(z) \subseteq Queued(b)
              /\ Fit(z) /\ Woken(z)
              /\ b.animated => ~Opened(z)
  <1> DEFINE x == AnswerPending(b)
  <1> DEFINE y == [x EXCEPT !.active.pending = None, !.active.closing = TRUE]
  <1> DEFINE z == Respond(b)
  <1>1. b \in Box /\ b.active \in Dialog
    BY DEF Sound, Typed, Box
  <1>2. Pending(b) = {b.active.pending} \ {None} /\ Entered(b) = b.active.entered
    BY DEF Pending, Entered
  <1>3. /\ x \in Box /\ Framed(b, x)
        /\ x.queue = b.queue /\ x.active = b.active /\ x.late = b.late
        /\ x.answers = [c \in Calls |-> IF c \in Pending(b) THEN b.answers[c] + 1 ELSE b.answers[c]]
    BY <1>1, <1>2, Answering DEF AnswerPending
  <1> HIDE DEF x
  <1> DEFINE shut == [b.active EXCEPT !.pending = None, !.closing = TRUE]
  <1>4. /\ shut \in Dialog /\ shut.pending = None /\ shut.closing = TRUE
        /\ shut.key = b.active.key /\ shut.password = b.active.password /\ shut.entered = b.active.entered
    BY <1>1 DEF Dialog
  <1>5. y = [x EXCEPT !.active = shut]
    BY <1>1, <1>3 DEF Box, Dialog
  <1> HIDE DEF shut
  <1>6. /\ y \in Box /\ Framed(x, y) /\ y.queue = x.queue /\ y.answers = x.answers /\ y.late = x.late
        /\ y.active = shut
    BY <1>3, <1>4, <1>5 DEF Box, Framed
  <1>7. z = IF b.animated THEN y ELSE Finished(y)
    BY DEF Respond, x
  <1> HIDE DEF y, z
  <1>8. Framed(b, y) /\ y.active # None
    BY <1>3, <1>4, <1>6, PromptsAssumption DEF Framed
  <1>9. /\ Coming(y) = Coming(b) /\ Queued(y) = Queued(b) /\ Pending(y) = {} /\ Entered(y) = Entered(b)
    BY <1>2, <1>3, <1>4, <1>6, <1>8 DEF Coming, Queued, Pending, Entered, Framed
  <1>10. Typed(y)
    BY <1>4, <1>6, <1>9 DEF Typed, Sound
  <1>11. WaitingIn(y) = WaitingIn(b) \ Pending(b)
    BY <1>3, <1>6, <1>9 DEF WaitingIn, Sound, Apart
  <1>12. Apart(y, hand)
    <2>1. y.incoming = b.incoming /\ y.queue = b.queue /\ y.asked = b.asked /\ y.late = b.late
      BY <1>3, <1>6, <1>8 DEF Framed
    <2> QED BY <1>9, <1>11, <2>1 DEF Apart, Sound
  <1>13. Counted(y, hand)
    <2>1. b.answers \in [Calls -> Nat] /\ y.asked = b.asked
      BY <1>1, <1>8 DEF Box, Framed
    <2>2. \A c \in Calls : y.answers[c] = IF c \in Pending(b) THEN b.answers[c] + 1 ELSE b.answers[c]
      BY <1>3, <1>6
    <2>3. Pending(b) \subseteq WaitingIn(b) /\ hand \cap WaitingIn(b) = {}
      BY DEF WaitingIn, Sound, Apart
    <2>4. WaitingIn(y) \cup hand = (WaitingIn(b) \cup hand) \ Pending(b)
      BY <1>11, <2>3
    <2>5. Leaves(b, y, hand, hand, Pending(b))
      BY <2>1, <2>2, <2>3, <2>4 DEF Leaves
    <2> QED BY <2>5, Leaving
  <1>14. Sound(y, hand)
    BY <1>10, <1>12, <1>13 DEF Sound
  <1>15. CASE b.animated
    BY <1>4, <1>6, <1>7, <1>8, <1>9, <1>14, <1>15 DEF Fit, Woken, Opened, z
  <1>16. CASE ~b.animated
    <2>1. z = Finished(y)
      BY <1>7, <1>16
    <2>2. /\ Sound(z, hand) /\ Framed(y, z) /\ Queued(z) \subseteq Queued(y)
          /\ Fit(z) /\ Woken(z)
      BY <1>8, <1>14, <2>1, Finishing
    <2>3. Framed(b, z)
      BY <1>8, <2>2 DEF Framed
    <2> QED BY <1>9, <1>16, <2>2, <2>3 DEF z
  <1> QED BY <1>15, <1>16

\* What responds lets nothing be asked that wasn't, so what is over stays so.
LEMMA StayingPast ==
    ASSUME NEW b, NEW z, Past(b), Framed(b, z), Queued(z) \subseteq Queued(b),
           b.animated => ~Opened(z)
    PROVE  Past(z)
  BY DEF Past, Framed, Coming

\* A call in hand that joins the queue, at either end.
LEMMA Queueing ==
    ASSUME NEW b, NEW c \in Calls, Sound(b, {c}),
           NEW q \in Seq(Calls), IsInjective(q), Range(q) = Queued(b) \cup {c}
    PROVE  LET y == [b EXCEPT !.queue = q]
           IN /\ Sound(y, {}) /\ Framed(b, y) /\ y.active = b.active
              /\ Fit(b) => Fit(y)
              /\ Past(b) /\ c \notin b.over => Past(y)
  <1> DEFINE y == [b EXCEPT !.queue = q]
  <1>1. b \in Box
    BY DEF Sound, Typed
  <1>2. /\ y \in Box /\ Framed(b, y) /\ y.queue = q /\ y.active = b.active /\ y.late = b.late
        /\ y.answers = b.answers
    BY <1>1 DEF Box, Framed
  <1> HIDE DEF y
  <1>3. /\ Coming(y) = Coming(b) /\ Queued(y) = Queued(b) \cup {c}
        /\ Pending(y) = Pending(b) /\ Entered(y) = Entered(b)
    BY <1>2 DEF Coming, Queued, Pending, Entered, Framed
  <1>4. Typed(y)
    BY <1>2, <1>3 DEF Typed, Sound
  <1>5. WaitingIn(y) = WaitingIn(b) \cup {c}
    BY <1>2, <1>3 DEF WaitingIn
  <1>6. c \notin WaitingIn(b) /\ c \in b.asked
    BY DEF Sound, Apart
  <1>7. Apart(y, {})
    <2>1. y.incoming = b.incoming /\ y.asked = b.asked
      BY <1>2 DEF Framed
    <2>2. c \notin Coming(b) /\ c \notin b.late /\ c \notin Pending(b) /\ c \notin Entered(b)
      BY <1>6 DEF WaitingIn
    <2> QED BY <1>2, <1>3, <1>5, <1>6, <2>1, <2>2 DEF Apart, Sound
  <1>8. Counted(y, {})
    BY <1>2, <1>5 DEF Counted, Sound, Framed
  <1>9. Fit(b) => Fit(y)
    BY <1>2 DEF Fit, Opened, Framed
  <1>10. Past(b) /\ c \notin b.over => Past(y)
    BY <1>2, <1>3 DEF Past, Opened, Framed
  <1> QED BY <1>2, <1>4, <1>7, <1>8, <1>9, <1>10 DEF Sound, y

\* A call in hand that's answered.
LEMMA Refusing ==
    ASSUME NEW b, NEW c \in Calls, Sound(b, {c})
    PROVE  LET y == Answer(b, c)
           IN /\ Sound(y, {}) /\ Framed(b, y) /\ y.active = b.active /\ y.queue = b.queue
  <1> DEFINE y == Answer(b, c)
  <1>1. b \in Box
    BY DEF Sound, Typed
  <1>2. /\ y \in Box /\ Framed(b, y) /\ y.queue = b.queue /\ y.active = b.active /\ y.late = b.late
        /\ y.answers = [d \in Calls |-> IF d \in {c} THEN b.answers[d] + 1 ELSE b.answers[d]]
    BY <1>1, Answering, AnsweringOne
  <1> HIDE DEF y
  <1>3. /\ Coming(y) = Coming(b) /\ Queued(y) = Queued(b)
        /\ Pending(y) = Pending(b) /\ Entered(y) = Entered(b)
    BY <1>2 DEF Coming, Queued, Pending, Entered, Framed
  <1>4. Typed(y)
    BY <1>2, <1>3 DEF Typed, Sound
  <1>5. WaitingIn(y) = WaitingIn(b) /\ c \notin WaitingIn(b)
    BY <1>2, <1>3 DEF WaitingIn, Sound, Apart
  <1>6. y.incoming = b.incoming /\ y.asked = b.asked
    BY <1>2 DEF Framed
  <1>7. Apart(y, {})
    BY <1>2, <1>3, <1>5, <1>6 DEF Apart, Sound
  <1>8. Leaves(b, y, {c}, {}, {c})
    BY <1>1, <1>2, <1>5, <1>6 DEF Leaves, Box
  <1>9. Counted(y, {})
    BY <1>8, Leaving
  <1> QED BY <1>2, <1>4, <1>7, <1>9 DEF Sound, y

\* The handle may be refused or not.
LEMMA Allowing ==
    ASSUME NEW b, NEW hand, NEW refused \in SUBSET Handles, Sound(b, hand)
    PROVE  LET y == [b EXCEPT !.refused = refused]
           IN /\ Sound(y, hand) /\ y.active = b.active /\ y.queue = b.queue
              /\ y.incoming = b.incoming /\ y.locked = b.locked /\ y.animated = b.animated
              /\ y.asked = b.asked /\ y.over = b.over
  <1> DEFINE y == [b EXCEPT !.refused = refused]
  <1>1. b \in Box
    BY DEF Sound, Typed
  <1>2. /\ y \in Box /\ y.queue = b.queue /\ y.active = b.active /\ y.late = b.late
        /\ y.answers = b.answers /\ y.incoming = b.incoming /\ y.locked = b.locked
        /\ y.animated = b.animated /\ y.asked = b.asked /\ y.over = b.over
    BY <1>1 DEF Box
  <1> HIDE DEF y
  <1>3. /\ Coming(y) = Coming(b) /\ Queued(y) = Queued(b)
        /\ Pending(y) = Pending(b) /\ Entered(y) = Entered(b)
    BY <1>2 DEF Coming, Queued, Pending, Entered
  <1>4. WaitingIn(y) = WaitingIn(b)
    BY <1>2, <1>3 DEF WaitingIn
  <1>5. Sound(y, hand)
    BY <1>2, <1>3, <1>4 DEF Sound, Typed, Apart, Counted
  <1> QED BY <1>2, <1>5 DEF y

\* A call in hand is refused, taken into the dialog of its handle, or queued.
LEMMA Receiving ==
    ASSUME NEW b, NEW c \in Calls, Sound(b, {c}), Fit(b), Woken(b), Past(b), c \notin b.over
    PROVE  LET z == Receive(b, c)
           IN Sound(z, {}) /\ Fit(z) /\ Woken(z) /\ Past(z)
  <1> DEFINE key == HandleOf[c]
  <1> DEFINE same == Opened(b) /\ b.active.key = key
  <1> DEFINE z == Receive(b, c)
  <1>1. b \in Box /\ b.queue \in Seq(Calls) /\ b.refused \subseteq Handles /\ IsInjective(b.queue)
    BY DEF Sound, Typed, Apart, Box
  <1>2. c \notin Range(b.queue)
    BY DEF Sound, Apart, WaitingIn, Queued
  <1>3. CASE c \in Passwords /\ key \in b.refused
    <2> DEFINE refused == b.refused \ {key}
    <2> DEFINE y == [b EXCEPT !.refused = refused]
    <2>1. refused \in SUBSET Handles /\ y = [b EXCEPT !.refused = @ \ {key}]
      BY <1>1 DEF Box
    <2>2. z = Answer(y, c)
      BY <1>3 DEF Receive
    <2> HIDE DEF refused
    <2>3. /\ Sound(y, {c}) /\ y.active = b.active /\ y.queue = b.queue
          /\ y.incoming = b.incoming /\ y.locked = b.locked /\ y.animated = b.animated
          /\ y.asked = b.asked /\ y.over = b.over
      BY <2>1, Allowing
    <2> HIDE DEF y, z
    <2>4. Sound(z, {}) /\ Framed(y, z) /\ z.active = y.active /\ z.queue = y.queue
      BY <2>2, <2>3, Refusing
    <2>5. Fit(z) /\ Woken(z)
      BY <2>3, <2>4 DEF Fit, Woken, Opened, Framed
    <2>6. Past(z)
      BY <2>3, <2>4 DEF Past, Opened, Framed, Queued, Coming
    <2> QED BY <2>4, <2>5, <2>6 DEF z
  <1>4. CASE ~(c \in Passwords /\ key \in b.refused) /\ same /\ c \in Passwords /\ b.active.password
    <2> DEFINE x == AnswerPending(b)
    <2>1. b.active # None /\ ~b.active.closing /\ b.active \in Dialog /\ b.active.key = key
      BY <1>1, <1>4 DEF Opened, Box
    <2>2. Pending(b) = {b.active.pending} \ {None} /\ Entered(b) = b.active.entered
      BY <2>1 DEF Pending, Entered
    <2>3. /\ x \in Box /\ Framed(b, x)
          /\ x.queue = b.queue /\ x.active = b.active /\ x.late = b.late
          /\ x.answers = [d \in Calls |-> IF d \in Pending(b) THEN b.answers[d] + 1 ELSE b.answers[d]]
      BY <1>1, <2>2, Answering DEF AnswerPending
    <2>4. z = [x EXCEPT !.active.pending = c, !.active.busy = FALSE]
      BY <1>4 DEF Receive
    <2> HIDE DEF x
    <2> DEFINE dialog == [b.active EXCEPT !.pending = c, !.busy = FALSE]
    <2>5. /\ dialog \in Dialog /\ dialog.pending = c /\ dialog.closing = FALSE
          /\ dialog.key = b.active.key /\ dialog.password = b.active.password /\ dialog.entered = b.active.entered
      BY <2>1 DEF Dialog
    <2>6. z = [x EXCEPT !.active = dialog]
      BY <2>1, <2>3, <2>4 DEF Box, Dialog
    <2> HIDE DEF dialog, z
    <2>7. /\ z \in Box /\ Framed(x, z) /\ z.queue = x.queue /\ z.answers = x.answers /\ z.late = x.late
          /\ z.active = dialog
      BY <2>3, <2>5, <2>6 DEF Box, Framed
    <2>8. Framed(b, z) /\ z.active # None /\ c # None
      BY <2>3, <2>5, <2>7, PromptsAssumption DEF Framed
    <2>9. /\ Coming(z) = Coming(b) /\ Queued(z) = Queued(b) /\ Pending(z) = {c} /\ Entered(z) = Entered(b)
      BY <2>2, <2>3, <2>5, <2>7, <2>8 DEF Coming, Queued, Pending, Entered, Framed
    <2>10. Typed(z)
      BY <1>4, <2>1, <2>5, <2>7, <2>9 DEF Typed, Sound
    <2>11. c \notin WaitingIn(b) /\ c \in b.asked
      BY DEF Sound, Apart
    <2>12. WaitingIn(z) = (WaitingIn(b) \ Pending(b)) \cup {c}
      BY <2>3, <2>7, <2>9 DEF WaitingIn, Sound, Apart
    <2>13. z.incoming = b.incoming /\ z.queue = b.queue /\ z.asked = b.asked /\ z.late = b.late
      BY <2>3, <2>7, <2>8 DEF Framed
    <2>14. Apart(z, {})
      <3>1. c \notin Coming(b) /\ c \notin Queued(b) /\ c \notin b.late /\ c \notin Entered(b)
        BY <2>11 DEF WaitingIn
      <3> QED BY <2>9, <2>11, <2>12, <2>13, <3>1 DEF Apart, Sound
    <2>15. Counted(z, {})
      <3>1. \A d \in Calls : z.answers[d] = IF d \in Pending(b) THEN b.answers[d] + 1 ELSE b.answers[d]
        BY <2>3, <2>7
      <3>2. Pending(b) \subseteq WaitingIn(b)
        BY DEF WaitingIn
      <3>3. Leaves(b, z, {c}, {}, Pending(b))
        BY <1>1, <2>11, <2>12, <2>13, <3>1, <3>2 DEF Leaves, Box
      <3> QED BY <3>3, Leaving
    <2>16. Fit(z) /\ Woken(z)
      BY <1>4, <2>5, <2>7, <2>8 DEF Fit, Woken, Opened, Framed
    <2>17. Past(z)
      BY <2>5, <2>7, <2>8, <2>9 DEF Past, Framed
    <2> QED BY <2>10, <2>14, <2>15, <2>16, <2>17 DEF Sound, z
  <1>5. CASE ~(c \in Passwords /\ key \in b.refused) /\ same /\ ~(c \in Passwords /\ b.active.password)
    <2> DEFINE q == <<c>> \o b.queue
    <2> DEFINE y == [b EXCEPT !.queue = q]
    <2>1. q \in Seq(Calls) /\ IsInjective(q) /\ Range(q) = Queued(b) \cup {c}
      BY <1>1, <1>2, PrependFacts DEF Queued
    <2>2. y = [b EXCEPT !.queue = <<c>> \o @] /\ z = Respond(y)
      BY <1>1, <1>5 DEF Receive, Box
    <2> HIDE DEF q
    <2>3. Sound(y, {}) /\ Framed(b, y) /\ y.active = b.active /\ Past(y)
      BY <2>1, Queueing
    <2> HIDE DEF y, z
    <2>4. y.active # None
      BY <1>5, <2>3 DEF Opened
    <2>5. /\ Sound(z, {}) /\ Framed(y, z) /\ Queued(z) \subseteq Queued(y) /\ Fit(z) /\ Woken(z)
          /\ y.animated => ~Opened(z)
      BY <2>2, <2>3, <2>4, Responding
    <2>6. Past(z)
      BY <2>3, <2>5, StayingPast
    <2> QED BY <2>5, <2>6 DEF z
  <1>6. CASE ~(c \in Passwords /\ key \in b.refused) /\ ~same
    <2> DEFINE q == Append(b.queue, c)
    <2> DEFINE y == [b EXCEPT !.queue = q]
    <2>1. q \in Seq(Calls) /\ IsInjective(q) /\ Range(q) = Queued(b) \cup {c}
      BY <1>1, <1>2, AppendFacts DEF Queued
    <2>2. y = [b EXCEPT !.queue = Append(@, c)] /\ z = TakeNext(y)
      BY <1>1, <1>6 DEF Receive, Box
    <2> HIDE DEF q
    <2>3. Sound(y, {}) /\ Fit(y) /\ Past(y)
      BY <2>1, Queueing
    <2> HIDE DEF y, z
    <2>4. Sound(z, {}) /\ Woken(z) /\ Fit(z) /\ Past(z)
      BY <2>2, <2>3, TakingNext
    <2> QED BY <2>4 DEF z
  <1> QED BY <1>3, <1>4, <1>5, <1>6

\* Closing a handle: its dialog goes, and its calls leave the queue with an answer.
LEMMA Closing ==
    ASSUME NEW b, NEW key \in Handles, Sound(b, {}), Fit(b), Woken(b), Past(b)
    PROVE  LET z == CloseAll(b, key)
           IN Sound(z, {}) /\ Fit(z) /\ Woken(z) /\ Past(z)
  <1> DEFINE x == [b EXCEPT !.refused = @ \ {key}, !.over = @ \cup Overdue(b, key)]
  <1> DEFINE y == IF b.active # None /\ b.active.key = key THEN Respond(x) ELSE x
  <1> DEFINE out == {c \in Range(y.queue) : HandleOf[c] = key}
  <1> DEFINE w == [y EXCEPT !.queue = Others(y.queue, key)]
  <1> DEFINE z == CloseAll(b, key)
  <1>1. b \in Box /\ b.over \subseteq Calls /\ b.asked \subseteq Calls /\ b.refused \subseteq Handles
    BY DEF Sound, Typed, Box
  <1>2. Overdue(b, key) \subseteq b.asked /\ Overdue(b, key) \subseteq Calls
    BY <1>1 DEF Overdue
  <1>3. /\ x \in Box /\ x.queue = b.queue /\ x.active = b.active /\ x.late = b.late
        /\ x.answers = b.answers /\ x.incoming = b.incoming /\ x.locked = b.locked
        /\ x.animated = b.animated /\ x.asked = b.asked /\ x.over = b.over \cup Overdue(b, key)
    BY <1>1, <1>2 DEF Box
  <1> HIDE DEF x
  <1>4. /\ Coming(x) = Coming(b) /\ Queued(x) = Queued(b)
        /\ Pending(x) = Pending(b) /\ Entered(x) = Entered(b)
    BY <1>3 DEF Coming, Queued, Pending, Entered
  <1>5. WaitingIn(x) = WaitingIn(b)
    BY <1>3, <1>4 DEF WaitingIn
  <1>6. Sound(x, {}) /\ Fit(x) /\ Woken(x)
    BY <1>3, <1>4, <1>5 DEF Sound, Typed, Apart, Counted, Fit, Woken, Opened
  <1>7. /\ Sound(y, {}) /\ Fit(y) /\ Woken(y) /\ Queued(y) \subseteq Queued(x)
        /\ y.incoming = x.incoming /\ y.locked = x.locked /\ y.animated = x.animated
        /\ y.asked = x.asked /\ y.over = x.over
        /\ y.animated /\ Opened(y) => y = x /\ (b.active # None => b.active.key # key)
    <2>1. CASE b.active # None /\ b.active.key = key
      <3>1. y = Respond(x) /\ x.active # None
        BY <1>3, <2>1
      <3> HIDE DEF y
      <3>2. /\ Sound(y, {}) /\ Framed(x, y) /\ Queued(y) \subseteq Queued(x)
            /\ Fit(y) /\ Woken(y) /\ (x.animated => ~Opened(y))
        BY <1>6, <3>1, Responding
      <3> QED BY <3>2 DEF Framed
    <2>2. CASE ~(b.active # None /\ b.active.key = key)
      <3>1. y = x
        BY <2>2
      <3> HIDE DEF y
      <3> QED BY <1>6, <2>2, <3>1
    <2> QED BY <2>1, <2>2
  <1>8. z = AnswerAll([y EXCEPT !.queue = Others(@, key)], out)
    BY DEF CloseAll, x
  <1> HIDE DEF y, out
  <1>9. /\ y \in Box /\ y.queue \in Seq(Calls) /\ IsInjective(y.queue) /\ IsInjective(y.incoming)
    BY <1>7 DEF Sound, Typed, Apart, Box
  <1>10. /\ Others(y.queue, key) \in Seq(Calls) /\ IsInjective(Others(y.queue, key))
         /\ Range(Others(y.queue, key)) = {c \in Range(y.queue) : HandleOf[c] # key}
    BY <1>9, OthersFacts
  <1>11. z = AnswerAll(w, out)
    <2>1. w = [y EXCEPT !.queue = Others(@, key)]
      BY <1>9 DEF Box
    <2> HIDE DEF w, z
    <2> QED BY <1>8, <2>1
  <1>12. /\ w \in Box /\ Framed(y, w) /\ w.active = y.active /\ w.late = y.late /\ w.answers = y.answers
         /\ w.queue = Others(y.queue, key)
    BY <1>9, <1>10 DEF Box, Framed
  <1> HIDE DEF w, z
  <1>13. /\ z \in Box /\ Framed(w, z) /\ z.queue = w.queue /\ z.active = w.active /\ z.late = w.late
         /\ z.answers = [c \in Calls |-> IF c \in out THEN w.answers[c] + 1 ELSE w.answers[c]]
    BY <1>11, <1>12, Answering
  <1>14. /\ z.incoming = y.incoming /\ z.locked = y.locked /\ z.animated = y.animated
         /\ z.asked = y.asked /\ z.over = y.over /\ z.active = y.active /\ z.late = y.late
         /\ z.queue = Others(y.queue, key)
         /\ \A c \in Calls : z.answers[c] = IF c \in out THEN y.answers[c] + 1 ELSE y.answers[c]
    BY <1>12, <1>13 DEF Framed
  <1>15. /\ Coming(z) = Coming(y) /\ Pending(z) = Pending(y) /\ Entered(z) = Entered(y)
    BY <1>14 DEF Coming, Pending, Entered
  <1>16. Queued(z) = Queued(y) \ out /\ out \subseteq Queued(y)
         /\ \A c \in Queued(z) : HandleOf[c] # key
    BY <1>10, <1>14 DEF Queued, out
  <1>17. Sound(z, {})
    <2>1. Typed(z)
      BY <1>7, <1>13, <1>14, <1>15 DEF Typed, Sound
    <2>2. WaitingIn(z) = WaitingIn(y) \ out
      BY <1>7, <1>14, <1>15, <1>16 DEF WaitingIn, Sound, Apart
    <2>3. Apart(z, {})
      BY <1>7, <1>10, <1>14, <1>15, <1>16, <2>2 DEF Apart, Sound
    <2>4. out \subseteq WaitingIn(y)
      BY <1>16 DEF WaitingIn
    <2>5. Leaves(y, z, {}, {}, out)
      BY <1>9, <1>14, <2>2, <2>4 DEF Leaves, Box
    <2>6. Counted(z, {})
      BY <1>7, <2>5, Leaving
    <2> QED BY <2>1, <2>3, <2>6 DEF Sound
  <1>18. Fit(z)
    BY <1>7, <1>14 DEF Fit, Opened
  <1>19. Woken(z)
    <2>1. y.queue = <<>> => Queued(y) = {}
      BY DEF Queued, Range
    <2>2. Queued(z) = {} => z.queue = <<>>
      <3>1. z.queue \in Seq(Calls)
        BY <1>10, <1>14
      <3> QED BY <3>1, TailFacts DEF Queued
    <2> QED BY <1>7, <1>14, <1>16, <2>1, <2>2 DEF Woken
  <1>20. Past(z)
    <2>1. z.over = b.over \cup Overdue(b, key) /\ z.asked = b.asked /\ Coming(z) = Coming(b)
      BY <1>3, <1>4, <1>7, <1>14, <1>15 DEF Coming
    <2>2. Queued(z) \subseteq Queued(b)
      BY <1>4, <1>7, <1>16
    <2>3. \A c \in Overdue(b, key) : HandleOf[c] = key /\ c \notin Coming(b)
      BY DEF Overdue, Coming
    <2>4. z.over \subseteq z.asked
      BY <1>2, <2>1 DEF Past
    <2>5. z.over \cap (Queued(z) \cup Coming(z)) = {}
      BY <1>16, <2>1, <2>2, <2>3 DEF Past
    <2>6. ASSUME z.animated, Opened(z)
          PROVE  z.active.pending \notin z.over
      <3>1. Opened(y) /\ y.animated /\ z.active = y.active
        BY <1>14, <2>6 DEF Opened
      <3>2. y = x /\ b.active # None /\ b.active.key # key /\ z.active = b.active /\ Opened(b) /\ b.animated
        BY <1>3, <1>7, <3>1 DEF Opened
      <3>3. b.active.pending \notin b.over
        BY <3>2 DEF Past
      <3>4. b.active.pending # None => HandleOf[b.active.pending] = b.active.key
        BY <3>2 DEF Sound, Typed, Pending
      <3>5. b.active.pending \notin Overdue(b, key)
        BY <1>2, <2>3, <3>2, <3>4, PromptsAssumption
      <3> QED BY <2>1, <3>2, <3>3, <3>5
    <2> QED BY <2>4, <2>5, <2>6 DEF Past
  <1> QED BY <1>17, <1>18, <1>19, <1>20 DEF z

-----------------------------------------------------------------------------
PromptsInv == Sound(box, {}) /\ Fit(box) /\ Woken(box) /\ Past(box)

\* Asking puts a call in hand.
LEMMA AskingKeeps ==
    ASSUME PromptsInv, NEW c \in Calls, Ask(c)
    PROVE  PromptsInv'
  <1> DEFINE b == [box EXCEPT !.asked = @ \cup {c}]
  <1>1. box \in Box /\ c \notin box.asked /\ box.asked \subseteq Calls /\ box.incoming \in Seq(Calls \cup Handles)
    BY DEF PromptsInv, Sound, Typed, Box, Ask
  <1>2. /\ b \in Box /\ b.incoming = box.incoming /\ b.queue = box.queue /\ b.active = box.active
        /\ b.late = box.late /\ b.locked = box.locked /\ b.animated = box.animated /\ b.over = box.over
        /\ b.answers = box.answers /\ b.asked = box.asked \cup {c}
    BY <1>1 DEF Box
  <1>3. \/ box' = [b EXCEPT !.incoming = Append(@, c)]
        \/ box' = Receive(b, c)
        \/ box' = Answer(b, c)
    BY DEF Ask
  <1> HIDE DEF b
  <1>4. /\ Coming(b) = Coming(box) /\ Queued(b) = Queued(box)
        /\ Pending(b) = Pending(box) /\ Entered(b) = Entered(box)
    BY <1>2 DEF Coming, Queued, Pending, Entered
  <1>5. WaitingIn(b) = WaitingIn(box) /\ c \notin WaitingIn(box)
    BY <1>1, <1>2, <1>4 DEF WaitingIn, PromptsInv, Sound, Apart
  <1>6. Sound(b, {c})
    <2>1. Typed(b)
      BY <1>2, <1>4 DEF Typed, PromptsInv, Sound
    <2>2. Apart(b, {c})
      BY <1>2, <1>4, <1>5 DEF Apart, PromptsInv, Sound
    <2>3. Counted(b, {c})
      BY <1>1, <1>2, <1>5 DEF Counted, PromptsInv, Sound
    <2> QED BY <2>1, <2>2, <2>3 DEF Sound
  <1>7. Fit(b) /\ Woken(b) /\ Past(b) /\ c \notin b.over
    BY <1>1, <1>2, <1>4 DEF Fit, Woken, Past, Opened, PromptsInv
  <1>8. CASE box' = [b EXCEPT !.incoming = Append(@, c)]
    <2> DEFINE q == Append(b.incoming, c)
    <2>1. q \in Seq(Calls \cup Handles) /\ Range(q) = Range(b.incoming) \cup {c}
      BY <1>1, <1>2, AppendFacts
    <2>2. IsInjective(q)
      <3>1. IsInjective(b.incoming) /\ c \notin Range(b.incoming)
        BY <1>5, <1>6 DEF Sound, Apart, WaitingIn, Coming
      <3> QED BY <1>1, <1>2, <3>1, AppendFacts
    <2>3. box' = [b EXCEPT !.incoming = q]
      BY <1>2, <1>8 DEF Box
    <2> HIDE DEF q
    <2>4. /\ box' \in Box /\ box'.incoming = q /\ box'.queue = b.queue /\ box'.active = b.active
          /\ box'.late = b.late /\ box'.locked = b.locked /\ box'.animated = b.animated
          /\ box'.over = b.over /\ box'.answers = b.answers /\ box'.asked = b.asked
      BY <1>2, <2>1, <2>3 DEF Box
    <2>5. /\ Coming(box') = Coming(b) \cup {c} /\ Queued(box') = Queued(b)
          /\ Pending(box') = Pending(b) /\ Entered(box') = Entered(b)
      BY <2>1, <2>4 DEF Coming, Queued, Pending, Entered
    <2>6. WaitingIn(box') = WaitingIn(b) \cup {c}
      BY <2>4, <2>5 DEF WaitingIn
    <2>7. Sound(box', {})
      <3>1. Typed(box')
        BY <1>6, <2>4, <2>5 DEF Typed, Sound
      <3>2. c \notin Queued(b) /\ c \notin b.late /\ c \notin Pending(b) /\ c \notin Entered(b) /\ c \in b.asked
        BY <1>6 DEF Sound, Apart, WaitingIn
      <3>3. Apart(box', {})
        BY <1>6, <2>2, <2>4, <2>5, <2>6, <3>2 DEF Apart, Sound
      <3>4. Counted(box', {})
        BY <1>6, <2>4, <2>6 DEF Counted, Sound
      <3> QED BY <3>1, <3>3, <3>4 DEF Sound
    <2>8. Fit(box') /\ Woken(box') /\ Past(box')
      BY <1>7, <2>4, <2>5 DEF Fit, Woken, Past, Opened
    <2> QED BY <2>7, <2>8 DEF PromptsInv
  <1>9. CASE box' = Receive(b, c)
    BY <1>6, <1>7, <1>9, Receiving DEF PromptsInv
  <1>10. CASE box' = Answer(b, c)
    <2>1. Sound(box', {}) /\ Framed(b, box') /\ box'.active = b.active /\ box'.queue = b.queue
      BY <1>6, <1>10, Refusing
    <2>2. Fit(box') /\ Woken(box') /\ Past(box')
      BY <1>7, <2>1 DEF Fit, Woken, Past, Opened, Framed, Queued, Coming
    <2> QED BY <2>1, <2>2 DEF PromptsInv
  <1> QED BY <1>3, <1>8, <1>9, <1>10

\* What comes in may be a Close: it is nowhere but on its way.
LEMMA CloseKeeps ==
    ASSUME PromptsInv, NEW key \in Handles, Close(key)
    PROVE  PromptsInv'
  <1>1. CASE key \notin Keyring /\ box' = CloseAll(box, key)
    BY <1>1, Closing DEF PromptsInv
  <1>2. CASE key \notin Range(box.incoming) /\ box' = [box EXCEPT !.incoming = Append(@, key)]
    <2> DEFINE q == Append(box.incoming, key)
    <2>1. box \in Box /\ box.incoming \in Seq(Calls \cup Handles) /\ IsInjective(box.incoming)
      BY DEF PromptsInv, Sound, Typed, Apart, Box
    <2>2. q \in Seq(Calls \cup Handles) /\ Range(q) = Range(box.incoming) \cup {key} /\ IsInjective(q)
      BY <1>2, <2>1, AppendFacts
    <2>3. box' = [box EXCEPT !.incoming = q]
      BY <1>2, <2>1 DEF Box
    <2> HIDE DEF q
    <2>4. /\ box' \in Box /\ box'.incoming = q /\ box'.queue = box.queue /\ box'.active = box.active
          /\ box'.late = box.late /\ box'.locked = box.locked /\ box'.animated = box.animated
          /\ box'.over = box.over /\ box'.answers = box.answers /\ box'.asked = box.asked
      BY <2>1, <2>2, <2>3 DEF Box
    <2>5. /\ Coming(box') = Coming(box) /\ Queued(box') = Queued(box)
          /\ Pending(box') = Pending(box) /\ Entered(box') = Entered(box)
      BY <2>2, <2>4, PromptsAssumption DEF Coming, Queued, Pending, Entered
    <2>6. WaitingIn(box') = WaitingIn(box)
      BY <2>4, <2>5 DEF WaitingIn
    <2>7. Sound(box', {})
      BY <2>2, <2>4, <2>5, <2>6 DEF PromptsInv, Sound, Typed, Apart, Counted
    <2>8. Fit(box') /\ Woken(box') /\ Past(box')
      BY <2>4, <2>5 DEF PromptsInv, Fit, Woken, Past, Opened
    <2> QED BY <2>7, <2>8 DEF PromptsInv
  <1> QED BY <1>1, <1>2 DEF Close

\* The first that came in is a call, and in hand now, or a Close.
LEMMA IncomingKeeps ==
    ASSUME PromptsInv, Incoming
    PROVE  PromptsInv'
  <1> DEFINE m == Head(box.incoming)
  <1> DEFINE b == [box EXCEPT !.incoming = Tail(@)]
  <1>1. /\ box \in Box /\ box.incoming \in Seq(Calls \cup Handles) /\ IsInjective(box.incoming)
        /\ box.incoming # <<>>
    BY DEF PromptsInv, Sound, Typed, Apart, Box, Incoming
  <1>2. /\ m \in Calls \cup Handles /\ Tail(box.incoming) \in Seq(Calls \cup Handles)
        /\ Range(box.incoming) = Range(Tail(box.incoming)) \cup {m}
        /\ IsInjective(Tail(box.incoming)) /\ m \notin Range(Tail(box.incoming))
    BY <1>1, TailFacts
  <1>3. /\ b \in Box /\ b.incoming = Tail(box.incoming) /\ b.queue = box.queue /\ b.active = box.active
        /\ b.late = box.late /\ b.locked = box.locked /\ b.animated = box.animated /\ b.over = box.over
        /\ b.answers = box.answers /\ b.asked = box.asked
    BY <1>1, <1>2 DEF Box
  <1>4. \/ m \in Calls /\ (box' = Receive(b, m) \/ box' = Answer(b, m))
        \/ m \in Handles /\ (box' = CloseAll(b, m) \/ box' = b)
    BY DEF Incoming
  <1> HIDE DEF b, m
  <1>5. /\ Coming(b) = Coming(box) \ {m} /\ Queued(b) = Queued(box)
        /\ Pending(b) = Pending(box) /\ Entered(b) = Entered(box)
    BY <1>2, <1>3 DEF Coming, Queued, Pending, Entered
  <1>6. Typed(b) /\ Fit(b) /\ Woken(b) /\ Past(b)
    BY <1>3, <1>5 DEF PromptsInv, Sound, Typed, Fit, Woken, Past, Opened
  <1>7. CASE m \in Calls
    <2>1. m \in Coming(box)
      BY <1>2, <1>7 DEF Coming
    <2>2. WaitingIn(b) = WaitingIn(box) \ {m} /\ m \in WaitingIn(box)
      BY <1>3, <1>5, <2>1 DEF WaitingIn, PromptsInv, Sound, Apart
    <2>3. Apart(b, {m})
      BY <1>2, <1>3, <1>5, <2>2 DEF Apart, PromptsInv, Sound
    <2>4. Counted(b, {m})
      BY <1>3, <2>2 DEF Counted, PromptsInv, Sound
    <2>5. Sound(b, {m}) /\ m \notin b.over
      BY <1>3, <1>6, <2>1, <2>3, <2>4 DEF Sound, Past, PromptsInv
    <2>6. CASE box' = Receive(b, m)
      BY <1>6, <1>7, <2>5, <2>6, Receiving DEF PromptsInv
    <2>7. CASE box' = Answer(b, m)
      <3>1. Sound(box', {}) /\ Framed(b, box') /\ box'.active = b.active /\ box'.queue = b.queue
        BY <1>7, <2>5, <2>7, Refusing
      <3>2. Fit(box') /\ Woken(box') /\ Past(box')
        BY <1>6, <3>1 DEF Fit, Woken, Past, Opened, Framed, Queued, Coming
      <3> QED BY <3>1, <3>2 DEF PromptsInv
    <2> QED BY <1>4, <1>7, <2>6, <2>7, PromptsAssumption
  <1>8. CASE m \in Handles
    <2>1. Coming(b) = Coming(box)
      BY <1>5, <1>8, PromptsAssumption DEF Coming
    <2>2. WaitingIn(b) = WaitingIn(box)
      BY <1>3, <1>5, <2>1 DEF WaitingIn
    <2>3. Sound(b, {})
      BY <1>2, <1>3, <1>5, <1>6, <2>1, <2>2 DEF Sound, Apart, Counted, PromptsInv
    <2>4. CASE box' = CloseAll(b, m)
      BY <1>6, <1>8, <2>3, <2>4, Closing DEF PromptsInv
    <2>5. CASE box' = b
      BY <1>6, <2>3, <2>5 DEF PromptsInv
    <2> QED BY <1>4, <1>8, <2>4, <2>5, PromptsAssumption
  <1> QED BY <1>2, <1>7, <1>8

\* What a person or the lock does to a dialog ends in an answer.
LEMMA RespondKeeps ==
    ASSUME NEW b, Sound(b, {}), Past(b), b.active # None, box' = Respond(b)
    PROVE  PromptsInv'
  <1>1. /\ Sound(box', {}) /\ Framed(b, box') /\ Queued(box') \subseteq Queued(b)
        /\ Fit(box') /\ Woken(box') /\ (b.animated => ~Opened(box'))
    BY Responding
  <1>2. Past(box')
    BY <1>1, StayingPast
  <1> QED BY <1>1, <1>2 DEF PromptsInv

\* A secret that was entered is still to be handed over.
LEMMA EnterKeeps ==
    ASSUME PromptsInv, Enter
    PROVE  PromptsInv'
  <1> DEFINE c == box.active.pending
  <1> DEFINE dialog == [box.active EXCEPT !.entered = @ \cup {c}, !.pending = None, !.busy = TRUE]
  <1>1. /\ box \in Box /\ box.active # None /\ ~box.active.closing /\ box.active \in Dialog
        /\ box.active.password /\ ~box.active.busy
    BY DEF PromptsInv, Sound, Typed, Box, Enter, Opened
  <1>2. c # None /\ c \in Calls
    BY <1>1 DEF PromptsInv, Fit, Enter, Dialog
  <1>3. /\ dialog \in Dialog /\ dialog.pending = None /\ dialog.closing = FALSE /\ dialog.busy = TRUE
        /\ dialog.key = box.active.key /\ dialog.password = box.active.password
        /\ dialog.entered = box.active.entered \cup {c}
    BY <1>1, <1>2 DEF Dialog
  <1>4. box' = [box EXCEPT !.active = dialog]
    BY <1>1 DEF Enter, Box, Dialog
  <1> HIDE DEF dialog
  <1>5. /\ box' \in Box /\ Framed(box, box') /\ box'.queue = box.queue /\ box'.answers = box.answers
        /\ box'.late = box.late /\ box'.active = dialog /\ dialog # None
    BY <1>1, <1>3, <1>4, PromptsAssumption DEF Box, Framed
  <1>6. /\ Coming(box') = Coming(box) /\ Queued(box') = Queued(box)
        /\ Pending(box) = {c} /\ Entered(box) = box.active.entered
        /\ Pending(box') = {} /\ Entered(box') = Entered(box) \cup {c}
    BY <1>1, <1>2, <1>3, <1>5 DEF Coming, Queued, Pending, Entered, Framed
  <1> HIDE DEF c
  <1>7. Typed(box')
    BY <1>3, <1>5, <1>6 DEF Typed, PromptsInv, Sound
  <1>8. WaitingIn(box') = WaitingIn(box)
    BY <1>5, <1>6 DEF WaitingIn
  <1>9. box'.incoming = box.incoming /\ box'.asked = box.asked
    BY <1>5 DEF Framed
  <1>10. Apart(box', {})
    BY <1>5, <1>6, <1>8, <1>9 DEF Apart, PromptsInv, Sound
  <1>11. Counted(box', {})
    BY <1>5, <1>8, <1>9 DEF Counted, PromptsInv, Sound
  <1>12. Fit(box')
    BY <1>1, <1>3, <1>5 DEF Fit, Opened, PromptsInv, Framed
  <1>13. Woken(box')
    BY <1>5 DEF Woken
  <1>14. Past(box')
    <2>1. None \notin box.over
      BY <1>1, PromptsAssumption DEF Box
    <2> QED BY <1>3, <1>5, <1>6, <2>1 DEF Past, PromptsInv, Framed
  <1> QED BY <1>7, <1>10, <1>11, <1>12, <1>13, <1>14 DEF PromptsInv, Sound

LEMMA AllowKeeps ==
    ASSUME PromptsInv, Allow
    PROVE  PromptsInv'
  BY RespondKeeps DEF Allow, Opened, PromptsInv

LEMMA DenyKeeps ==
    ASSUME PromptsInv, Deny
    PROVE  PromptsInv'
  <1>1. /\ box \in Box /\ box.active # None /\ box.active \in Dialog /\ box.refused \subseteq Handles
    BY DEF PromptsInv, Sound, Typed, Box, Deny, Opened
  <1>2. CASE box.active.pending # None
    BY <1>1, <1>2, RespondKeeps DEF Deny, PromptsInv
  <1>3. CASE box.active.pending = None
    <2> DEFINE refused == box.refused \cup {box.active.key}
    <2> DEFINE b == [box EXCEPT !.refused = refused]
    <2>1. refused \in SUBSET Handles
      BY <1>1 DEF Dialog
    <2>2. b = [box EXCEPT !.refused = @ \cup {box.active.key}]
      BY <1>1 DEF Box
    <2>3. box' = Respond(b)
      BY <1>3, <2>2 DEF Deny
    <2> HIDE DEF refused
    <2>4. /\ Sound(b, {}) /\ b.active = box.active /\ b.queue = box.queue
          /\ b.incoming = box.incoming /\ b.locked = box.locked /\ b.animated = box.animated
          /\ b.asked = box.asked /\ b.over = box.over
      BY <2>1, Allowing DEF PromptsInv
    <2> HIDE DEF b
    <2>5. Past(b)
      BY <2>4 DEF Past, Opened, Queued, Coming, PromptsInv
    <2> QED BY <1>1, <2>3, <2>4, <2>5, RespondKeeps
  <1> QED BY <1>2, <1>3

\* The lock comes and goes.
LEMMA Locking ==
    ASSUME PromptsInv, NEW locked \in BOOLEAN
    PROVE  LET b == [box EXCEPT !.locked = locked]
           IN Sound(b, {}) /\ Past(b) /\ b.active = box.active /\ b.queue = box.queue /\ b.locked = locked
  <1> DEFINE b == [box EXCEPT !.locked = locked]
  <1>1. box \in Box
    BY DEF PromptsInv, Sound, Typed
  <1>2. /\ b \in Box /\ b.queue = box.queue /\ b.active = box.active /\ b.late = box.late
        /\ b.answers = box.answers /\ b.incoming = box.incoming /\ b.locked = locked
        /\ b.animated = box.animated /\ b.asked = box.asked /\ b.over = box.over
    BY <1>1 DEF Box
  <1> HIDE DEF b
  <1>3. /\ Coming(b) = Coming(box) /\ Queued(b) = Queued(box)
        /\ Pending(b) = Pending(box) /\ Entered(b) = Entered(box)
    BY <1>2 DEF Coming, Queued, Pending, Entered
  <1>4. WaitingIn(b) = WaitingIn(box)
    BY <1>2, <1>3 DEF WaitingIn
  <1>5. Sound(b, {}) /\ Past(b)
    BY <1>2, <1>3, <1>4 DEF Sound, Typed, Apart, Counted, Past, Opened, PromptsInv
  <1> QED BY <1>2, <1>5 DEF b

LEMMA LockKeeps ==
    ASSUME PromptsInv, Lock
    PROVE  PromptsInv'
  <1> DEFINE b == [box EXCEPT !.locked = TRUE]
  <1>1. Sound(b, {}) /\ Past(b) /\ b.active = box.active /\ b.queue = box.queue /\ b.locked = TRUE
    BY Locking
  <1>2. box' = IF Opened(b) THEN Respond(b) ELSE b
    BY DEF Lock
  <1> HIDE DEF b
  <1>3. CASE Opened(b)
    <2>1. b.active # None /\ box' = Respond(b)
      BY <1>2, <1>3 DEF Opened
    <2> QED BY <1>1, <2>1, RespondKeeps
  <1>4. CASE ~Opened(b)
    <2>1. Fit(b) /\ Woken(b)
      BY <1>1, <1>4 DEF Fit, Woken
    <2> QED BY <1>1, <1>2, <1>4, <2>1 DEF PromptsInv
  <1> QED BY <1>3, <1>4

LEMMA UnlockKeeps ==
    ASSUME PromptsInv, Unlock
    PROVE  PromptsInv'
  <1> DEFINE b == [box EXCEPT !.locked = FALSE]
  <1>1. Sound(b, {}) /\ Past(b) /\ b.active = box.active /\ b.queue = box.queue /\ b.locked = FALSE
    BY Locking
  <1>2. box' = TakeNext(b)
    BY DEF Unlock
  <1> HIDE DEF b
  <1>3. Fit(b)
    BY <1>1 DEF Fit, Opened, PromptsInv
  <1> QED BY <1>1, <1>2, <1>3, TakingNext DEF PromptsInv

\* A secret was handed over, in the dialog or after it.
LEMMA DeliveredKeeps ==
    ASSUME PromptsInv, NEW c \in Calls, Delivered(c)
    PROVE  PromptsInv'
  <1>1. box \in Box
    BY DEF PromptsInv, Sound, Typed
  <1>2. CASE /\ box.active # None /\ c \in box.active.entered
             /\ LET b == Answer([box EXCEPT !.active.entered = @ \ {c}], c)
                IN box' = b \/ box' = Respond(b)
    <2> DEFINE dialog == [box.active EXCEPT !.entered = @ \ {c}]
    <2> DEFINE b == [box EXCEPT !.active = dialog]
    <2>1. box.active \in Dialog /\ c \in Entered(box)
      BY <1>1, <1>2 DEF Box, Entered
    <2>2. /\ dialog \in Dialog /\ dialog.pending = box.active.pending /\ dialog.closing = box.active.closing
          /\ dialog.key = box.active.key /\ dialog.password = box.active.password
          /\ dialog.busy = box.active.busy /\ dialog.entered = box.active.entered \ {c}
      BY <2>1 DEF Dialog
    <2>3. b = [box EXCEPT !.active.entered = @ \ {c}]
      BY <1>1, <2>1 DEF Box, Dialog
    <2>4. box' = Answer(b, c) \/ box' = Respond(Answer(b, c))
      BY <1>2, <2>3
    <2> HIDE DEF dialog
    <2>5. /\ b \in Box /\ b.queue = box.queue /\ b.active = dialog /\ b.late = box.late
          /\ b.answers = box.answers /\ b.incoming = box.incoming /\ b.locked = box.locked
          /\ b.animated = box.animated /\ b.asked = box.asked /\ b.over = box.over /\ dialog # None
      BY <1>1, <2>2, PromptsAssumption DEF Box
    <2> HIDE DEF b
    <2>6. /\ Coming(b) = Coming(box) /\ Queued(b) = Queued(box)
          /\ Pending(b) = Pending(box) /\ Entered(b) = Entered(box) \ {c}
      BY <1>2, <2>2, <2>5 DEF Coming, Queued, Pending, Entered
    <2>7. WaitingIn(b) = WaitingIn(box) \ {c} /\ c \in WaitingIn(box)
      BY <2>1, <2>5, <2>6 DEF WaitingIn, PromptsInv, Sound, Apart
    <2>8. Sound(b, {c})
      <3>1. Typed(b)
        BY <1>2, <2>2, <2>5, <2>6 DEF Typed, PromptsInv, Sound
      <3>2. Apart(b, {c})
        BY <2>5, <2>6, <2>7 DEF Apart, PromptsInv, Sound
      <3>3. Counted(b, {c})
        BY <2>5, <2>7 DEF Counted, PromptsInv, Sound
      <3> QED BY <3>1, <3>2, <3>3 DEF Sound
    <2>9. Fit(b) /\ Woken(b) /\ Past(b)
      BY <1>2, <2>2, <2>5, <2>6 DEF Fit, Woken, Past, Opened, PromptsInv
    <2> DEFINE z == Answer(b, c)
    <2>10. Sound(z, {}) /\ Framed(b, z) /\ z.active = b.active /\ z.queue = b.queue
      BY <2>8, Refusing
    <2>11. box' = z \/ box' = Respond(z)
      BY <2>4
    <2> HIDE DEF z
    <2>12. Fit(z) /\ Woken(z) /\ Past(z)
      BY <2>9, <2>10 DEF Fit, Woken, Past, Opened, Framed, Queued, Coming
    <2>13. CASE box' = z
      BY <2>10, <2>12, <2>13 DEF PromptsInv
    <2>14. CASE box' = Respond(z)
      BY <2>5, <2>10, <2>12, <2>14, RespondKeeps
    <2> QED BY <2>11, <2>13, <2>14
  <1>3. CASE c \in box.late /\ box' = Answer([box EXCEPT !.late = @ \ {c}], c)
    <2> DEFINE b == [box EXCEPT !.late = @ \ {c}]
    <2>1. /\ b \in Box /\ b.queue = box.queue /\ b.active = box.active /\ b.late = box.late \ {c}
          /\ b.answers = box.answers /\ b.incoming = box.incoming /\ b.locked = box.locked
          /\ b.animated = box.animated /\ b.asked = box.asked /\ b.over = box.over
      BY <1>1 DEF Box
    <2>2. box' = Answer(b, c)
      BY <1>3
    <2> HIDE DEF b
    <2>3. /\ Coming(b) = Coming(box) /\ Queued(b) = Queued(box)
          /\ Pending(b) = Pending(box) /\ Entered(b) = Entered(box)
      BY <2>1 DEF Coming, Queued, Pending, Entered
    <2>4. WaitingIn(b) = WaitingIn(box) \ {c} /\ c \in WaitingIn(box)
      BY <1>3, <2>1, <2>3 DEF WaitingIn, PromptsInv, Sound, Apart
    <2>5. Sound(b, {c})
      <3>1. Typed(b)
        BY <2>1, <2>3 DEF Typed, PromptsInv, Sound
      <3>2. Apart(b, {c})
        BY <2>1, <2>3, <2>4 DEF Apart, PromptsInv, Sound
      <3>3. Counted(b, {c})
        BY <2>1, <2>4 DEF Counted, PromptsInv, Sound
      <3> QED BY <3>1, <3>2, <3>3 DEF Sound
    <2>6. Sound(box', {}) /\ Framed(b, box') /\ box'.active = b.active /\ box'.queue = b.queue
      BY <2>2, <2>5, Refusing
    <2>7. Fit(box') /\ Woken(box') /\ Past(box')
      BY <2>1, <2>6 DEF Fit, Woken, Past, Opened, Framed, Queued, Coming, PromptsInv
    <2> QED BY <2>6, <2>7 DEF PromptsInv
  <1> QED BY <1>2, <1>3 DEF Delivered

LEMMA ClosedKeeps ==
    ASSUME PromptsInv, Closed
    PROVE  PromptsInv'
  BY Finishing DEF Closed, PromptsInv

-----------------------------------------------------------------------------
(* What the other theorems rest on: however calls, Closes, the person and the lock interleave, a*)
(* call is in one place or was answered once, a dialog fits what it serves, and what was closed *)
(* neither waits nor shows.                                                                     *)
THEOREM PromptsInvariance == Spec => []PromptsInv
  <1>1. Init => PromptsInv
    <2> SUFFICES ASSUME NEW locked \in BOOLEAN, NEW animated \in BOOLEAN,
                        box = [incoming |-> <<>>, queue |-> <<>>, refused |-> {}, active |-> None,
                               late |-> {}, locked |-> locked, animated |-> animated, asked |-> {},
                               answers |-> [c \in Calls |-> 0], over |-> {}]
                 PROVE  PromptsInv
      BY DEF Init
    <2>1. /\ box.incoming = <<>> /\ box.queue = <<>> /\ box.active = None /\ box.late = {}
          /\ box.asked = {} /\ box.over = {} /\ box.answers = [c \in Calls |-> 0]
      OBVIOUS
    <2>2. box \in Box
      BY DEF Box
    <2>3. Coming(box) = {} /\ Queued(box) = {} /\ Pending(box) = {} /\ Entered(box) = {}
      BY <2>1 DEF Coming, Queued, Pending, Entered, Range
    <2>4. WaitingIn(box) = {}
      BY <2>1, <2>3 DEF WaitingIn
    <2>5. Apart(box, {})
      <3>1. IsInjective(<<>>)
        BY DEF IsInjective
      <3> QED BY <2>1, <2>3, <2>4, <3>1 DEF Apart
    <2>6. Typed(box) /\ Counted(box, {})
      BY <2>1, <2>2, <2>3 DEF Typed, Counted
    <2>7. Fit(box) /\ Woken(box) /\ Past(box)
      BY <2>1, <2>3 DEF Fit, Woken, Past, Opened
    <2> QED BY <2>5, <2>6, <2>7 DEF PromptsInv, Sound
  <1>2. ASSUME PromptsInv, [Next]_box
        PROVE  PromptsInv'
    <2>1. ASSUME NEW c \in Calls, Ask(c) PROVE PromptsInv'
      BY <1>2, <2>1, AskingKeeps
    <2>2. ASSUME NEW c \in Calls, Delivered(c) PROVE PromptsInv'
      BY <1>2, <2>2, DeliveredKeeps
    <2>3. ASSUME NEW key \in Handles, Close(key) PROVE PromptsInv'
      BY <1>2, <2>3, CloseKeeps
    <2>4. CASE Incoming
      BY <1>2, <2>4, IncomingKeeps
    <2>5. CASE Enter
      BY <1>2, <2>5, EnterKeeps
    <2>6. CASE Allow
      BY <1>2, <2>6, AllowKeeps
    <2>7. CASE Deny
      BY <1>2, <2>7, DenyKeeps
    <2>8. CASE Lock
      BY <1>2, <2>8, LockKeeps
    <2>9. CASE Unlock
      BY <1>2, <2>9, UnlockKeeps
    <2>10. CASE Closed
      BY <1>2, <2>10, ClosedKeeps
    <2>11. CASE UNCHANGED box
      BY <1>2, <2>11 DEF PromptsInv
    <2> QED BY <1>2, <2>1, <2>2, <2>3, <2>4, <2>5, <2>6, <2>7, <2>8, <2>9, <2>10, <2>11 DEF Next
  <1> QED BY <1>1, <1>2, PTL DEF Spec

(* The prompter's state is typed, and its dialog serves calls of one handle and kind. *)
THEOREM PromptsTyping == Spec => []TypeOK
  <1>1. PromptsInv => TypeOK
    BY DEF PromptsInv, Sound, Typed, TypeOK, Pending, Entered
  <1> QED BY <1>1, PromptsInvariance, PTL

(* respond, finished, close and the refusals in receive answer each call once, whatever is still*)
(* being handed over when a dialog goes.                                                        *)
THEOREM AnsweredOnce == Spec => []ExactlyOnce
  <1>1. PromptsInv => ExactlyOnce
    <2>1. Waiting = WaitingIn(box)
      BY DEF Waiting, WaitingIn, Coming, Queued, Pending, Entered
    <2> QED BY <2>1 DEF PromptsInv, Sound, Counted, ExactlyOnce
  <1> QED BY <1>1, PromptsInvariance, PTL

(* next is called wherever a call could come to wait for no reason, and never shows a dialog    *)
(* over the lock.                                                                               *)
THEOREM AsksInTurn == Spec => []InTurn
  <1>1. PromptsInv => InTurn
    BY DEF PromptsInv, Fit, Woken, InTurn
  <1> QED BY <1>1, PromptsInvariance, PTL

(* serialize keeps a Close behind the calls it closes, so close finds them all. *)
THEOREM ClosingEnds == Spec => []ClosedIsOver
  <1>1. PromptsInv => ClosedIsOver
    BY DEF PromptsInv, Past, Queued, ClosedIsOver
  <1> QED BY <1>1, PromptsInvariance, PTL
===============================================================================
