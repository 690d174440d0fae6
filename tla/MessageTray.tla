----------------------------- MODULE MessageTray ----------------------------
(***************************************************************************)
(* Kestrel's notifications: the daemon that takes them from apps, the      *)
(* sources that keep them, and the message tray that shows one banner      *)
(* after another.                                                          *)
(*                                                                         *)
(* Everything runs without a break on Kestrel's only thread, one handler   *)
(* calling the next through signals, so a step of an app, of the person or *)
(* of a timer is a chain of operators on one record.  What a banner looks  *)
(* like, its sound and the holds of extensions are left out; do not        *)
(* disturb stands for whatever quiets banners.                             *)
(***************************************************************************)
EXTENDS Filters, SequencesExt

CONSTANTS
    Sources,        \* the apps
    Notifications,  \* what they may notify about, each under one id
    SourceOf,       \* whose each is
    KeptInList,     \* sources whose policy keeps notifications in the list
    Transient,      \* notifications that aren't kept anyhow
    Resident,       \* notifications that stay when their app is opened
    Urgencies,      \* how urgent each may come
    MaxQueue,       \* MAX_NOTIFICATIONS_IN_QUEUE
    MaxPerSource,   \* MAX_NOTIFICATIONS_PER_SOURCE
    MaxMoves,       \* bound: what the person and the desktop do in one behaviour, not counting
                    \* what undoes it
    None            \* no notification

LOW == 0
NORMAL == 1
CRITICAL == 3

ASSUME TrayAssumption ==
    /\ SourceOf \in [Notifications -> Sources]
    /\ Urgencies \in [Notifications -> SUBSET {LOW, NORMAL, CRITICAL}]
    /\ KeptInList \subseteq Sources /\ Transient \cup Resident \subseteq Notifications
    /\ MaxQueue \in Nat \ {0} /\ MaxPerSource \in Nat \ {0, 1} /\ MaxMoves \in Nat
    /\ None \notin Notifications

VARIABLES
    desk,   \* the tray, the sources and the desktop around them
    moves,  \* how often the person or the desktop did something
    muted   \* history: those in the tray when their source was turned off

vars == <<desk, moves, muted>>

Desk ==
    [\* the tray
     queue      : Seq(Notifications),
     shown      : Notifications \cup {None},
     state      : {"hidden", "showing", "shown", "hiding"},
     removed    : BOOLEAN,   \* notificationRemoved
     timer      : BOOLEAN,   \* notificationTimeoutId is armed
     leftTimer  : BOOLEAN,   \* notificationLeftTimeoutId is armed
     active     : BOOLEAN,   \* userActiveWhileNotificationShown
     pointer    : BOOLEAN,   \* pointerInNotification
     hovered    : BOOLEAN,   \* notificationHovered
     held       : BOOLEAN,   \* bannerHeld: somebody swipes it
     heard      : SUBSET Sources,  \* MessageTray.sources, whose signals it follows
     \* the sources and their notifications
     enabled    : SUBSET Sources,  \* NotificationPolicy.enable
     list       : [Sources -> Seq(Notifications)],
     urgency    : [Notifications -> {LOW, NORMAL, CRITICAL}],
     seen       : SUBSET Notifications,  \* acknowledged
     discarding : SUBSET Notifications,  \* discardSoon's idle handlers
     \* the desktop
     watched    : BOOLEAN,   \* the idle monitor tells when the person is back
     away       : BOOLEAN,   \* nobody used the computer in the last second
     blocked    : BOOLEAN,   \* the notification center is open
     mode       : BOOLEAN,   \* sessionMode.hasNotifications
     busy       : BOOLEAN,
     fullscreen : BOOLEAN,
     quiet      : BOOLEAN]   \* do not disturb

Live(d) == UNION {Range(d.list[s]) : s \in Sources}
InTray(d) == Range(d.queue) \cup ({d.shown} \ {None})

Brief(n) == n \in Transient \/ SourceOf[n] \notin KeptInList

-----------------------------------------------------------------------------
(* A notification goes. *)

\* Source.onNotificationDestroy. The last one takes its source with it.
Unlisted(d, n) ==
    LET s == SourceOf[n]
        rest == Excluding(d.list[s], {n})
    IN [d EXCEPT !.list[s] = rest,
                 !.heard = IF rest = <<>> THEN @ \ {s} ELSE @,
                 !.seen = @ \ {n},
                 !.discarding = @ \ {n}]

\* hideNotificationCompleted
HideCompleted(d) ==
    LET n == d.shown
        x == [d EXCEPT !.state = "hidden", !.shown = None,
                       !.pointer = FALSE, !.removed = FALSE, !.held = FALSE]
    IN IF ~d.removed /\ Brief(n) /\ n \in Live(d) THEN Unlisted(x, n) ELSE x

\* Without an animation the banner is gone before hideNotification returns, inside updateState:
\* what waits in the queue isn't looked at.
Hide(d, animate) ==
    LET x == [d EXCEPT !.leftTimer = FALSE]
    IN IF animate THEN [x EXCEPT !.state = "hiding"] ELSE HideCompleted(x)

UpdateShowing(d) == [d EXCEPT !.seen = @ \cup {d.shown}, !.state = "showing"]

Show(d) ==
    LET x == [d EXCEPT !.shown = Head(d.queue), !.queue = Tail(@),
                       !.active = ~d.away, !.watched = @ \/ d.away]
    IN [UpdateShowing(x) EXCEPT !.leftTimer = FALSE]

Urgent(d, n) == d.urgency[n] = CRITICAL

Expired(d) ==
    /\ d.state = "shown"
    /\ d.active /\ ~d.held /\ ~d.timer /\ ~d.pointer
    /\ ~Urgent(d, d.shown)

\* updateState. escaped is notificationExpired, which only expireNotification sets.
Update(d, escaped) ==
    IF d.blocked THEN d ELSE
    LET x == [d EXCEPT !.queue = Excluding(@, d.seen)]
        limited == x.busy \/ x.fullscreen
    IN CASE x.state = "hidden" ->
              IF x.mode /\ x.queue # <<>> /\ (limited => Urgent(x, Head(x.queue))) THEN Show(x) ELSE x
         [] x.state \in {"showing", "shown"} ->
              IF x.removed \/ ~x.mode \/ Expired(x) \/ escaped
              THEN Hide(x, x.mode /\ ~x.removed) ELSE x
         [] OTHER -> x

\* MessageTray.onNotificationRemoved
Removed(d, n) ==
    IF d.shown = n
    THEN LET x == [d EXCEPT !.removed = TRUE]
         IN IF d.state \in {"showing", "shown"}
            THEN Update([x EXCEPT !.pointer = FALSE, !.timer = FALSE], FALSE) ELSE x
    ELSE [d EXCEPT !.queue = Excluding(@, {n})]

\* As if the tray were told only of what it shows.
DestroyUnqueued(d, n) ==
    IF n \notin Live(d) THEN d
    ELSE Unlisted(IF SourceOf[n] \in d.heard /\ d.shown = n THEN Removed(d, n) ELSE d, n)

\* Notification.destroy: its source hears of it, and the tray, if it follows that source.
Destroy(d, n) ==
    IF n \notin Live(d) THEN d
    ELSE Unlisted(IF SourceOf[n] \in d.heard THEN Removed(d, n) ELSE d, n)

-----------------------------------------------------------------------------
(* A notification comes. *)

\* What bannerRules says under the policies everybody starts with.
BannerAllowed(d, n) == d.urgency[n] # LOW /\ (d.quiet => Urgent(d, n))

Of(d, q, u) == Picked(q, {i \in DOMAIN q : d.urgency[q[i]] = u})
Sorted(d, q) == Of(d, q, CRITICAL) \o Of(d, q, NORMAL) \o Of(d, q, LOW)

Waiting(d) == Len(d.queue) + IF d.shown # None THEN 1 ELSE 0

\* As if an urgent one took the last place of a full queue.
EnqueueInstead(d, n) ==
    IF Waiting(d) < MaxQueue THEN [d EXCEPT !.queue = Sorted(d, Append(@, n))]
    ELSE IF Urgent(d, n) /\ d.queue # <<>> THEN [d EXCEPT !.queue = Sorted(d, Append(SubSeq(@, 1, Len(@) - 1), n))]
    ELSE d

Enqueue(d, n) ==
    IF Waiting(d) < MaxQueue \/ Urgent(d, n)
    THEN [d EXCEPT !.queue = Sorted(d, Append(@, n))] ELSE d

\* MessageTray.onNotificationRequestBanner
Request(d, n) ==
    IF SourceOf[n] \notin d.heard \/ n \in d.seen THEN d
    ELSE IF ~BannerAllowed(d, n)
         THEN [d EXCEPT !.discarding = IF SourceOf[n] \in KeptInList THEN @ ELSE @ \cup {n}]
    ELSE IF d.shown = n THEN Update(UpdateShowing(d), FALSE)
    ELSE Update(IF n \in Range(d.queue) THEN d ELSE Enqueue(d, n), FALSE)

\* A notification that came before asks for a banner again with the urgency it had, and only when
\* it was seen. `known' holds it when its app has the focus and it's resident.
Again(d, n, u, known) ==
    LET x == IF n \in d.seen THEN Request([d EXCEPT !.seen = @ \ {n}], n) ELSE d
    IN [x EXCEPT !.urgency[n] = u, !.seen = @ \cup known]

\* As if there were always room.
ListedAlways(d, n) == Request([d EXCEPT !.list[SourceOf[n]] = Append(@, n)], n)

\* Source.addNotification: the oldest makes room.
Listed(d, n) ==
    LET s == SourceOf[n]
        x == IF Len(d.list[s]) >= MaxPerSource THEN Destroy(d, Head(d.list[s])) ELSE d
    IN Request([x EXCEPT !.list[s] = Append(@, n)], n)

\* The tray follows a new source when its policy lets it.
Anew(d, n, u, known) ==
    LET s == SourceOf[n]
        x == [d EXCEPT !.urgency[n] = u, !.seen = @ \cup known,
                       !.heard = IF d.list[s] = <<>> /\ s \in d.enabled THEN @ \cup {s} ELSE @]
    IN Listed(x, n)

-----------------------------------------------------------------------------
(* Apps. *)

\* A step of an app or of the tray leaves the bound on the others' steps alone.
Step(d) == desk' = d /\ UNCHANGED <<moves, muted>>

\* An id that was destroyed comes back once the tray has let go of it.
Notify(n) ==
    \E u \in Urgencies[n] : \E known \in SUBSET ({n} \cap Resident) :
       /\ n \notin Live(desk) => n \notin InTray(desk)
       /\ desk' = IF n \in Live(desk) THEN Again(desk, n, u, known) ELSE Anew(desk, n, u, known)
       /\ muted' = muted \ (IF n \in Live(desk) THEN {} ELSE {n})
       /\ UNCHANGED moves

\* The app or the person closes one, or the person activates one that isn't resident.
Close(n) == n \in Live(desk) /\ Step(Destroy(desk, n))

Discard(n) == n \in desk.discarding /\ Step(Destroy(desk, n))

\* The open notification center acknowledges what it lists.
Acknowledge(n) ==
    /\ desk.blocked /\ n \in Live(desk) \ desk.seen
    /\ Step([desk EXCEPT !.seen = @ \cup {n}])

\* One after another.
DestroyAll(d, q) ==
    LET after[i \in 0..Len(q)] == IF i = 0 THEN d ELSE Destroy(after[i - 1], q[i])
    IN after[Len(q)]

\* The app leaves the bus: all of its notifications go.
Leave(s) == desk.list[s] # <<>> /\ Step(DestroyAll(desk, desk.list[s]))

\* The app is opened: those that aren't resident go, the last first.
Open(s) == Step(DestroyAll(desk, Reverse(Excluding(desk.list[s], Resident))))

-----------------------------------------------------------------------------
(* The tray's animations and timers. *)

\* As if releasing a banner, or its arrival, let it stay.
ShowDoneUntimed(d) == d

ShowCompleted(d) == IF Urgent(d, d.shown) THEN d ELSE [d EXCEPT !.timer = TRUE]

ShowDone == desk.state = "showing" /\ Step(Update(ShowCompleted([desk EXCEPT !.state = "shown"]), FALSE))

\* As if nobody looked at the queue once a banner is gone.
HideDoneAlone == desk.state = "hiding" /\ Step(HideCompleted(desk))

HideDone == desk.state = "hiding" /\ Step(Update(HideCompleted(desk), FALSE))

\* It's put off while the person moves the pointer away from where the banner came up.
NotificationTimeout == desk.timer /\ Step(Update([desk EXCEPT !.timer = FALSE], FALSE))

\* Put off while the pointer stays near where it left.
NotificationLeftTimeout ==
    /\ desk.leftTimer
    /\ Step(Update([desk EXCEPT !.leftTimer = FALSE, !.pointer = FALSE, !.timer = FALSE], FALSE))

-----------------------------------------------------------------------------
(* The person and the desktop. *)

Move(d) == moves < MaxMoves /\ moves' = moves + 1 /\ desk' = d /\ UNCHANGED muted

Escape == desk.shown # None /\ ~desk.blocked /\ Move(Update(desk, TRUE))

\* A banner that comes up under the pointer isn't pointed at: it only stays for a while.
HoverEnter ==
    /\ desk.shown # None /\ ~desk.hovered
    /\ LET x == [desk EXCEPT !.hovered = TRUE, !.leftTimer = FALSE]
       IN Move(x) \/ Move(Update([x EXCEPT !.pointer = TRUE], FALSE))

HoverLeave == desk.hovered /\ Step([desk EXCEPT !.hovered = FALSE, !.leftTimer = TRUE])

Hold == desk.shown # None /\ ~desk.held /\ Move([desk EXCEPT !.held = TRUE, !.timer = FALSE])

Release ==
    /\ desk.held
    /\ LET x == [desk EXCEPT !.held = FALSE]
       IN Step(IF x.state = "shown" THEN ShowCompleted(x) ELSE x)

GoAway == ~desk.away /\ Move([desk EXCEPT !.away = TRUE])

\* onIdleMonitorBecameActive, for every banner that watched, whichever shows now.
ComeBack ==
    /\ desk.away
    /\ LET x == [desk EXCEPT !.away = FALSE, !.watched = FALSE]
       IN Step(IF desk.watched THEN Update([x EXCEPT !.active = TRUE, !.timer = TRUE], FALSE) ELSE x)

\* Something that was switched is switched back without counting.
Switch(back, d) == IF back THEN Step(d) ELSE Move(d)

SwitchBlocked == Switch(desk.blocked, Update([desk EXCEPT !.blocked = ~@], FALSE))

SwitchMode == Switch(~desk.mode, Update([desk EXCEPT !.mode = ~@], FALSE))

SwitchFullscreen == Switch(desk.fullscreen, Update([desk EXCEPT !.fullscreen = ~@], FALSE))

SwitchBusy == Switch(desk.busy, Update([desk EXCEPT !.busy = ~@, !.timer = @ /\ desk.busy], FALSE))

\* Nothing hears of it: what waits in the queue still shows.
SwitchQuiet == Switch(desk.quiet, [desk EXCEPT !.quiet = ~@])

\* onSourceEnableChanged: turning a source off takes none of its notifications out of the tray.
SwitchEnabled(s) ==
    /\ LET on == s \notin desk.enabled
           x == [desk EXCEPT !.enabled = IF on THEN @ \cup {s} ELSE @ \ {s},
                             !.heard = IF on /\ desk.list[s] # <<>> THEN @ \cup {s} ELSE @ \ {s}]
       IN /\ desk' = IF desk.list[s] # <<>> THEN Update(x, FALSE) ELSE x
          /\ on \/ moves < MaxMoves
          /\ moves' = IF on THEN moves ELSE moves + 1
    /\ muted' = muted \cup {n \in InTray(desk) : SourceOf[n] = s}

-----------------------------------------------------------------------------
Init ==
    /\ desk = [queue |-> <<>>, shown |-> None, state |-> "hidden", removed |-> FALSE,
               timer |-> FALSE, leftTimer |-> FALSE, active |-> FALSE, pointer |-> FALSE,
               hovered |-> FALSE, held |-> FALSE, heard |-> {},
               enabled |-> Sources, list |-> [s \in Sources |-> <<>>],
               urgency |-> [n \in Notifications |-> NORMAL], seen |-> {}, discarding |-> {},
               watched |-> FALSE, away |-> FALSE, blocked |-> FALSE, mode |-> TRUE,
               busy |-> FALSE, fullscreen |-> FALSE, quiet |-> FALSE]
    /\ moves = 0
    /\ muted = {}

Person ==
    \/ Escape \/ HoverEnter \/ HoverLeave \/ Hold \/ Release \/ GoAway \/ ComeBack
    \/ SwitchBlocked \/ SwitchMode \/ SwitchFullscreen \/ SwitchBusy \/ SwitchQuiet
    \/ \E s \in Sources : SwitchEnabled(s)

Next ==
    \/ \E n \in Notifications : Notify(n) \/ Close(n) \/ Discard(n) \/ Acknowledge(n)
    \/ \E s \in Sources : Leave(s) \/ Open(s)
    \/ ShowDone \/ HideDone \/ NotificationTimeout \/ NotificationLeftTimeout
    \/ Person

Spec == Init /\ [][Next]_vars

\* Animations end and timers go off. Nobody has to do anything else.
Fairness ==
    /\ WF_vars(ShowDone) /\ WF_vars(HideDone)
    /\ WF_vars(NotificationTimeout) /\ WF_vars(NotificationLeftTimeout)

FairSpec == Spec /\ Fairness

-----------------------------------------------------------------------------
(* Type correctness of the tray, its sources and the desktop around them; no source keeps    *)
(* more than it may.                                                                         *)
TypeOK ==
    /\ desk \in Desk
    /\ \A s \in Sources : Len(desk.list[s]) <= MaxPerSource
    /\ moves \in 0..MaxMoves
    /\ muted \subseteq Notifications

(* The tray holds no notification twice, shows one exactly while a banner is up, and lets go   *)
(* of what was destroyed: only a banner on its way out may be of one, and the tray says so,    *)
(* of nothing that is still there.                                                             *)
(* (What a source was turned off with is the exception: nobody tells the tray of it any more.) *)
NoGhosts ==
    /\ desk.shown = None <=> desk.state = "hidden"
    /\ desk.shown \notin Range(desk.queue) /\ IsInjective(desk.queue)
    /\ desk.removed => desk.shown # None /\ desk.shown \notin Live(desk)
    /\ \A n \in InTray(desk) \ muted : n \in Live(desk) \/ (n = desk.shown /\ desk.removed)

CouldShow(d) ==
    /\ d.state = "hidden" /\ d.queue # <<>>
    /\ d.mode /\ ~d.blocked /\ ~d.busy /\ ~d.fullscreen

(* Something waits with nothing in its way only behind a banner that was taken down at once,   *)
(* as hideNotification does for a notification that was removed: every other end of a banner,  *)
(* arrival, switch or timer that lets the next one show also shows it.                         *)
WaitsOnlyBehindRemoved ==
    [][CouldShow(desk') => \/ CouldShow(desk)
                           \/ desk.state \in {"showing", "shown"} /\ desk.shown \notin Live(desk')]_vars

(* What waits in the queue leaves it to be shown, or because it was seen elsewhere or is gone. *)
NothingSkipped ==
    [][\A n \in Range(desk.queue) \ Range(desk'.queue) :
          n = desk'.shown \/ n \in desk.seen \/ n \notin Live(desk')]_vars

\* Nothing keeps this banner up.
Lingers(n) ==
    /\ desk.shown = n /\ desk.state = "shown" /\ ~Urgent(desk, n) /\ n \in desk.seen
    /\ desk.active /\ ~desk.held /\ ~desk.pointer /\ ~desk.blocked

(* A banner that's up ends, unless it is urgent, swiped, pointed at, covered by the            *)
(* notification center, or came up while nobody was there: each of them, and each way out of   *)
(* it, leaves a timer behind that takes it down.                                               *)
BannersEnd == \A n \in Notifications : []<>~Lingers(n)

(* "Urgent only (the default)": whatever is quiet, an urgent notification nobody has seen is   *)
(* shown or waits to be (web/docs/src/content/docs/desktop/notifications.mdx:35).              *)
UrgentComesThrough ==
    \A n \in Live(desk) \ desk.seen :
       Urgent(desk, n) /\ SourceOf[n] \in desk.heard => n \in InTray(desk)
=============================================================================
