---------------------------- MODULE KeyringPrompts ----------------------------
(***************************************************************************)
(* The dialogs in which the keyring and GnuPG ask.                         *)
(*                                                                         *)
(* Callers ask under a handle and wait for an answer.  What the keyring    *)
(* sends is taken one at a time, each once its sender is known; GnuPG's    *)
(* pinentry is taken at once.  One dialog shows at a time and none while   *)
(* the session is locked.  A password dialog stays open while the caller   *)
(* tries what was typed, to ask again in it or to close it.  An answer is  *)
(* modelled as having been given, not by which one it is.                  *)
(***************************************************************************)
EXTENDS Filters, Functions

CONSTANTS
    Calls,       \* the calls there may be, each made at most once
    Handles,     \* a sender and its handle: what a call is asked under
    HandleOf,
    Passwords,   \* calls that ask for a password; the others ask for access
    Keyring,     \* handles of the keyring; the others are pinentry's
    None         \* no call, no dialog

Dialog ==
    [key      : Handles,
     password : BOOLEAN,               \* dialog.kind
     pending  : Calls \cup {None},
     entered  : SUBSET Calls,          \* calls whose secret is being handed over
     busy     : BOOLEAN,               \* the form takes nothing
     closing  : BOOLEAN]

ASSUME PromptsAssumption ==
    /\ HandleOf \in [Calls -> Handles]
    /\ Passwords \subseteq Calls /\ Keyring \subseteq Handles
    /\ Calls \cap Handles = {} /\ None \notin Calls \cup Handles \cup Dialog

VARIABLE box

Box ==
    [incoming : Seq(Calls \cup Handles),  \* the keyring's calls; a handle for a Close
     queue    : Seq(Calls),
     refused  : SUBSET Handles,
     active   : Dialog \cup {None},
     late     : SUBSET Calls,          \* being handed over though their dialog is gone
     locked   : BOOLEAN,
     animated : BOOLEAN,               \* a dialog fades out before it is gone
     asked    : SUBSET Calls,          \* history: made
     answers  : [Calls -> Nat],        \* history: answers given
     over     : SUBSET Calls]          \* history: made before a Close of their handle that was handled

Opened(b) == b.active # None /\ ~b.active.closing

Answer(b, c) == [b EXCEPT !.answers[c] = @ + 1]

AnswerAll(b, cs) == [b EXCEPT !.answers = [c \in Calls |-> IF c \in cs THEN @[c] + 1 ELSE @[c]]]

AnswerPending(b) == AnswerAll(b, {b.active.pending} \ {None})

\* show; a modal dialog that is new always opens.
Shown(c) ==
    [key |-> HandleOf[c], password |-> c \in Passwords, pending |-> c, entered |-> {},
     busy |-> FALSE, closing |-> FALSE]

\* As if the lock weren't looked at.
TakeNextLocked(b) ==
    IF b.active # None \/ b.queue = <<>> THEN b
    ELSE [b EXCEPT !.queue = Tail(@), !.active = Shown(Head(b.queue))]

\* next
TakeNext(b) ==
    IF b.active # None \/ b.locked \/ b.queue = <<>> THEN b
    ELSE [b EXCEPT !.queue = Tail(@), !.active = Shown(Head(b.queue))]

\* finished
Finished(b) ==
    LET x == AnswerPending(b)
    IN TakeNext([x EXCEPT !.active = None, !.late = @ \cup b.active.entered])

\* As if the call that was answered were kept.
RespondKeeping(b) ==
    LET x == [AnswerPending(b) EXCEPT !.active.closing = TRUE]
    IN IF b.animated THEN x ELSE Finished(x)

\* respond. Without animations the dialog is gone, and the next one shown, before close returns.
Respond(b) ==
    LET x == [AnswerPending(b) EXCEPT !.active.pending = None, !.active.closing = TRUE]
    IN IF b.animated THEN x ELSE Finished(x)

\* As if any password call were taken into the dialog that's open.
ReceiveAnywhere(b, c) ==
    IF c \in Passwords /\ HandleOf[c] \in b.refused
    THEN Answer([b EXCEPT !.refused = @ \ {HandleOf[c]}], c)
    ELSE IF Opened(b) /\ c \in Passwords /\ b.active.password
    THEN [AnswerPending(b) EXCEPT !.active.pending = c, !.active.busy = FALSE]
    ELSE TakeNext([b EXCEPT !.queue = Append(@, c)])

Receive(b, c) ==
    LET key  == HandleOf[c]
        same == Opened(b) /\ b.active.key = key
    IN IF c \in Passwords /\ key \in b.refused THEN Answer([b EXCEPT !.refused = @ \ {key}], c)
       ELSE IF same /\ c \in Passwords /\ b.active.password
       THEN [AnswerPending(b) EXCEPT !.active.pending = c, !.active.busy = FALSE]
       ELSE IF same THEN Respond([b EXCEPT !.queue = <<c>> \o @])
       ELSE TakeNext([b EXCEPT !.queue = Append(@, c)])

Overdue(b, key) == {c \in b.asked : HandleOf[c] = key /\ c \notin Range(b.incoming)}

\* As if only the dialog were closed.
CloseShown(b, key) ==
    LET x == [b EXCEPT !.refused = @ \ {key}, !.over = @ \cup Overdue(b, key)]
    IN IF b.active # None /\ b.active.key = key THEN Respond(x) ELSE x

\* The calls of a queue that aren't asked under a handle, in their order.
Others(q, key) == Excluding(q, {c \in Calls : HandleOf[c] = key})

\* close
CloseAll(b, key) ==
    LET x == [b EXCEPT !.refused = @ \ {key}, !.over = @ \cup Overdue(b, key)]
        y == IF b.active # None /\ b.active.key = key THEN Respond(x) ELSE x
    IN AnswerAll([y EXCEPT !.queue = Others(@, key)], {c \in Range(y.queue) : HandleOf[c] = key})

-----------------------------------------------------------------------------
(* The callers. *)

\* A call without a descriptor for its secret is refused.
Ask(c) ==
    /\ c \notin box.asked
    /\ LET b == [box EXCEPT !.asked = @ \cup {c}]
       IN \/ HandleOf[c] \in Keyring /\ box' = [b EXCEPT !.incoming = Append(@, c)]
          \/ HandleOf[c] \notin Keyring /\ box' = Receive(b, c)
          \/ HandleOf[c] \notin Keyring /\ c \in Passwords /\ box' = Answer(b, c)

\* Bound: one Close of a handle on its way.
Close(key) ==
    \/ /\ key \in Keyring /\ key \notin Range(box.incoming)
       /\ box' = [box EXCEPT !.incoming = Append(@, key)]
    \/ key \notin Keyring /\ box' = CloseAll(box, key)

\* serialize: the sender of the first is known. A call that isn't the keyring's, or is without a
\* descriptor, is answered with an error.
Incoming ==
    /\ box.incoming # <<>>
    /\ LET m == Head(box.incoming)
           b == [box EXCEPT !.incoming = Tail(@)]
       IN \/ m \in Calls /\ (box' = Receive(b, m) \/ box' = Answer(b, m))
          \/ m \in Handles /\ (box' = CloseAll(b, m) \/ box' = b)

-----------------------------------------------------------------------------
(* The person. A dialog that closes takes neither keys nor clicks. *)

\* enter: the secret is handed over while the dialog stays.
Enter ==
    /\ Opened(box) /\ box.active.password /\ ~box.active.busy
    /\ box' = [box EXCEPT !.active.entered = @ \cup {box.active.pending},
                          !.active.pending = None, !.active.busy = TRUE]

\* allowed and alternative
Allow == Opened(box) /\ ~box.active.password /\ box' = Respond(box)

\* denied, which stands for the next password too when no call waits.
Deny ==
    /\ Opened(box)
    /\ LET b == IF box.active.pending = None THEN [box EXCEPT !.refused = @ \cup {box.active.key}] ELSE box
       IN box' = Respond(b)

Lock ==
    /\ ~box.locked
    /\ LET b == [box EXCEPT !.locked = TRUE]
       IN box' = IF Opened(b) THEN Respond(b) ELSE b

Unlock == box.locked /\ box' = TakeNext([box EXCEPT !.locked = FALSE])

-----------------------------------------------------------------------------
(* What ends later. *)

\* The secret was handed over, or that failed and the dialog goes.
Delivered(c) ==
    \/ /\ box.active # None /\ c \in box.active.entered
       /\ LET b == Answer([box EXCEPT !.active.entered = @ \ {c}], c)
          IN box' = b \/ box' = Respond(b)
    \/ c \in box.late /\ box' = Answer([box EXCEPT !.late = @ \ {c}], c)

\* It faded out.
Closed == box.active # None /\ box.active.closing /\ box' = Finished(box)

-----------------------------------------------------------------------------
Init ==
    \E locked, animated \in BOOLEAN :
        box = [incoming |-> <<>>, queue |-> <<>>, refused |-> {}, active |-> None, late |-> {},
               locked |-> locked, animated |-> animated, asked |-> {}, answers |-> [c \in Calls |-> 0], over |-> {}]

Next ==
    \/ \E c \in Calls : Ask(c) \/ Delivered(c)
    \/ \E key \in Handles : Close(key)
    \/ Incoming \/ Enter \/ Allow \/ Deny \/ Lock \/ Unlock \/ Closed

Spec == Init /\ [][Next]_box

-----------------------------------------------------------------------------
(* Type correctness of the prompts; the dialog serves calls of one handle and one kind. *)
TypeOK ==
    /\ box \in Box
    /\ box.active # None =>
          \A c \in ({box.active.pending} \ {None}) \cup box.active.entered :
             HandleOf[c] = box.active.key /\ (c \in Passwords <=> box.active.password)

\* The calls somebody still waits for an answer to.
Waiting ==
    (Calls \cap Range(box.incoming)) \cup Range(box.queue) \cup box.late
        \cup (IF box.active = None THEN {} ELSE ({box.active.pending} \ {None}) \cup box.active.entered)

(* Every call is answered exactly once, or somewhere still waits to be: whatever closes, locks,*)
(* fails or asks again meanwhile, none is dropped and none is answered again, when a reply that*)
(* was returned can't be returned twice.                                                       *)
ExactlyOnce == \A c \in Calls : box.answers[c] = IF c \in box.asked \ Waiting THEN 1 ELSE 0

(* No dialog is open while the session is locked; a call waits for its turn only while there is*)
(* a dialog or the lock, so nobody has to wake the queue; and a form that can be typed in has a*)
(* call to give it to.                                                                         *)
InTurn ==
    /\ box.locked => ~Opened(box)
    /\ box.queue # <<>> => box.active # None \/ box.locked
    /\ Opened(box) /\ box.active.pending = None => box.active.password /\ box.active.busy

(* Once a Close was handled, what was asked under its handle before is neither shown nor waits,*)
(* though the keyring's calls wait for their sender to be looked up and a Close could overtake *)
(* them. (Without animations a call of the handle that waits is shown while close still works: *)
(* then only none of them waits.)                                                              *)
ClosedIsOver ==
    /\ box.over \cap Range(box.queue) = {}
    /\ box.animated /\ Opened(box) => box.active.pending \notin box.over
=============================================================================
