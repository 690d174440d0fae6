-------------------------------- MODULE Filters -------------------------------
(***************************************************************************)
(* JavaScript's Array.prototype.filter, with which Kestrel takes members   *)
(* out of its lists: a recursive function, so that what it does to a list  *)
(* of any length can be proved.                                            *)
(***************************************************************************)
EXTENDS Naturals, Sequences

\* The members at some places, in their order.
Picked(q, places) ==
    LET kept[i \in 0..Len(q)] ==
            IF i = 0 THEN <<>>
            ELSE IF i \in places THEN Append(kept[i - 1], q[i]) ELSE kept[i - 1]
    IN kept[Len(q)]

\* The members that aren't among some.
Excluding(q, gone) == Picked(q, {i \in DOMAIN q : q[i] \notin gone})
=============================================================================
