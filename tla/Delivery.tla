------------------------------ MODULE Delivery ------------------------------
(***************************************************************************)
(* What ingest promises, as its documentation states it: delivery is       *)
(* at-most-once and best-effort.  A line is refused or accepted once; an   *)
(* accepted line is stored once or lost, and that decision is final.       *)
(***************************************************************************)
EXTENDS Integers, FiniteSets

CONSTANT Lines

VARIABLES
    unsent,     \* not yet offered
    pending,    \* accepted, undecided
    rows        \* how often a line is stored

vars == <<unsent, pending, rows>>

Init ==
    /\ unsent = Lines
    /\ pending = {}
    /\ rows = [l \in Lines |-> 0]

Accept(l) ==
    /\ l \in unsent
    /\ unsent' = unsent \ {l}
    /\ pending' = pending \cup {l}
    /\ UNCHANGED rows

Refuse(l) ==
    /\ l \in unsent
    /\ unsent' = unsent \ {l}
    /\ UNCHANGED <<pending, rows>>

Store(S) ==
    /\ pending' = pending \ S
    /\ rows' = [l \in Lines |-> IF l \in S THEN rows[l] + 1 ELSE rows[l]]
    /\ UNCHANGED unsent

Lose(S) ==
    /\ pending' = pending \ S
    /\ UNCHANGED <<unsent, rows>>

Next ==
    \/ \E l \in unsent : Accept(l) \/ Refuse(l)
    \/ \E S \in SUBSET pending : Store(S) \/ Lose(S)

Spec == Init /\ [][Next]_vars
=============================================================================
