------------------------------ MODULE HeavySlot ------------------------------
(***************************************************************************)
(* The slot that heavy background tasks share: geo jobs, backups, anomaly  *)
(* and hunt runs, reputation sync (adapter/heavytask/limiter.go).  It is a *)
(* channel used as a counting semaphore, and a separate flag that the      *)
(* ingest workers read to slow down.  Channel operation, length check and  *)
(* flag store are separate steps.                                          *)
(***************************************************************************)
EXTENDS Integers, FiniteSets

CONSTANTS
    Tasks,      \* the goroutines that ask for a slot
    Slots       \* New(n); 1 in the application

ASSUME SlotAssumption == IsFiniteSet(Tasks) /\ Slots \in Nat \ {0}

VARIABLES
    sem,        \* len(l.sem)
    busy,       \* l.busy
    pc          \* where each task is

vars == <<sem, busy, pc>>

Places == {"idle", "waiting", "sent", "held", "received", "clear"}

\* New: an empty channel.
Init ==
    /\ sem = 0
    /\ busy = FALSE
    /\ pc = [t \in Tasks |-> "idle"]

Goto(t, place) == pc' = [pc EXCEPT ![t] = place]

\* The channel send of TryAcquire and Acquire.
Send(t) ==
    /\ sem < Slots
    /\ sem' = sem + 1
    /\ Goto(t, "sent")
    /\ UNCHANGED busy

\* TryAcquire takes a free slot or, in its default branch, gives up at once.
TryAcquire(t) ==
    /\ pc[t] = "idle"
    /\ Send(t)

TryAcquireFails(t) ==
    /\ pc[t] = "idle"
    /\ sem = Slots
    /\ UNCHANGED vars

\* Acquire waits in its select for a slot or for the context.
AcquireWaits(t) ==
    /\ pc[t] = "idle"
    /\ Goto(t, "waiting")
    /\ UNCHANGED <<sem, busy>>

Acquire(t) ==
    /\ pc[t] = "waiting"
    /\ Send(t)

AcquireCancelled(t) ==
    /\ pc[t] = "waiting"
    /\ Goto(t, "idle")
    /\ UNCHANGED <<sem, busy>>

\* l.busy.Store(true), after the send.
MarkBusy(t) ==
    /\ pc[t] = "sent"
    /\ busy' = TRUE
    /\ Goto(t, "held")
    /\ UNCHANGED sem

\* Release: the channel receive, which the holder's own token keeps from
\* taking the default branch.
Release(t) ==
    /\ pc[t] = "held"
    /\ sem' = sem - 1
    /\ Goto(t, "received")
    /\ UNCHANGED busy

\* Mutant: the flag is cleared when one slot is left, not when none is.
CheckEmptyOffByOne(t) ==
    /\ pc[t] = "received"
    /\ Goto(t, IF sem = 1 THEN "clear" ELSE "idle")
    /\ UNCHANGED <<sem, busy>>

\* if len(l.sem) == 0
CheckEmpty(t) ==
    /\ pc[t] = "received"
    /\ Goto(t, IF sem = 0 THEN "clear" ELSE "idle")
    /\ UNCHANGED <<sem, busy>>

\* l.busy.Store(false); the slot may be taken again by now.
ClearBusy(t) ==
    /\ pc[t] = "clear"
    /\ busy' = FALSE
    /\ Goto(t, "idle")
    /\ UNCHANGED sem

Task(t) ==
    \/ TryAcquire(t) \/ TryAcquireFails(t)
    \/ AcquireWaits(t) \/ Acquire(t) \/ AcquireCancelled(t)
    \/ MarkBusy(t) \/ Release(t) \/ CheckEmpty(t) \/ ClearBusy(t)

Next == \E t \in Tasks : Task(t)

Spec == Init /\ [][Next]_vars

-----------------------------------------------------------------------------
(* Properties *)

TypeOK ==
    /\ sem \in 0 .. Slots
    /\ busy \in BOOLEAN
    /\ pc \in [Tasks -> Places]

Holders == {t \in Tasks : pc[t] \in {"sent", "held"}}

\* The semaphore counts its holders: a cancelled wait neither leaks a slot
\* nor gives back somebody else's, so at most Slots tasks run together.
SlotsExact == sem = Cardinality(Holders)

\* Ingest is not slowed down for ever: once no task holds or releases a slot,
\* the flag is down.
NeverStuckBusy ==
    (\A t \in Tasks : pc[t] \in {"idle", "waiting"}) => ~busy
=============================================================================
