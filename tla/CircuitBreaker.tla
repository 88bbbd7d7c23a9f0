--------------------------- MODULE CircuitBreaker ---------------------------
(***************************************************************************)
(* The insert circuit breaker that all ingest workers share                *)
(* (usecase/ingest/circuit.go).  Its state is two atomics, fails and       *)
(* openUntil; NoteSuccess and NoteFailure touch them in several steps with *)
(* no lock, so every atomic access is an action here.                      *)
(*                                                                         *)
(* fails saturates at Threshold: the code only compares it with the        *)
(* threshold and resets it.  Time is a counter of abstract units.          *)
(***************************************************************************)
EXTENDS Integers

CONSTANTS
    Inserters,    \* the goroutines that share the breaker
    Threshold,  \* circuitFailThreshold
    Cooldown,   \* circuitCooldown
    MaxTime     \* bound of the model: the clock stops here

ASSUME BreakerAssumption ==
    /\ Threshold \in Nat \ {0}
    /\ Cooldown \in Nat \ {0}
    /\ MaxTime \in Nat

VARIABLES
    now,        \* time.Now()
    fails,      \* c.fails
    openUntil,  \* c.openUntil; 0 = closed
    at,         \* where each worker is in Check / NoteSuccess / NoteFailure
    until,      \* the local `until` of NoteFailure
    prev        \* the local `prev` of NoteFailure

breakerVars == <<now, fails, openUntil, at, until, prev>>

BreakerPC == {"idle", "insert", "succeeded", "until", "load", "decide", "cas"}

\* The clock starts at 1: a real openUntil is never 0.
BreakerInit ==
    /\ now = 1
    /\ fails = 0
    /\ openUntil = 0
    /\ at = [w \in Inserters |-> "idle"]
    /\ until = [w \in Inserters |-> 0]
    /\ prev = [w \in Inserters |-> 0]

StepTo(w, place) == at' = [at EXCEPT ![w] = place]

Open == openUntil > now

Tick ==
    /\ now < MaxTime
    /\ now' = now + 1
    /\ UNCHANGED <<fails, openUntil, at, until, prev>>

\* Check() returned nil: the flush goes on to insert.
CheckPasses(w) ==
    /\ at[w] = "idle"
    /\ ~Open
    /\ StepTo(w, "insert")
    /\ UNCHANGED <<now, fails, openUntil, until, prev>>

\* Check() returned errInsertCircuitOpen: the flush is given up.
CheckRefuses(w) ==
    /\ at[w] = "idle"
    /\ Open
    /\ UNCHANGED breakerVars

-----------------------------------------------------------------------------
(* NoteSuccess: two separate stores. *)

SuccessResetFails(w) ==
    /\ at[w] = "insert"
    /\ fails' = 0
    /\ StepTo(w, "succeeded")
    /\ UNCHANGED <<now, openUntil, until, prev>>

SuccessClose(w) ==
    /\ at[w] = "succeeded"
    /\ openUntil' = 0
    /\ StepTo(w, "idle")
    /\ UNCHANGED <<now, fails, until, prev>>

-----------------------------------------------------------------------------
(* NoteFailure *)

\* The locals are dead once NoteFailure returns.
Forget(w) ==
    /\ until' = [until EXCEPT ![w] = 0]
    /\ prev' = [prev EXCEPT ![w] = 0]

\* n := fails.Add(1); below the threshold nothing else happens.
FailureAdd(w) ==
    LET n == IF fails < Threshold THEN fails + 1 ELSE Threshold
    IN  /\ at[w] = "insert"
        /\ fails' = n
        /\ StepTo(w, IF n < Threshold THEN "idle" ELSE "until")
        /\ UNCHANGED <<now, openUntil, until, prev>>

FailureUntil(w) ==
    /\ at[w] = "until"
    /\ until' = [until EXCEPT ![w] = now + Cooldown]
    /\ StepTo(w, "load")
    /\ UNCHANGED <<now, fails, openUntil, prev>>

FailureLoad(w) ==
    /\ at[w] = "load"
    /\ prev' = [prev EXCEPT ![w] = openUntil]
    /\ StepTo(w, "decide")
    /\ UNCHANGED <<now, fails, openUntil, until>>

\* `if prev > now { return }`
FailureDecide(w) ==
    /\ at[w] = "decide"
    /\ IF prev[w] > now
       THEN StepTo(w, "idle") /\ Forget(w)
       ELSE StepTo(w, "cas") /\ UNCHANGED <<until, prev>>
    /\ UNCHANGED <<now, fails, openUntil>>

\* Mutant: a plain store in place of the compare-and-swap.
FailureStore(w) ==
    /\ at[w] = "cas"
    /\ openUntil' = until[w]
    /\ StepTo(w, "idle")
    /\ Forget(w)
    /\ UNCHANGED <<now, fails>>

\* CompareAndSwap(prev, until)
FailureSwap(w) ==
    /\ at[w] = "cas"
    /\ openUntil' = IF openUntil = prev[w] THEN until[w] ELSE openUntil
    /\ StepTo(w, "idle")
    /\ Forget(w)
    /\ UNCHANGED <<now, fails>>

Step(w) ==
    \/ CheckPasses(w) \/ CheckRefuses(w)
    \/ SuccessResetFails(w) \/ SuccessClose(w)
    \/ FailureAdd(w) \/ FailureUntil(w) \/ FailureLoad(w)
    \/ FailureDecide(w) \/ FailureSwap(w)

BreakerNext == Tick \/ \E w \in Inserters : Step(w)

BreakerSpec == BreakerInit /\ [][BreakerNext]_breakerVars

-----------------------------------------------------------------------------
(* Properties *)

BreakerTypeOK ==
    /\ now \in Nat
    /\ fails \in 0 .. Threshold
    /\ openUntil \in Nat
    /\ at \in [Inserters -> BreakerPC]
    /\ until \in [Inserters -> Nat]
    /\ prev \in [Inserters -> Nat]

\* No race of failing workers keeps inserts blocked for longer than one
\* cooldown from now.
WindowBounded == openUntil <= now + Cooldown

\* An open window is never prolonged or moved, only closed early by a
\* success: "уже открыт - не продлеваем окно на каждый fail".
WindowNotExtended == [][Open => openUntil' \in {openUntil, 0}]_breakerVars

=============================================================================
