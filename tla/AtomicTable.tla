----------------------------- MODULE AtomicTable -----------------------------
(***************************************************************************)
(* What replacing a ClickHouse table promises its callers: readers see the *)
(* contents from before a call or all of what the call asked for, a call   *)
(* takes effect at most once, and "ok" is answered only after it did.      *)
(***************************************************************************)
CONSTANTS
    Writers,    \* the calls
    Want(_),    \* the rows a call asks for
    Initial     \* the rows of the table at first

VARIABLES
    live,       \* the table
    effective,  \* calls that have taken effect
    answer      \* what each call has returned

vars == <<live, effective, answer>>

Init ==
    /\ live = Initial
    /\ effective = {}
    /\ answer = [w \in Writers |-> "none"]

Apply(w) ==
    /\ w \notin effective /\ answer[w] = "none"
    /\ live' = Want(w)
    /\ effective' = effective \cup {w}
    /\ UNCHANGED answer

Answer(w, a) ==
    /\ answer[w] = "none"
    /\ a = "ok" => w \in effective
    /\ answer' = [answer EXCEPT ![w] = a]
    /\ UNCHANGED <<live, effective>>

Next == \E w \in Writers : Apply(w) \/ \E a \in {"ok", "error"} : Answer(w, a)

Spec == Init /\ [][Next]_vars
=============================================================================
