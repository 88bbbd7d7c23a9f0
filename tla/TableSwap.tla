------------------------------ MODULE TableSwap ------------------------------
(***************************************************************************)
(* Replacing geo_ranges or reputation_ranges: DROP staging, CREATE staging,*)
(* insert in batches, count, EXCHANGE, DROP staging, under a mutex of the  *)
(* process (clickhouse/chexchange, geostore.ReplaceGeoRanges and           *)
(* TruncateGeoRanges, repstore.ReplaceReputationRanges).  Every statement  *)
(* may fail, with or without having been applied, and the process may die  *)
(* between any two statements and leave its staging table behind.          *)
(***************************************************************************)
EXTENDS Integers, FiniteSets

CONSTANTS
    Writers,    \* concurrent calls
    Truncates,  \* the calls of TruncateGeoRanges among them
    Rows,       \* rows of the table
    Want(_),    \* the rows a call asks for, {} for a truncate
    Initial,    \* the rows at first
    NoTable,    \* the staging table does not exist
    NoWriter    \* the mutex is free

ASSUME TableAssumption ==
    /\ IsFiniteSet(Rows) /\ Truncates \subseteq Writers
    /\ Initial \subseteq Rows
    /\ \A w \in Writers : Want(w) \subseteq Rows /\ (w \in Truncates => Want(w) = {})
    /\ \A R \in SUBSET Rows : R # NoTable
    /\ NoWriter \notin Writers

VARIABLES
    live,       \* rows of the live table
    staging,    \* rows of the staging table
    lock,       \* replaceGeoRangesMu
    pc,         \* the next statement of each call
    todo,       \* rows a call has still to insert
    answer,     \* what each call has returned
    effective   \* history: calls that changed the live table

vars == <<live, staging, lock, pc, todo, answer, effective>>

Statements == {"drop", "create", "fill", "count", "exchange", "cleanup", "undo",
               "truncate", "discard"}

Init ==
    /\ live = Initial
    /\ staging = NoTable
    /\ lock = NoWriter
    /\ pc = [w \in Writers |-> "idle"]
    /\ todo = [w \in Writers |-> {}]
    /\ answer = [w \in Writers |-> "none"]
    /\ effective = {}

Goto(w, place) == pc' = [pc EXCEPT ![w] = place]

\* The call returns and the deferred Unlock runs.
Return(w, a) ==
    /\ Goto(w, "done")
    /\ answer' = [answer EXCEPT ![w] = a]
    /\ lock' = NoWriter

\* DROP TABLE IF EXISTS staging; its error is ignored.
DropStaging == staging' \in {NoTable, staging}

Begin(w) ==
    /\ pc[w] = "idle" /\ lock = NoWriter
    /\ lock' = w
    /\ Goto(w, IF w \in Truncates THEN "truncate" ELSE "drop")
    /\ UNCHANGED <<live, staging, todo, answer, effective>>

DropOld(w) ==
    /\ pc[w] = "drop"
    /\ DropStaging
    /\ Goto(w, "create")
    /\ UNCHANGED <<live, lock, todo, answer, effective>>

\* CREATE TABLE staging AS live fails if a staging table is left.
Create(w) ==
    /\ pc[w] = "create"
    /\ staging = NoTable
    /\ staging' = {}
    /\ todo' = [todo EXCEPT ![w] = Want(w)]
    /\ Goto(w, "fill")
    /\ UNCHANGED <<live, lock, answer, effective>>

CreateFails(w) ==
    /\ pc[w] = "create"
    /\ staging' \in {staging} \cup (IF staging = NoTable THEN {{}} ELSE {})
    /\ Return(w, "error")
    /\ UNCHANGED <<live, todo, effective>>

\* A batch is acknowledged; its row may be missing all the same.
Insert(w) ==
    /\ pc[w] = "fill"
    /\ staging # NoTable
    /\ \E r \in todo[w] :
          /\ staging' \in {staging, staging \cup {r}}
          /\ todo' = [todo EXCEPT ![w] = @ \ {r}]
    /\ UNCHANGED <<live, lock, pc, answer, effective>>

\* A batch is refused, or the context is cancelled between two of them.
InsertFails(w) ==
    /\ pc[w] = "fill" /\ todo[w] # {}
    /\ \/ UNCHANGED staging
       \/ staging # NoTable /\ \E r \in todo[w] : staging' = staging \cup {r}
    /\ Goto(w, "undo")
    /\ UNCHANGED <<live, lock, todo, answer, effective>>

\* An empty list of reputation ranges is not counted; an empty list of geo
\* ranges is refused before the mutex is taken and is no call here.
Filled(w) ==
    /\ pc[w] = "fill" /\ todo[w] = {}
    /\ Goto(w, IF Want(w) = {} THEN "exchange" ELSE "count")
    /\ UNCHANGED <<live, staging, lock, todo, answer, effective>>

\* The count of the staging table decides.
Count(w) ==
    /\ pc[w] = "count"
    /\ staging # NoTable
    /\ Goto(w, IF Cardinality(staging) = Cardinality(Want(w)) THEN "exchange" ELSE "undo")
    /\ UNCHANGED <<live, staging, lock, todo, answer, effective>>

CountFails(w) ==
    /\ pc[w] = "count"
    /\ Goto(w, "undo")
    /\ UNCHANGED <<live, staging, lock, todo, answer, effective>>

Swap(w) ==
    /\ live' = staging
    /\ staging' = live
    /\ effective' = effective \cup {w}

Exchange(w) ==
    /\ pc[w] = "exchange"
    /\ staging # NoTable
    /\ Swap(w)
    /\ Goto(w, "cleanup")
    /\ UNCHANGED <<lock, todo, answer>>

\* An error from EXCHANGE: it was not applied, or its reply was lost.
ExchangeFails(w) ==
    /\ pc[w] = "exchange"
    /\ \/ UNCHANGED <<live, staging, effective>>
       \/ staging # NoTable /\ Swap(w)
    /\ Goto(w, "undo")
    /\ UNCHANGED <<lock, todo, answer>>

Cleanup(w) ==
    /\ pc[w] = "cleanup"
    /\ DropStaging
    /\ Return(w, "ok")
    /\ UNCHANGED <<live, todo, effective>>

\* Mutant: the error that led here is swallowed.
UndoSwallows(w) ==
    /\ pc[w] = "undo"
    /\ DropStaging
    /\ Return(w, "ok")
    /\ UNCHANGED <<live, todo, effective>>

Undo(w) ==
    /\ pc[w] = "undo"
    /\ DropStaging
    /\ Return(w, "error")
    /\ UNCHANGED <<live, todo, effective>>

-----------------------------------------------------------------------------
(* TruncateGeoRanges *)

Empty(w) ==
    /\ live' = {}
    /\ effective' = effective \cup {w}

Truncate(w) ==
    /\ pc[w] = "truncate"
    /\ Empty(w)
    /\ Goto(w, "discard")
    /\ UNCHANGED <<staging, lock, todo, answer>>

TruncateFails(w) ==
    /\ pc[w] = "truncate"
    /\ Empty(w) \/ UNCHANGED <<live, effective>>
    /\ Goto(w, "failed")
    /\ UNCHANGED <<staging, lock, todo, answer>>

TruncateReturns(w) ==
    /\ pc[w] \in {"discard", "failed"}
    /\ IF pc[w] = "discard" THEN DropStaging ELSE UNCHANGED staging
    /\ Return(w, IF pc[w] = "discard" THEN "ok" ELSE "error")
    /\ UNCHANGED <<live, todo, effective>>

-----------------------------------------------------------------------------
(* The process dies; its calls never return and its mutex is gone. *)

Running(w) == pc[w] \notin {"idle", "done", "dead"}

Crash ==
    /\ \E w \in Writers : Running(w)
    /\ pc' = [w \in Writers |-> IF Running(w) THEN "dead" ELSE pc[w]]
    /\ lock' = NoWriter
    /\ UNCHANGED <<live, staging, todo, answer, effective>>

Call(w) ==
    \/ Begin(w) \/ DropOld(w) \/ Create(w) \/ CreateFails(w)
    \/ Insert(w) \/ InsertFails(w) \/ Filled(w) \/ Count(w) \/ CountFails(w)
    \/ Exchange(w) \/ ExchangeFails(w) \/ Cleanup(w) \/ Undo(w)
    \/ Truncate(w) \/ TruncateFails(w) \/ TruncateReturns(w)

Finished ==
    /\ \A w \in Writers : pc[w] \in {"done", "dead"}
    /\ UNCHANGED vars

Next == (\E w \in Writers : Call(w)) \/ Crash \/ Finished

Spec == Init /\ [][Next]_vars

-----------------------------------------------------------------------------
(* Properties *)

\* The type of the state; the live table always exists: EXCHANGE never leaves it dropped.
TypeOK ==
    /\ live # NoTable /\ live \in SUBSET Rows
    /\ staging = NoTable \/ staging \in SUBSET Rows
    /\ lock \in Writers \cup {NoWriter}
    /\ pc \in [Writers -> Statements \cup {"idle", "failed", "done", "dead"}]
    /\ todo \in [Writers -> SUBSET Rows]
    /\ answer \in [Writers -> {"none", "ok", "error"}]
    /\ effective \subseteq Writers

\* Only the call that holds the mutex runs, and what it has staged comes from
\* its own list; when it is about to EXCHANGE, the staging table holds the
\* whole list.  Left-over staging tables never leak into a later call.
StagingIsOwn ==
    \A w \in Writers :
        /\ Running(w) => lock = w
        /\ pc[w] \in {"fill", "count"} => staging # NoTable /\ staging \subseteq Want(w)
        /\ pc[w] = "exchange" => staging = Want(w)

\* Where a call stands against the ledger of effects: nothing before its last
\* statement on the live table, its effect before it may answer "ok", and no
\* answer while it runs.
Ledger ==
    \A w \in Writers :
        /\ pc[w] \in {"idle", "drop", "create", "fill", "count", "exchange", "truncate"}
              => w \notin effective
        /\ pc[w] \in {"cleanup", "discard"} => w \in effective
        /\ pc[w] = "idle" \/ Running(w) => answer[w] = "none"
        /\ pc[w] \in {"truncate", "discard", "failed"} => w \in Truncates
        /\ pc[w] = "fill" => todo[w] \subseteq Want(w)

IInv == TypeOK /\ StagingIsOwn /\ Ledger

Atomic == INSTANCE AtomicTable

\* Replacing a table through staging and EXCHANGE is one atomic change of the
\* live table, made at most once per call and before "ok" is answered, in
\* spite of failed inserts, lost rows, lost replies, crashes and left-over
\* staging tables.
ReplaceIsAtomic == Atomic!Spec
=============================================================================
