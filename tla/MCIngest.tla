------------------------------ MODULE MCIngest ------------------------------
(* The lines are grouped by what the parser makes of them; lines of a group, *)
(* and workers, are interchangeable.  A parse error keeps two bytes.         *)
EXTENDS Ingest, TLC

CONSTANTS LogLines, BadLines, SkipLines, RejectLines, EmptyLines

MCLines == LogLines \cup BadLines \cup SkipLines \cup RejectLines \cup EmptyLines

MCKind(l) == CASE l \in LogLines    -> "log"
               [] l \in BadLines    -> "bad"
               [] l \in SkipLines   -> "skip"
               [] l \in RejectLines -> "reject"
               [] l \in EmptyLines  -> "empty"

MCRawSize(l) == 2

\* At most four of the five lines arrive in one behaviour.
FourArrive == Cardinality(Lines \ unread) <= 4

Symmetry == Permutations(Workers) \cup Permutations(LogLines) \cup Permutations(BadLines)
=============================================================================
