---------------------------- MODULE MCIngestLive ----------------------------
(***************************************************************************)
(* What the ingest must get done.  Either ClickHouse does not refuse a     *)
(* worker for ever and nobody stops the process, or anything goes.  Only   *)
(* traffic logs are sent in the second case.                               *)
(***************************************************************************)
EXTENDS MCIngest

VARIABLE recovers

LiveSpec ==
    /\ Init /\ recovers \in BOOLEAN
    /\ [][/\ Next /\ UNCHANGED recovers
          /\ recovers => ~ctxDone'
          /\ ~recovers => Lines \ LogLines \subseteq unread']_<<vars, recovers>>
    /\ Fairness
    /\ \A w \in Workers : /\ SF_vars(recovers /\ InsertLogsOK(w))
                          /\ SF_vars(recovers /\ InsertErrorsOK(w))

\* If ClickHouse comes back, queue and buffers empty themselves while the process
\* runs: partial batches by the ticker, and an open circuit closes.
BacklogClears == (recovers /\ Backlog) ~> ~Backlog
=============================================================================
