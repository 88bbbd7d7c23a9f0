------------------------------- MODULE Ingest -------------------------------
(***************************************************************************)
(* The ingest pipeline: lines arrive over TCP or HTTP, pass the bounded    *)
(* queue, are parsed by a pool of workers, buffered per worker and         *)
(* inserted into ClickHouse in batches, with retries, a shared circuit     *)
(* breaker and a drain on shutdown (adapter/ingestnet/service.go,          *)
(* usecase/ingest).  A line is one that TryEnqueue looks at: it is not     *)
(* blank, but there may be nothing behind its transport marker.            *)
(*                                                                         *)
(* TryEnqueue and the breaker are atomic here; modules IngestQueue and     *)
(* CircuitBreaker take them apart.  ClickHouse is the environment: any     *)
(* insert may fail, and, when AckLoss holds, an insert may be applied      *)
(* although the client sees an error.                                      *)
(***************************************************************************)
EXTENDS Integers, Sequences, FiniteSets, FiniteSetsExt

CONSTANTS
    Workers,        \* worker goroutines, each with its own Processor
    Lines,          \* the lines sent to the backend
    Kind(_),        \* what ResolveTransportAuth and the parser make of a line
    QueueSize,      \* cfg.QueueSize
    BatchSize,      \* cfg.BatchSize
    BufFactor,      \* the 5 of maxIngestBuf, scaled to the model
    BufMin,         \* the 1000 of maxIngestBuf
    BufHardCap,     \* the 50000 of maxIngestBuf
    RawSize(_),     \* bytes of a line that a parse error keeps, after truncation
    ErrBufBytes,    \* maxParseErrorBufBytes
    Attempts,       \* insertRetryAttempts
    Threshold,      \* circuitFailThreshold
    AckLoss,        \* may an insert be applied and still report an error?
    MaxRows         \* bound of the model: rows of one line that are told apart

ASSUME IngestAssumption ==
    /\ IsFiniteSet(Lines) /\ IsFiniteSet(Workers) /\ Workers # {}
    /\ \A l \in Lines : Kind(l) \in {"log", "bad", "skip", "reject", "empty"}
    /\ \A l \in Lines : RawSize(l) \in Nat
    /\ {QueueSize, BatchSize, BufFactor, BufMin, BufHardCap, ErrBufBytes, Attempts,
         Threshold} \subseteq Nat \ {0}
    /\ AckLoss \in BOOLEAN
    /\ MaxRows \in Nat \ {0, 1}

VARIABLES
    unread,     \* lines that have not reached TryEnqueue
    lineCh,     \* s.lineCh
    mode,       \* "run" | "drain" (drainWorker) | "final" (its last Flush) | "stopped"
    pc,         \* "top" | "select" | "logs" | "next" | "errors": a worker's step
    attempt,    \* attempt of insertWithRetry
    buf,        \* p.buf
    errBuf,     \* p.errBuf
    fails,      \* circuit.fails, saturating at Threshold
    circuit,    \* "closed" | "open" | "expired" (openUntil is in the past)
    stats,      \* the counters of stats.go
    rows,       \* rows of each line in ClickHouse (traffic_logs or parse_errors)
    ctxDone,    \* the Run context is cancelled
    drainDead,  \* workers whose drain context timed out or was aborted
    flushed,    \* history: lines whose insert was acknowledged
    evicted,    \* history: lines dropped from a full buffer
    late,       \* history: lines queued after the shutdown began
    blank,      \* history: lines received with nothing behind their marker
    failed      \* history: some flush has failed

queueVars   == <<unread, lineCh, late, blank>>
workerVars  == <<mode, pc, attempt>>
bufferVars  == <<buf, errBuf>>
circuitVars == <<fails, circuit>>
envVars     == <<ctxDone, drainDead>>
insertVars  == <<rows, flushed, failed>>
vars == <<queueVars, workerVars, bufferVars, circuitVars, envVars, insertVars,
          stats, evicted>>

ZeroStats == [received |-> 0, parsed |-> 0, skipped |-> 0, parseErrors |-> 0,
              inserted |-> 0, buffered |-> 0, dropped |-> 0, bufferDrops |-> 0,
              authRejected |-> 0]

Init ==
    /\ unread = Lines /\ lineCh = <<>> /\ late = {} /\ blank = {}
    /\ mode = [w \in Workers |-> "run"]
    /\ pc = [w \in Workers |-> "top"]
    /\ attempt = [w \in Workers |-> 0]
    /\ buf = [w \in Workers |-> <<>>]
    /\ errBuf = [w \in Workers |-> <<>>]
    /\ fails = 0 /\ circuit = "closed"
    /\ stats = ZeroStats
    /\ rows = [l \in Lines |-> 0]
    /\ ctxDone = FALSE /\ drainDead = {}
    /\ flushed = {} /\ evicted = {} /\ failed = FALSE

Min2(a, b) == IF a < b THEN a ELSE b
Max2(a, b) == IF a < b THEN b ELSE a
Elements(s) == {s[i] : i \in 1 .. Len(s)}

Open == circuit = "open"

\* The context a worker's inserts run under: Run's, then its drain context.
CtxDead(w) == IF mode[w] = "run" THEN ctxDone ELSE w \in drainDead

-----------------------------------------------------------------------------
(* Arrival *)

\* A line reaches the queue at any time: handleConn looks at ctx before it
\* calls TryEnqueue and FeedReader only looks at its request, so lines still
\* arrive after the shutdown has begun.
TryEnqueue(l) ==
    /\ l \in unread
    /\ unread' = unread \ {l}
    /\ IF Len(lineCh) < QueueSize
       THEN /\ lineCh' = Append(lineCh, l)
            /\ late' = IF ctxDone THEN late \cup {l} ELSE late
            /\ UNCHANGED stats
       ELSE /\ stats' = [stats EXCEPT !.dropped = @ + 1]
            /\ UNCHANGED <<lineCh, late>>
    /\ UNCHANGED <<blank, workerVars, bufferVars, circuitVars, envVars, insertVars,
                   evicted>>

-----------------------------------------------------------------------------
(* Circuit breaker *)

NoteFailure ==
    /\ fails' = Min2(fails + 1, Threshold)
    /\ circuit' = IF fails + 1 >= Threshold THEN "open" ELSE circuit
    /\ failed' = TRUE

NoteSuccess ==
    /\ fails' = 0
    /\ circuit' = "closed"

CooldownEnds ==
    /\ Open
    /\ circuit' = "expired"
    /\ UNCHANGED <<queueVars, workerVars, bufferVars, fails, envVars, insertVars,
                   stats, evicted>>

-----------------------------------------------------------------------------
(* Flush *)

\* A Flush is over: the loop goes on, the last one ends the worker.
FlushReturns(w) ==
    /\ pc' = [pc EXCEPT ![w] = "top"]
    /\ attempt' = [attempt EXCEPT ![w] = 0]
    /\ mode' = [mode EXCEPT ![w] = IF @ = "final" THEN "stopped" ELSE @]

\* insertWithRetry enters its first attempt on buffer `which`, unless the
\* circuit is open or the context is dead.
BeginInsert(w, which) ==
    \/ /\ Open
       /\ FlushReturns(w)
       /\ UNCHANGED <<circuitVars, failed>>
    \/ /\ ~Open /\ CtxDead(w)
       /\ NoteFailure
       /\ FlushReturns(w)
    \/ /\ ~Open /\ ~CtxDead(w)
       /\ pc' = [pc EXCEPT ![w] = which]
       /\ attempt' = [attempt EXCEPT ![w] = 1]
       /\ UNCHANGED <<mode, circuitVars, failed>>

\* Flush: flushLogs, then flushErrors, on the given contents of the buffers.
BeginFlush(w, logs, errs) ==
    \/ /\ logs # <<>>
       /\ BeginInsert(w, "logs")
    \/ /\ logs = <<>> /\ errs # <<>>
       /\ BeginInsert(w, "errors")
    \/ /\ logs = <<>> /\ errs = <<>>
       /\ FlushReturns(w)
       /\ UNCHANGED <<circuitVars, failed>>

AddRows(batch) ==
    rows' = [l \in Lines |-> IF l \in Elements(batch) THEN Min2(rows[l] + 1, MaxRows)
                             ELSE rows[l]]

\* The insert of p.buf is acknowledged: flushLogs is done.
InsertLogsOK(w) ==
    /\ pc[w] = "logs"
    /\ AddRows(buf[w])
    /\ NoteSuccess
    /\ flushed' = flushed \cup Elements(buf[w])
    /\ stats' = [stats EXCEPT !.inserted = @ + Len(buf[w]),
                              !.buffered = @ - Len(buf[w])]
    /\ buf' = [buf EXCEPT ![w] = <<>>]
    /\ pc' = [pc EXCEPT ![w] = "next"]
    /\ attempt' = [attempt EXCEPT ![w] = 0]
    /\ UNCHANGED <<queueVars, mode, errBuf, envVars, failed, evicted>>

\* Flush goes on with flushErrors.
FlushErrors(w) ==
    /\ pc[w] = "next"
    /\ BeginFlush(w, <<>>, errBuf[w])
    /\ UNCHANGED <<queueVars, bufferVars, envVars, rows, flushed, stats, evicted>>

InsertErrorsOK(w) ==
    /\ pc[w] = "errors"
    /\ AddRows(errBuf[w])
    /\ NoteSuccess
    /\ flushed' = flushed \cup Elements(errBuf[w])
    /\ errBuf' = [errBuf EXCEPT ![w] = <<>>]
    /\ FlushReturns(w)
    /\ UNCHANGED <<queueVars, buf, envVars, failed, stats, evicted>>

InsertOK(w) == InsertLogsOK(w) \/ InsertErrorsOK(w)

\* Mutant: rows go out one by one, and a failed attempt leaves the first one.
InsertFailsHalfway(w) ==
    /\ pc[w] = "logs"
    /\ AddRows(<<Head(buf[w])>>)
    /\ NoteFailure
    /\ FlushReturns(w)
    /\ UNCHANGED <<queueVars, bufferVars, envVars, flushed, stats, evicted>>

\* An attempt reports an error.  A retryable one is tried again while attempts
\* are left and the context lives; otherwise the flush fails and the buffer
\* is kept for the next one.
InsertFails(w) ==
    /\ pc[w] \in {"logs", "errors"}
    /\ \/ UNCHANGED rows
       \/ AckLoss /\ AddRows(IF pc[w] = "logs" THEN buf[w] ELSE errBuf[w])
    /\ \/ /\ attempt[w] < Attempts /\ ~CtxDead(w)
          /\ attempt' = [attempt EXCEPT ![w] = @ + 1]
          /\ UNCHANGED <<mode, pc, circuitVars, failed>>
       \/ /\ NoteFailure
          /\ FlushReturns(w)
    /\ UNCHANGED <<queueVars, bufferVars, envVars, flushed, stats, evicted>>

-----------------------------------------------------------------------------
(* ProcessLine *)

MaxIngestBuf == Min2(Max2(BufFactor * BatchSize, BufMin), BufHardCap)

\* A full buffer loses its oldest entries to make room for one more.
DropOldest(b) == SubSeq(b, Max2(Len(b) - MaxIngestBuf + 1, 0) + 1, Len(b))

\* Mutant: evictions are not counted.
ProcessLogUncounted(w, l) ==
    LET b == Append(DropOldest(buf[w]), l)
    IN  /\ buf' = [buf EXCEPT ![w] = b]
        /\ evicted' = evicted \cup (Elements(buf[w]) \ Elements(b))
        /\ stats' = [stats EXCEPT !.received = @ + 1, !.parsed = @ + 1,
                                  !.buffered = @ + Len(b) - Len(buf[w])]
        /\ IF Len(b) >= BatchSize
           THEN BeginFlush(w, b, errBuf[w])
           ELSE FlushReturns(w) /\ UNCHANGED <<circuitVars, failed>>
        /\ UNCHANGED errBuf

ProcessLog(w, l) ==
    LET b    == Append(DropOldest(buf[w]), l)
        drop == Len(buf[w]) + 1 - Len(b)
    IN  /\ buf' = [buf EXCEPT ![w] = b]
        /\ evicted' = evicted \cup (Elements(buf[w]) \ Elements(b))
        /\ stats' = [stats EXCEPT !.received = @ + 1, !.parsed = @ + 1,
                                  !.bufferDrops = @ + drop,
                                  !.buffered = @ + 1 - drop]
        /\ IF Len(b) >= BatchSize
           THEN BeginFlush(w, b, errBuf[w])
           ELSE FlushReturns(w) /\ UNCHANGED <<circuitVars, failed>>
        /\ UNCHANGED errBuf

\* The parse errors are capped in bytes as well: the oldest go until the new
\* one fits.
DropOldestErrors(b, l) ==
    LET kept(k) == SubSeq(b, k, Len(b))
        fits(k) == /\ Len(kept(k)) < MaxIngestBuf
                   /\ MapThenSumSet(RawSize, Elements(kept(k))) + RawSize(l) <= ErrBufBytes
        first   == CHOOSE k \in 1 .. Len(b) + 1 :
                      /\ fits(k) \/ k = Len(b) + 1
                      /\ \A j \in 1 .. k - 1 : ~fits(j)
    IN  kept(first)

\* A line with an IPv4 address that no parser understands; a full batch of
\* them is flushed without the logs.
ProcessBad(w, l) ==
    LET e    == Append(DropOldestErrors(errBuf[w], l), l)
        drop == Len(errBuf[w]) + 1 - Len(e)
    IN  /\ errBuf' = [errBuf EXCEPT ![w] = e]
        /\ evicted' = evicted \cup (Elements(errBuf[w]) \ Elements(e))
        /\ stats' = [stats EXCEPT !.received = @ + 1, !.parseErrors = @ + 1,
                                  !.bufferDrops = @ + drop]
        /\ IF Len(e) >= BatchSize
           THEN BeginFlush(w, <<>>, e)
           ELSE FlushReturns(w) /\ UNCHANGED <<circuitVars, failed>>
        /\ UNCHANGED buf

\* What a line leaves behind that is not stored: a skipped one, and one that
\* ResolveTransportAuth rejects, a counter; one with nothing behind its
\* transport marker (OutcomeEmpty) not even that.
ProcessNothing(w, l) ==
    /\ \/ Kind(l) = "skip" /\ stats' = [stats EXCEPT !.received = @ + 1, !.skipped = @ + 1]
       \/ Kind(l) = "reject" /\ stats' = [stats EXCEPT !.authRejected = @ + 1]
       \/ Kind(l) = "empty" /\ UNCHANGED stats
    /\ FlushReturns(w)
    /\ UNCHANGED <<bufferVars, circuitVars, failed, evicted>>

-----------------------------------------------------------------------------
(* The worker loop, in both of its modes *)

\* The head of the loop: with the circuit closed the worker goes to its
\* select; the check is stale by the time a line arrives there.
SeesCircuitClosed(w) ==
    /\ pc[w] = "top" /\ mode[w] \in {"run", "drain"}
    /\ mode[w] = "drain" => w \notin drainDead
    /\ ~Open
    /\ pc' = [pc EXCEPT ![w] = "select"]
    /\ UNCHANGED <<queueVars, mode, attempt, bufferVars, circuitVars, envVars,
                   insertVars, stats, evicted>>

\* A line is received, its bytes are released, and it is processed.
Receive(w) ==
    /\ pc[w] = "select"
    /\ lineCh # <<>>
    /\ lineCh' = Tail(lineCh)
    /\ LET l == Head(lineCh)
       IN  \/ Kind(l) = "log" /\ ProcessLog(w, l)
           \/ Kind(l) = "bad" /\ ProcessBad(w, l)
           \/ Kind(l) \in {"skip", "reject", "empty"} /\ ProcessNothing(w, l)
    /\ blank' = blank \cup {l \in {Head(lineCh)} : Kind(l) = "empty"}
    /\ UNCHANGED <<unread, late, envVars, rows, flushed>>

\* Mutant: the ticker only flushes full batches.
TickerFlushFull(w) ==
    /\ mode[w] = "run"
    /\ pc[w] = "select" \/ (pc[w] = "top" /\ Open)
    /\ IF Len(buf[w]) >= BatchSize
       THEN BeginFlush(w, buf[w], errBuf[w])
       ELSE FlushReturns(w) /\ UNCHANGED <<circuitVars, failed>>
    /\ UNCHANGED <<queueVars, bufferVars, envVars, rows, flushed, stats, evicted>>

\* The flush ticker fires, in the select or while the circuit is open.
TickerFlush(w) ==
    /\ mode[w] = "run"
    /\ pc[w] = "select" \/ (pc[w] = "top" /\ Open)
    /\ BeginFlush(w, buf[w], errBuf[w])
    /\ UNCHANGED <<queueVars, bufferVars, envVars, rows, flushed, stats, evicted>>

\* Mutant: only the wait on an open circuit has a ctx.Done case.
StartDrainIfOpen(w) ==
    /\ mode[w] = "run" /\ ctxDone
    /\ pc[w] = "top" /\ Open
    /\ mode' = [mode EXCEPT ![w] = "drain"]
    /\ UNCHANGED <<queueVars, pc, attempt, bufferVars, circuitVars, envVars, insertVars,
                   stats, evicted>>

\* ctx.Done wins a select: beginDrain and drainWorker.
StartDrain(w) ==
    /\ mode[w] = "run" /\ ctxDone
    /\ pc[w] = "select" \/ (pc[w] = "top" /\ Open)
    /\ mode' = [mode EXCEPT ![w] = "drain"]
    /\ pc' = [pc EXCEPT ![w] = "top"]
    /\ UNCHANGED <<queueVars, attempt, bufferVars, circuitVars, envVars, insertVars,
                   stats, evicted>>

\* drainWorker waited on the open circuit and tries a flush.
DrainProbe(w) ==
    /\ mode[w] = "drain" /\ w \notin drainDead
    /\ pc[w] = "top" /\ Open
    /\ pc' = [pc EXCEPT ![w] = "probe"]
    /\ UNCHANGED <<queueVars, mode, attempt, bufferVars, circuitVars, envVars,
                   insertVars, stats, evicted>>

DrainProbeFlush(w) ==
    /\ pc[w] = "probe"
    /\ BeginFlush(w, buf[w], errBuf[w])
    /\ UNCHANGED <<queueVars, bufferVars, envVars, rows, flushed, stats, evicted>>

\* Mutant: the drain returns without the last flush.
DrainSkipsFlush(w) ==
    /\ mode[w] = "drain"
    /\ pc[w] = "select" /\ lineCh = <<>>
    /\ mode' = [mode EXCEPT ![w] = "stopped"]
    /\ pc' = [pc EXCEPT ![w] = "top"]
    /\ UNCHANGED <<queueVars, attempt, bufferVars, circuitVars, envVars, insertVars,
                   stats, evicted>>

\* The queue is empty: one last Flush, whose result is only logged.
DrainLastFlush(w) ==
    /\ mode[w] = "drain"
    /\ pc[w] = "select" /\ lineCh = <<>>
    /\ mode' = [mode EXCEPT ![w] = "final"]
    /\ pc' = [pc EXCEPT ![w] = "probe"]
    /\ UNCHANGED <<queueVars, attempt, bufferVars, circuitVars, envVars, insertVars,
                   stats, evicted>>

\* The drain context is dead: drainWorker returns at once.
DrainGivesUp(w) ==
    /\ mode[w] = "drain" /\ w \in drainDead
    /\ pc[w] \in {"top", "select"}
    /\ mode' = [mode EXCEPT ![w] = "stopped"]
    /\ pc' = [pc EXCEPT ![w] = "top"]
    /\ UNCHANGED <<queueVars, attempt, bufferVars, circuitVars, envVars, insertVars,
                   stats, evicted>>

\* What a worker does next when it is not waiting in a select.
Step(w) ==
    \/ SeesCircuitClosed(w) \/ FlushErrors(w) \/ InsertOK(w) \/ InsertFails(w)
    \/ DrainProbe(w) \/ DrainProbeFlush(w) \/ DrainLastFlush(w) \/ DrainGivesUp(w)

Worker(w) == Step(w) \/ Receive(w) \/ TickerFlush(w) \/ StartDrain(w)

-----------------------------------------------------------------------------
(* The environment *)

systemVars == <<queueVars, workerVars, bufferVars, circuitVars, insertVars, stats,
                evicted>>

Shutdown ==
    /\ ~ctxDone
    /\ ctxDone' = TRUE
    /\ UNCHANGED <<systemVars, drainDead>>

\* drainTimeout has passed, or main called AbortDrain.
DrainExpires(w) ==
    /\ mode[w] \in {"drain", "final"} /\ w \notin drainDead
    /\ drainDead' = drainDead \cup {w}
    /\ UNCHANGED <<systemVars, ctxDone>>

AllStopped == \A w \in Workers : mode[w] = "stopped"

Terminated ==
    /\ AllStopped
    /\ UNCHANGED vars

Next ==
    \/ \E l \in Lines : TryEnqueue(l)
    \/ \E w \in Workers : Worker(w) \/ DrainExpires(w)
    \/ CooldownEnds \/ Shutdown \/ Terminated

Spec == Init /\ [][Next]_vars

\* Goroutines are scheduled and timers fire; Go's select picks among its ready
\* cases at random, so a case that is ready again and again is taken.  Nothing
\* is assumed of senders, of ClickHouse or of the operator.
Fairness ==
    /\ \A w \in Workers :
          /\ WF_vars(Step(w)) /\ WF_vars(DrainExpires(w))
          /\ SF_vars(Receive(w)) /\ SF_vars(TickerFlush(w)) /\ SF_vars(StartDrain(w))
    /\ WF_vars(CooldownEnds)

FairSpec == Spec /\ Fairness

-----------------------------------------------------------------------------
(* Properties *)

InBuf    == UNION {Elements(buf[w]) : w \in Workers}
InErrBuf == UNION {Elements(errBuf[w]) : w \in Workers}

\* No line with anything in it vanishes unseen: at every instant the counters of
\* /api/ingest/stats together with the queue and the buffers account for each
\* line that arrived, and each is in one place only.  The lines no counter knows
\* are those that turned out blank behind their transport marker, which
\* ProcessLine drops before it counts.
EveryLineAccounted ==
    /\ stats.buffered = Cardinality(InBuf)
    /\ stats.inserted = Cardinality({l \in flushed : Kind(l) = "log"})
    /\ stats.bufferDrops = Cardinality(evicted)
    /\ Cardinality(Lines \ unread) =
         stats.dropped + Len(lineCh) + stats.authRejected
           + (stats.skipped + Cardinality(blank)) + stats.buffered
           + Cardinality(InErrBuf) + Cardinality(flushed) + stats.bufferDrops
    /\ \A l \in blank : Kind(l) = "empty"

\* The delivery contract: a line is stored at most once.
AtMostOnce == \A l \in Lines : rows[l] <= 1

Contract == INSTANCE Delivery
    WITH unsent  <- unread,
         pending <- Elements(lineCh) \cup InBuf \cup InErrBuf

\* The pipeline implements the at-most-once channel: no retry, eviction or
\* drain ever stores a line twice or brings a lost one back.
ImplementsContract == Contract!Spec

\* Unless its budget ran out, the drain leaves no line in the queue that was
\* there when the shutdown began, and, unless some flush failed, nothing in a
\* buffer.
Drained ==
    AllStopped /\ drainDead = {} =>
        /\ Elements(lineCh) \subseteq late
        /\ ~failed => InBuf = {} /\ InErrBuf = {}

Backlog == lineCh # <<>> \/ InBuf # {} \/ InErrBuf # {}

\* Every worker stops after the shutdown signal, whatever ClickHouse does.
ShutdownCompletes == ctxDone ~> AllStopped
=============================================================================
