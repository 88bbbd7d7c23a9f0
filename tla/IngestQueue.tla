----------------------------- MODULE IngestQueue -----------------------------
(***************************************************************************)
(* Admission to the shared ingest queue (adapter/ingestnet): the lock-free *)
(* TryEnqueue that every TCP connection and every HTTP upload calls, and   *)
(* the dequeue step of the workers.                                        *)
(*                                                                         *)
(* The queue is limited twice: by depth (the capacity of the Go channel    *)
(* lineCh) and by bytes (the atomic counter queueBytes).  Bytes are        *)
(* reserved with a CAS loop before the channel send, rolled back when the  *)
(* channel is full, and released by a worker after the receive, so the     *)
(* counter and the channel disagree for a while on every path.  The        *)
(* question of this module is whether they ever disagree for good.         *)
(*                                                                         *)
(* One call of TryEnqueue carries one line, so the program counter of a    *)
(* call is kept per line; any number of calls run at the same time.        *)
(***************************************************************************)
EXTENDS Integers, Sequences, FiniteSets

CONSTANTS
    Lines,          \* the lines offered to the queue
    Size(_),        \* Size(l): len(line) after TrimSpace
    QueueSize,      \* cfg.QueueSize: capacity of lineCh
    QueueMaxBytes,  \* cfg.QueueMaxBytes: limit of the sum of len(line)
    Workers         \* cfg.Workers: number of worker goroutines

ASSUME QueueAssumption ==
    /\ IsFiniteSet(Lines)
    /\ \A l \in Lines : Size(l) \in Nat
    /\ QueueSize \in Nat \ {0}
    /\ QueueMaxBytes \in Nat \ {0}
    /\ Workers \in Nat \ {0}

VARIABLES
    queueBytes,     \* s.queueBytes
    lineCh,         \* s.lineCh
    droppedTotal,   \* s.stats.droppedTotal
    pc,             \* where the call, and later the line, is
    cur             \* the value of queueBytes the call has loaded

vars == <<queueBytes, lineCh, droppedTotal, pc, cur>>

InCall == {"load", "cas", "send", "full"}

PC == InCall \cup {"unread", "blank", "queued", "taken", "handed", "dropped"}

Init ==
    /\ queueBytes = 0
    /\ lineCh = <<>>
    /\ droppedTotal = 0
    /\ pc = [l \in Lines |-> "unread"]
    /\ cur = [l \in Lines |-> 0]

-----------------------------------------------------------------------------
(* TryEnqueue *)

Goto(l, place) == pc' = [pc EXCEPT ![l] = place]

Drop(l) ==
    /\ Goto(l, "dropped")
    /\ droppedTotal' = droppedTotal + 1

\* A blank line is accepted and forgotten: it is not a drop.
EnqueueBlank(l) ==
    /\ pc[l] = "unread"
    /\ Size(l) = 0
    /\ Goto(l, "blank")
    /\ UNCHANGED <<queueBytes, lineCh, droppedTotal, cur>>

\* A line that alone exceeds the byte limit is dropped at once.
EnqueueOversized(l) ==
    /\ pc[l] = "unread"
    /\ Size(l) > QueueMaxBytes
    /\ Drop(l)
    /\ UNCHANGED <<queueBytes, lineCh, cur>>

EnqueueBegin(l) ==
    /\ pc[l] = "unread"
    /\ Size(l) \in 1 .. QueueMaxBytes
    /\ Goto(l, "load")
    /\ UNCHANGED <<queueBytes, lineCh, droppedTotal, cur>>

\* cur := queueBytes.Load(); the line is dropped when it would not fit.
LoadBytes(l) ==
    /\ pc[l] = "load"
    /\ IF queueBytes + Size(l) > QueueMaxBytes
       THEN Drop(l) /\ UNCHANGED cur
       ELSE /\ Goto(l, "cas")
            /\ cur' = [cur EXCEPT ![l] = queueBytes]
            /\ UNCHANGED droppedTotal
    /\ UNCHANGED <<queueBytes, lineCh>>

\* Mutant: queueBytes.Add(n) in place of the compare-and-swap.
ReserveBytesByAdd(l) ==
    /\ pc[l] = "cas"
    /\ queueBytes' = queueBytes + Size(l)
    /\ Goto(l, "send")
    /\ cur' = [cur EXCEPT ![l] = 0]
    /\ UNCHANGED <<lineCh, droppedTotal>>

\* CompareAndSwap(cur, cur+n): on failure the loop loads again.
\* The loaded value is dead after this step.
ReserveBytes(l) ==
    /\ pc[l] = "cas"
    /\ IF queueBytes = cur[l]
       THEN queueBytes' = cur[l] + Size(l) /\ Goto(l, "send")
       ELSE Goto(l, "load") /\ UNCHANGED queueBytes
    /\ cur' = [cur EXCEPT ![l] = 0]
    /\ UNCHANGED <<lineCh, droppedTotal>>

\* Mutant: the default branch drops the line and keeps its bytes reserved.
SendLineKeepsBytes(l) ==
    /\ pc[l] = "send"
    /\ IF Len(lineCh) < QueueSize
       THEN /\ lineCh' = Append(lineCh, l)
            /\ Goto(l, "queued")
            /\ UNCHANGED droppedTotal
       ELSE Drop(l) /\ UNCHANGED lineCh
    /\ UNCHANGED <<queueBytes, cur>>

\* The non-blocking channel send: the default branch is the full queue.
SendLine(l) ==
    /\ pc[l] = "send"
    /\ IF Len(lineCh) < QueueSize
       THEN lineCh' = Append(lineCh, l) /\ Goto(l, "queued")
       ELSE Goto(l, "full") /\ UNCHANGED lineCh
    /\ UNCHANGED <<queueBytes, droppedTotal, cur>>

RollBackBytes(l) ==
    /\ pc[l] = "full"
    /\ queueBytes' = queueBytes - Size(l)
    /\ Drop(l)
    /\ UNCHANGED <<lineCh, cur>>

TryEnqueue(l) ==
    \/ EnqueueBlank(l)
    \/ EnqueueOversized(l)
    \/ EnqueueBegin(l)
    \/ LoadBytes(l)
    \/ ReserveBytes(l)
    \/ SendLine(l)
    \/ RollBackBytes(l)

-----------------------------------------------------------------------------
(* The workers' side: the receive and the release are two steps. *)

Taken == {l \in Lines : pc[l] = "taken"}

Dequeue ==
    /\ lineCh # <<>>
    /\ Cardinality(Taken) < Workers
    /\ lineCh' = Tail(lineCh)
    /\ Goto(Head(lineCh), "taken")
    /\ UNCHANGED <<queueBytes, droppedTotal, cur>>

ReleaseQueueBytes(l) ==
    /\ pc[l] = "taken"
    /\ queueBytes' = queueBytes - Size(l)
    /\ Goto(l, "handed")
    /\ UNCHANGED <<lineCh, droppedTotal, cur>>

\* Every line has gone its way: the bounded set of lines is used up.
Finished ==
    /\ \A l \in Lines : pc[l] \in {"blank", "handed", "dropped"}
    /\ UNCHANGED vars

Next ==
    \/ \E l \in Lines : TryEnqueue(l)
    \/ Dequeue
    \/ \E l \in Lines : ReleaseQueueBytes(l)
    \/ Finished

Spec == Init /\ [][Next]_vars

-----------------------------------------------------------------------------
(* Properties *)

TypeOK ==
    /\ queueBytes \in Nat
    /\ lineCh \in Seq(Lines)
    /\ droppedTotal \in Nat
    /\ pc \in [Lines -> PC]
    /\ cur \in [Lines -> Int]

\* Lines whose bytes are reserved and not yet given back.
Held == {l \in Lines : pc[l] \in {"send", "full", "queued", "taken"}}

\* The bytes of a set of lines, counted one by one: their sizes summed.
Bytes(S) == UNION {{l} \X (1 .. Size(l)) : l \in S}

TotalSize(S) == Cardinality(Bytes(S))

\* queueBytes is exactly the size of the lines that hold a reservation: no
\* interleaving of reserve, send, roll back and release leaks or double-frees.
BytesExact == queueBytes = TotalSize(Held)

\* The byte limit holds at every instant, also between CAS and send.
BytesBounded == queueBytes \in 0 .. QueueMaxBytes

Occurs(s, l) == \E i \in 1 .. Len(s) : s[i] = l

Distinct(s) == \A i, j \in 1 .. Len(s) : s[i] = s[j] => i = j

\* The channel holds exactly the queued lines, each once, within its depth.
QueueExact ==
    /\ Len(lineCh) <= QueueSize
    /\ \A l \in Lines : pc[l] = "queued" <=> Occurs(lineCh, l)
    /\ Distinct(lineCh)

\* What TryEnqueue's comment promises: a line is refused only when the queue
\* is full by depth or by bytes, at the step that decides it.
RefusedOnlyWhenFull ==
    [][\A l \in Lines :
          /\ pc[l] = "load" /\ pc'[l] = "dropped"
                => TotalSize(Held) + Size(l) > QueueMaxBytes
          /\ pc[l] # "full" /\ pc'[l] = "full" => Len(lineCh) = QueueSize]_vars

=============================================================================
