---------------------------- MODULE Connections ----------------------------
(***************************************************************************)
(* adapter/ingestnet.Service.Run: the listeners, one accept loop each, the *)
(* allowlist of peers, the limit on connections, one goroutine per         *)
(* connection that reads frames and offers them to the queue, and the      *)
(* order in which all of that is taken down.                               *)
(***************************************************************************)
EXTENDS Framing, FiniteSets

CONSTANTS
    Bindings,       \* cfg.Bindings, in the order in which they are bound
    Conns,          \* connections that peers may open
    BindingOf(_),   \* the listener a connection is made to
    PeerIP(_),      \* the address it comes from
    AllowNets,      \* addresses the allowlist names
    AllowHost,      \* the address of the host name it names, or NoHost
    NoHost,
    MaxConnections, \* capacity of connSem
    Peers           \* what the peers may write: functions from Conns to frames

ASSUME ConnectionsAssumption ==
    /\ MaxConnections \in Nat \ {0} /\ MaxFrameBytes \in Nat \ {0} /\ MaxLenDigits \in Nat
    /\ Peers \subseteq [Conns -> Seq(Frames)]
    /\ \A c \in Conns : BindingOf(c) \in Range(Bindings)
    /\ Conns \cap {"off", "accept", "over"} = {}

VARIABLES
    runner,         \* where Run is
    open,           \* the listeners that are open
    acceptor,       \* per binding: "off", "accept", "over" or the connection in hand
    checked,        \* bindings whose connection in hand has passed the allowlist
    dnsCache,       \* allowlist: "none", "known", "unknown" (negative) or "old"
    ctxDone,        \* the context of Run is cancelled
    conn,           \* per connection: where it is
    wire,           \* the bytes the peer has yet to deliver, and (history) its messages
    held,           \* the message that ReadLine returned last
    got,            \* history: messages offered to the queue
    connSem,        \* tokens in connSem
    workersGone     \* the workers have drained the queue and left (Ingest)

connVars == <<runner, open, acceptor, checked, dnsCache, ctxDone, conn, wire, held, got,
              connSem, workersGone>>

Names == Range(Bindings)
Served == {"reading", "offering", "leaving"}

ConnInit ==
    /\ runner = "running"
    /\ open = {} /\ checked = {}
    /\ acceptor = [b \in Names |-> "off"]
    /\ dnsCache = "none"
    /\ ctxDone = FALSE
    /\ conn = [c \in Conns |-> "new"]
    /\ \E peer \in Peers : wire = [c \in Conns |-> Stream(peer[c])]
    /\ held = [c \in Conns |-> << >>]
    /\ got = [c \in Conns |-> << >>]
    /\ connSem = 0
    /\ workersGone = FALSE

-----------------------------------------------------------------------------
(* Run *)

\* The listeners that Run has opened, in the order of the configuration.
Bound == Cardinality({b \in Names : acceptor[b] # "off"})

Listen ==
    /\ runner = "running" /\ Bound < Len(Bindings)
    /\ open' = open \cup {Bindings[Bound + 1]}
    /\ acceptor' = [acceptor EXCEPT ![Bindings[Bound + 1]] = "accept"]
    /\ UNCHANGED <<runner, checked, dnsCache, ctxDone, conn, wire, held, got, connSem, workersGone>>

\* Run returns the error and its deferred function closes the listeners.
ListenFails ==
    /\ runner = "running" /\ Bound < Len(Bindings)
    /\ open' = {}
    /\ runner' = "failed"
    /\ UNCHANGED <<acceptor, checked, dnsCache, ctxDone, conn, wire, held, got, connSem,
                   workersGone>>

\* SIGTERM, a failed HTTP server, or Run that has failed: startIngest cancels.
Cancel ==
    /\ ~ctxDone
    /\ ctxDone' = TRUE
    /\ UNCHANGED <<runner, open, acceptor, checked, dnsCache, conn, wire, held, got, connSem,
                   workersGone>>

\* <-ctx.Done(), then the listeners are closed.
CloseListeners ==
    /\ runner = "running" /\ Bound = Len(Bindings) /\ ctxDone
    /\ open' = {}
    /\ runner' = "acceptors"
    /\ UNCHANGED <<acceptor, checked, dnsCache, ctxDone, conn, wire, held, got, connSem,
                   workersGone>>

\* Mutant: wg.Wait without acceptWg.Wait.
WaitAcceptorsNot ==
    /\ runner = "acceptors"
    /\ runner' = "conns"
    /\ UNCHANGED <<open, acceptor, checked, dnsCache, ctxDone, conn, wire, held, got, connSem,
                   workersGone>>

\* acceptWg.Wait
WaitAcceptors ==
    /\ runner = "acceptors"
    /\ \A b \in Names : acceptor[b] \in {"off", "over"}
    /\ runner' = "conns"
    /\ UNCHANGED <<open, acceptor, checked, dnsCache, ctxDone, conn, wire, held, got, connSem,
                   workersGone>>

\* wg.Wait: the workers and the connections.
WaitAll ==
    /\ runner = "conns"
    /\ workersGone /\ \A c \in Conns : conn[c] \notin Served
    /\ runner' = "returned"
    /\ UNCHANGED <<open, acceptor, checked, dnsCache, ctxDone, conn, wire, held, got, connSem,
                   workersGone>>

WorkersLeave ==
    /\ ctxDone /\ ~workersGone
    /\ workersGone' = TRUE
    /\ UNCHANGED <<runner, open, acceptor, checked, dnsCache, ctxDone, conn, wire, held, got,
                   connSem>>

-----------------------------------------------------------------------------
(* The accept loops *)

\* A peer connects; the kernel keeps the connection until it is accepted, and
\* resets it when the listener is closed first.
Dial(c) ==
    /\ conn[c] = "new" /\ BindingOf(c) \in open
    /\ conn' = [conn EXCEPT ![c] = "offered"]
    /\ UNCHANGED <<runner, open, acceptor, checked, dnsCache, ctxDone, wire, held, got, connSem,
                   workersGone>>

Reset(c) ==
    /\ conn[c] = "offered" /\ BindingOf(c) \notin open
    /\ conn' = [conn EXCEPT ![c] = "refused"]
    /\ UNCHANGED <<runner, open, acceptor, checked, dnsCache, ctxDone, wire, held, got, connSem,
                   workersGone>>

Accept(b, c) ==
    /\ acceptor[b] = "accept" /\ b \in open
    /\ conn[c] = "offered" /\ BindingOf(c) = b
    /\ acceptor' = [acceptor EXCEPT ![b] = c]
    /\ conn' = [conn EXCEPT ![c] = "accepted"]
    /\ UNCHANGED <<runner, open, checked, dnsCache, ctxDone, wire, held, got, connSem, workersGone>>

\* Accept fails: the loop ends if the context is done and else tries again,
\* which on a closed listener fails again.
AcceptFails(b) ==
    /\ acceptor[b] = "accept" /\ ctxDone
    /\ acceptor' = [acceptor EXCEPT ![b] = "over"]
    /\ UNCHANGED <<runner, open, checked, dnsCache, ctxDone, conn, wire, held, got, connSem,
                   workersGone>>

\* PeerAllowlist.resolve: what the cache holds within its ttl, else a lookup,
\* whose failure is kept as well.
Resolved(cache) == IF cache \in {"known", "unknown"} THEN {cache} ELSE {"known", "unknown"}

Allows(ip, cache) == ip \in AllowNets \/ (cache = "known" /\ ip = AllowHost)

CheckPeer(b) ==
    /\ acceptor[b] \in Conns /\ b \notin checked
    /\ LET c == acceptor[b]
           ip == PeerIP(c)
       IN  \E cache \in IF ip \in AllowNets \/ AllowHost = NoHost THEN {dnsCache}
                        ELSE Resolved(dnsCache) :
             /\ dnsCache' = cache
             /\ IF (AllowNets = {} /\ AllowHost = NoHost) \/ Allows(ip, cache)
                THEN checked' = checked \cup {b} /\ UNCHANGED <<acceptor, conn>>
                ELSE /\ acceptor' = [acceptor EXCEPT ![b] = "accept"]
                     /\ conn' = [conn EXCEPT ![c] = "refused"]
                     /\ UNCHANGED checked
    /\ UNCHANGED <<runner, open, ctxDone, wire, held, got, connSem, workersGone>>

\* A token of connSem without waiting for it, and a goroutine.
Admit(b) ==
    /\ acceptor[b] \in Conns /\ b \in checked
    /\ IF connSem < MaxConnections
       THEN conn' = [conn EXCEPT ![acceptor[b]] = "reading"] /\ connSem' = connSem + 1
       ELSE conn' = [conn EXCEPT ![acceptor[b]] = "refused"] /\ UNCHANGED connSem
    /\ acceptor' = [acceptor EXCEPT ![b] = "accept"]
    /\ checked' = checked \ {b}
    /\ UNCHANGED <<runner, open, dnsCache, ctxDone, wire, held, got, workersGone>>

CacheExpires ==
    /\ dnsCache \in {"known", "unknown"}
    /\ dnsCache' = "old"
    /\ UNCHANGED <<runner, open, acceptor, checked, ctxDone, conn, wire, held, got, connSem,
                   workersGone>>

-----------------------------------------------------------------------------
(* handleConn *)

Read(c) ==
    /\ conn[c] = "reading"
    /\ LET r == ReadLine(wire[c].bytes)
       IN  IF r.err = "none"
           THEN /\ conn' = [conn EXCEPT ![c] = "offering"]
                /\ held' = [held EXCEPT ![c] = TrimSpace(r.msg)]
                /\ wire' = [wire EXCEPT ![c].bytes = r.rest]
           ELSE conn' = [conn EXCEPT ![c] = "leaving"] /\ UNCHANGED <<held, wire>>
    /\ UNCHANGED <<runner, open, acceptor, checked, dnsCache, ctxDone, got, connSem, workersGone>>

\* The read deadline passes, or the connection breaks.
ReadFails(c) ==
    /\ conn[c] = "reading"
    /\ conn' = [conn EXCEPT ![c] = "leaving"]
    /\ UNCHANGED <<runner, open, acceptor, checked, dnsCache, ctxDone, wire, held, got, connSem,
                   workersGone>>

\* A message read after the context is done is not offered.  TryEnqueue takes
\* a blank one for accepted; whether it takes others is IngestQueue's matter.
Offer(c) ==
    /\ conn[c] = "offering"
    /\ IF ctxDone
       THEN conn' = [conn EXCEPT ![c] = "leaving"] /\ UNCHANGED got
       ELSE /\ conn' = [conn EXCEPT ![c] = "reading"]
            /\ got' = IF held[c] = << >> THEN got ELSE [got EXCEPT ![c] = Append(@, held[c])]
    /\ held' = [held EXCEPT ![c] = << >>]
    /\ UNCHANGED <<runner, open, acceptor, checked, dnsCache, ctxDone, wire, connSem, workersGone>>

\* The deferred functions: conn.Close, <-connSem, wg.Done.
Leave(c) ==
    /\ conn[c] = "leaving"
    /\ conn' = [conn EXCEPT ![c] = "closed"]
    /\ connSem' = connSem - 1
    /\ UNCHANGED <<runner, open, acceptor, checked, dnsCache, ctxDone, wire, held, got, workersGone>>

ConnStep(c) == Reset(c) \/ Offer(c) \/ Leave(c)
AcceptStep(b) == AcceptFails(b) \/ CheckPeer(b) \/ Admit(b)
RunStep == CloseListeners \/ WaitAcceptors \/ WaitAll \/ WorkersLeave

ConnNext ==
    \/ Listen \/ ListenFails \/ Cancel \/ RunStep \/ CacheExpires
    \/ \E b \in Names : AcceptStep(b) \/ \E c \in Conns : Accept(b, c)
    \/ \E c \in Conns : Dial(c) \/ Read(c) \/ ReadFails(c) \/ ConnStep(c)

ConnSpec == ConnInit /\ [][ConnNext]_connVars

-----------------------------------------------------------------------------
(* Properties *)

\* What a connection offers to the queue are the messages of its peer, in their
\* order and whole, whatever framing each of them has; and all of them when the
\* reader has come to the end of the stream.
LinesAsSent ==
    \A c \in Conns :
        /\ IsPrefix(got[c], wire[c].sent)
        /\ conn[c] \in Served /\ wire[c].bytes = << >> /\ held[c] = << >> /\ ~ctxDone
              => got[c] = wire[c].sent

\* NothingLeft of Run is left: no accept loop, no connection, and every token of
\* connSem is back.
NothingLeft ==
    /\ \A b \in Names : acceptor[b] \in {"off", "over"}
    /\ \A c \in Conns : conn[c] \notin Served
    /\ connSem = 0

\* When Run returns nothing of it is left: neither an accept loop that was about to
\* hand over a connection, nor the goroutine of one, nor a token.
NothingOutlivesRun == runner = "returned" => NothingLeft

\* It never comes to Run having returned with something left.  After the context is
\* cancelled Run does return, and nothing is left either when a listener could not be
\* opened.  The code relies on the read deadline for a peer that is silent.
ConnectionsEnd ==
    /\ ~<>(~NothingOutlivesRun)
    /\ ctxDone ~> (runner \in {"returned", "failed"} /\ NothingLeft)
=============================================================================
