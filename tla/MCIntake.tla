------------------------------ MODULE MCIntake ------------------------------
(***************************************************************************)
(* What comes in, one part at a time.                                      *)
(* The queue: six lines of different length, one of them longer than the   *)
(* byte limit and one blank, over two slots and three bytes.               *)
(* The breaker: three workers, a threshold of two and time enough for two  *)
(* windows to open one after the other.                                    *)
(* The connections: two listeners, room for one connection, a peer that    *)
(* the allowlist names, one it knows by its host name and a stranger.      *)
(* The frames: one connection and every stream of up to two frames, with   *)
(* counts of up to two digits, of which the limit allows 1 to 3.           *)
(* The proxies: two addresses and three moves of the name service.         *)
(***************************************************************************)
EXTENDS IngestQueue, CircuitBreaker, Connections, TrustedProxies

CONSTANTS c1, c2, c3

MCSize(l) == CASE l = "a" -> 1 [] l = "b" -> 1 [] l = "c" -> 2
               [] l = "d" -> 1 [] l = "blank" -> 0 [] l = "huge" -> 4

MCBindings == <<"udp", "tcp">>
MCBindingOf(c) == IF c = c1 THEN "udp" ELSE "tcp"
MCPeerIP(c) == CASE c = c1 -> "listed" [] c = c2 -> "named" [] c = c3 -> "stranger"

\* Frames of up to three bytes, one of them with a leading zero in its count, and
\* what is sent with one or two of them.
Payloads == UNION {[1 .. n -> {"x", "1", "sp", "lf"}] : n \in 1 .. 3}
Counts == {<<"1">>, <<"2">>, <<"3">>, <<"0", "1">>}
MCFrame(kind, count, payload) == [kind |-> kind, count |-> count, payload |-> payload]
MCFrames ==
    {f \in {MCFrame(kind, n, p) : kind \in {"counted", "countedLF"}, n \in Counts, p \in Payloads}
           \cup {MCFrame("line", << >>, p) : p \in Payloads \cup {<< >>}} : Carries(f)}
ShortFrames == {f \in MCFrames : Len(f.payload) <= 2}

TwoLines == <<MCFrame("countedLF", <<"2">>, <<"x", "lf">>), MCFrame("line", << >>, <<"1", "x">>)>>
MCStreams == {<<f>> : f \in MCFrames} \cup {<<f, g>> : f, g \in ShortFrames}
MCPeers == {[c \in Conns |-> fs] : fs \in MCStreams}

\* The part that moves.
VARIABLE focus

intakeVars == <<vars, breakerVars, connVars, proxyVars, focus>>

\* What does not move is in one of its initial states.
IntakeInit ==
    /\ Init /\ BreakerInit /\ ConnInit /\ ProxyInit
    /\ focus \in {"queue", "breaker", "connections", "frames", "proxies"}
    /\ focus # "frames" => wire[c1] = Stream(TwoLines)
    /\ focus # "proxies" => dns = Down

\* A single connection that is not disturbed.
OneConnection ==
    Listen \/ Dial(c1) \/ Accept("udp", c1) \/ CheckPeer("udp") \/ Admit("udp")
    \/ Read(c1) \/ Offer(c1) \/ Leave(c1)

IntakeNext ==
    /\ UNCHANGED focus
    /\ \/ focus = "queue" /\ Next /\ UNCHANGED <<breakerVars, connVars, proxyVars>>
       \/ focus = "breaker" /\ BreakerNext /\ UNCHANGED <<vars, connVars, proxyVars>>
       \/ focus = "connections" /\ ConnNext /\ UNCHANGED <<vars, breakerVars, proxyVars>>
       \/ focus = "frames" /\ OneConnection /\ UNCHANGED <<vars, breakerVars, proxyVars>>
       \/ focus = "proxies" /\ ProxyNext /\ UNCHANGED <<vars, breakerVars, connVars>>

Conn(A) == focus = "connections" /\ A /\ UNCHANGED <<vars, breakerVars, proxyVars, focus>>
Proxy(A) == focus = "proxies" /\ A /\ UNCHANGED <<vars, breakerVars, connVars, focus>>

\* Goroutines that can run do run and the read deadline passes; nothing is
\* assumed of the peers.  The UI keeps asking, a lookup comes to an end and the
\* snapshot grows old.
IntakeSpec ==
    /\ IntakeInit /\ [][IntakeNext]_intakeVars
    /\ WF_intakeVars(Conn(RunStep))
    /\ WF_intakeVars(Conn(Listen \/ ListenFails))
    /\ \A b \in Names : WF_intakeVars(Conn(AcceptStep(b)))
    /\ \A c \in Conns : WF_intakeVars(Conn(ConnStep(c) \/ ReadFails(c)))
    /\ WF_intakeVars(Proxy(Request)) /\ WF_intakeVars(Proxy(SnapshotAges))
    /\ \A g \in Lookers : WF_intakeVars(Proxy(LookupStep(g) \/ (g = "startup" /\ Ensure)))
=============================================================================
