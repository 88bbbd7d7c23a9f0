--------------------------- MODULE TrustedProxies ---------------------------
(***************************************************************************)
(* adapter/httpapi/loginthrottle: which peers are trusted to name the      *)
(* client of a request.  The proxy is configured by its host name, whose   *)
(* addresses are kept in a snapshot.  Requests never wait for the name     *)
(* service: one that meets an old or an empty snapshot starts a refresh in *)
(* the background, and a backend that starts before its proxy keeps trying *)
(* in a goroutine of its own for a while.  Both read the snapshot, look    *)
(* the name up and replace the snapshot, with no lock over the three.      *)
(***************************************************************************)
EXTENDS Naturals

CONSTANTS
    Addresses,      \* addresses that the proxy may have
    Down,           \* the name service does not answer, or not with an address
    Direct,         \* an address that is no proxy's
    Client,         \* the address of a user, which the proxy passes on
    Retries,        \* tries of the start-up goroutine within trustedEnsureWait
    MaxMoves        \* changes of the name service

ASSUME ProxiesAssumption == Retries \in Nat /\ MaxMoves \in Nat /\ Down \notin Addresses

VARIABLES
    dns,            \* what the name resolves to
    moves,          \* changes left
    hostIPs,        \* the addresses of the snapshot
    fresh,          \* its age is below trustedHostTTL
    lookup,         \* per goroutine: where it is and the snapshot it has read
    tries           \* tries left to the start-up goroutine

proxyVars == <<dns, moves, hostIPs, fresh, lookup, tries>>

Lookers == {"request", "startup"}
NotRunning == [at |-> "off"]

lookupHost == IF dns = Down THEN {} ELSE {dns}

\* The addresses known so far are kept when nothing resolves.
resolveHosts(found, prev) == IF found = {} THEN prev ELSE found

\* ConfigureTrustedProxies: a lookup at once, and the goroutine if it is in vain.
ProxyInit ==
    /\ dns \in Addresses \cup {Down}
    /\ moves = MaxMoves
    /\ hostIPs = resolveHosts(lookupHost, {})
    /\ fresh = TRUE
    /\ tries = Retries
    /\ lookup = [g \in Lookers |->
                   IF g = "startup" /\ hostIPs = {} THEN [at |-> "check"] ELSE NotRunning]

\* Mutant: only an empty snapshot is looked up again.
needsTrustedHostRefreshEmpty == hostIPs = {}

needsTrustedHostRefresh == hostIPs = {} \/ ~fresh

isTrustedProxy(ip) == ip \in hostIPs

ClientIP(remote, header) == IF isTrustedProxy(remote) THEN header ELSE remote

\* A request asks who its client is; trustedRefreshing lets one refresh run.
Request ==
    /\ needsTrustedHostRefresh /\ lookup["request"] = NotRunning
    /\ lookup' = [lookup EXCEPT !["request"] = [at |-> "load"]]
    /\ UNCHANGED <<dns, moves, hostIPs, fresh, tries>>

\* The loop of ensureTrustedHostsResolved: it ends when the snapshot has an
\* address or its time is over.
Ensure ==
    /\ lookup["startup"].at = "check"
    /\ IF hostIPs # {} \/ tries = 0
       THEN lookup' = [lookup EXCEPT !["startup"] = NotRunning] /\ UNCHANGED tries
       ELSE lookup' = [lookup EXCEPT !["startup"] = [at |-> "load"]] /\ tries' = tries - 1
    /\ UNCHANGED <<dns, moves, hostIPs, fresh>>

\* refreshTrustedHosts: trusted.Load, the lookup, trusted.Store.
LoadTrusted(g) ==
    /\ lookup[g].at = "load"
    /\ lookup' = [lookup EXCEPT ![g] = [at |-> "resolve", prev |-> hostIPs]]
    /\ UNCHANGED <<dns, moves, hostIPs, fresh, tries>>

Resolve(g) ==
    /\ lookup[g].at = "resolve"
    /\ lookup' = [lookup EXCEPT ![g] = [at |-> "store", ips |-> resolveHosts(lookupHost, @.prev)]]
    /\ UNCHANGED <<dns, moves, hostIPs, fresh, tries>>

StoreTrusted(g) ==
    /\ lookup[g].at = "store"
    /\ hostIPs' = lookup[g].ips
    /\ fresh' = TRUE
    /\ lookup' = [lookup EXCEPT ![g] = IF g = "request" THEN NotRunning ELSE [at |-> "check"]]
    /\ UNCHANGED <<dns, moves, tries>>

\* trustedHostTTL passes.
SnapshotAges ==
    /\ fresh
    /\ fresh' = FALSE
    /\ UNCHANGED <<dns, moves, hostIPs, lookup, tries>>

\* The name service fails or recovers, or the proxy gets another address.
DnsMoves ==
    /\ moves > 0
    /\ moves' = moves - 1
    /\ dns' \in (Addresses \cup {Down}) \ {dns}
    /\ UNCHANGED <<hostIPs, fresh, lookup, tries>>

LookupStep(g) == LoadTrusted(g) \/ Resolve(g) \/ StoreTrusted(g)

ProxyNext ==
    \/ Request \/ Ensure \/ SnapshotAges \/ DnsMoves
    \/ \E g \in Lookers : LookupStep(g)

ProxySpec == ProxyInit /\ [][ProxyNext]_proxyVars

-----------------------------------------------------------------------------
(* Property *)

\* If the name of the proxy resolves from some time on, then from some time on
\* the requests it passes on are known by their client and not by the proxy,
\* however the two refreshes overtake one another and whatever they had read
\* before; and nobody else's word is taken.
ProxyRecognised ==
    <>[](dns # Down) => <>[](/\ ClientIP(dns, Client) = Client
                             /\ ClientIP(Direct, Client) = Direct)
=============================================================================
