--------------------------- MODULE AnomalyDetect ---------------------------
(***************************************************************************)
(* The traffic queries and the detectors of the anomaly module             *)
(* (anomalystore/traffic.go, usecase/anomaly/detect.go), as operators on   *)
(* the log table.  A log row is                                            *)
(*   [id, at, src, dst, port, country, blocked, bytes]                     *)
(* where an address is a number (0 is ZeroIPv4) and time is counted in     *)
(* ticks.  The LIMITs of the queries (10, 30, 50, 2000) are above any      *)
(* instance.  Ratios are whole numbers, shares and regularities percents.  *)
(***************************************************************************)
EXTENDS Integers, FiniteSets, FiniteSetsExt

CONSTANTS
    Win,        \* the windows: portScan, horizontal, blocked, hour, day,
                \* lateral, rep, repLookback, beacon, baselineDays,
                \* blockedCooldown, countryCooldown, learning
    Th,         \* EffectiveThresholds: the fields of type Thresholds
    PrivateIPs, \* the addresses isPrivateOrLocal accepts
    BadIPs,     \* the addresses with a reputation hit
    NoCountry,  \* '', 'Unknown', 'Reserved', ...
    SubnetSize  \* 256 in the code

None == 0       \* displayIP of an empty or zero address

StartOfHour(t) == t - (t % Win.hour)
StartOfDay(t) == t - (t % Win.day)

-----------------------------------------------------------------------------
(* Conditions the queries share *)

Between(L, from, to) == {r \in L : from <= r.at /\ r.at < to}
Since(L, from) == {r \in L : from <= r.at}

InNets(ip, nets) == \E n \in nets : n.lo <= ip /\ ip <= n.hi

\* ipNetsSQL: with no usable network there is no restriction at all.
ipNetsSQL(L, cols, nets) ==
    LET usable == {n \in nets : n.lo <= n.hi}
    IN  IF usable = {} THEN L
        ELSE {r \in L : \E c \in cols : InNets(r[c], usable)}

touchNetsSQL(L, nets) == ipNetsSQL(L, {"src", "dst"}, nets)
colInNetsSQL(L, col, nets) == ipNetsSQL(L, {col}, nets)

privateSrcSQL(L, includePrivate) ==
    IF includePrivate THEN L ELSE {r \in L : r.src \notin PrivateIPs}

\* traffic_edges_hourly keeps the start of the hour of every row; a query
\* that fails on it is repeated on traffic_logs.
Edges(L, hourly) ==
    IF hourly THEN {[r EXCEPT !.at = StartOfHour(r.at)] : r \in L} ELSE L

Values(L, col) == {r[col] : r \in L}
Bytes(L) == MapThenSumSet(LAMBDA r : r.bytes, L)

-----------------------------------------------------------------------------
(* Queries *)

PortScan(L, now, includePrivate, nets) ==
    LET W == touchNetsSQL(privateSrcSQL(Between(L, now - Win.portScan, now),
                                        includePrivate), nets)
        Of(s) == {r \in W : r.src = s}
    IN  {s \in Values(W, "src") :
            /\ Cardinality(Values(Of(s), "port")) >= Th.PortScanPorts
            /\ Cardinality(Of(s)) >= Th.PortScanEvents}

Net24(ip) == ip \div SubnetSize

HorizontalScan(L, now, includePrivate, nets) ==
    LET W == touchNetsSQL(privateSrcSQL(Between(L, now - Win.horizontal, now),
                                        includePrivate), nets)
        Of(h) == {r \in W : r.src = h.src /\ Net24(r.dst) = h.net24}
    IN  {h \in [src : Values(W, "src"), net24 : {Net24(r.dst) : r \in W}] :
            /\ Cardinality(Values(Of(h), "dst")) >= Th.HorizontalHosts
            /\ Cardinality(Of(h)) >= Th.HorizontalEvents}

BlockedCount(L, from, to, net) ==
    Cardinality({r \in touchNetsSQL(Between(L, from, to), {net}) : r.blocked})

CountryRows(L, nets) ==
    {r \in colInNetsSQL(L, "src", nets) : r.country \notin NoCountry}

CurrentCountries(L, now, nets) ==
    LET W == CountryRows(Since(L, now - Win.hour), nets)
    IN  {c \in Values(W, "country") :
            Cardinality({r \in W : r.country = c}) >= Th.NewCountryMin}

CountryEvents(L, now, nets, c) ==
    Cardinality({r \in CountryRows(Since(L, now - Win.hour), nets) :
                    r.country = c})

CurrentCountryTotal(L, now, nets) ==
    Cardinality(CountryRows(Since(L, now - Win.hour), nets))

\* Only whole days count, today's own traffic does not.
BaselineCountries(L, now, nets) ==
    LET W == CountryRows(Between(L, now - Win.baselineDays * Win.day,
                                 StartOfDay(now)), nets)
    IN  {c \in Values(W, "country") :
            Cardinality({r \in W : r.country = c}) >= Th.NewCountryBaseline}

Pair(r) == <<r.src, r.dst>>
PairRows(L, p) == {r \in L : Pair(r) = p}

RecentEdges(L, now, hourly, nets) ==
    colInNetsSQL(Since(Edges(L, hourly), now - Win.rep), "src", nets)

\* Pairs seen before the hour that is running.
KnownPairs(L, now, hourly, pairs) ==
    {Pair(r) : r \in Between(Edges(L, hourly), now - Win.repLookback,
                             StartOfHour(now))} \cap pairs

ByteSurge(L, now, hourly, nets) ==
    LET W == colInNetsSQL(Since(Edges(L, hourly), now - 2 * Win.hour),
                          "src", nets)
        Now(s) == Bytes({r \in Between(W, now - Win.hour, now) : r.src = s})
        Prev(s) == Bytes({r \in Between(W, now - 2 * Win.hour, now - Win.hour) :
                             r.src = s})
    IN  {h \in {[src |-> s, now |-> Now(s), prev |-> Prev(s)] :
                    s \in Values(W, "src")} :
            h.now >= Th.ByteSurgeAbsMin /\ h.prev >= Th.ByteSurgeFloor}

\* Candidates first, their hours by a second query: when that one fails the
\* candidates come back without hours.
Beaconing(L, now, hourly, hoursOK, nets) ==
    LET W == touchNetsSQL(Since(Edges(L, hourly), now - Win.beacon), nets)
        Hours(p) == {StartOfHour(r.at) : r \in PairRows(W, p)}
        Total(p) == Bytes(PairRows(W, p))
        Quiet(p) ==
            /\ Cardinality(Hours(p)) >= Max({Th.BeaconMinHours, 2})
            /\ Total(p) <= Th.BeaconMaxAvgBytes * Cardinality(Hours(p))
    IN  {[pair |-> p, hours |-> IF hoursOK THEN Hours(p) ELSE {}] :
            p \in {q \in {Pair(r) : r \in W} : Quiet(q)}}

LateralFanout(L, now, nets) ==
    LET W == colInNetsSQL(colInNetsSQL(Between(L, now - Win.lateral, now),
                                       "src", nets), "dst", nets)
        Of(s) == {r \in W : r.src = s}
    IN  {s \in Values(W, "src") :
            /\ Cardinality(Values(Of(s), "dst")) >= Th.LateralHosts
            /\ Cardinality(Of(s)) >= Th.LateralEvents}

-----------------------------------------------------------------------------
(* Fingerprints and suppression keys: what a hash or a string is made of *)

fingerprintAt(code, src, dst, extra, bucket) ==
    [code |-> code, src |-> src, dst |-> dst, extra |-> extra,
     bucket |-> bucket]

fingerprint(code, src, dst, extra, now) ==
    fingerprintAt(code, src, dst, extra, StartOfHour(now))

fingerprintDay(code, src, dst, extra, now) ==
    fingerprintAt(code, src, dst, extra, StartOfDay(now))

FingerprintForHunt(id, now) ==
    fingerprintAt("hunt_threshold", None, None, id, StartOfHour(now))

NoKey == [code |-> "none", what |-> <<>>]

\* suppressionKeyForEvent; the subject of a key is read off the fingerprint.
suppressionKeyForEvent(fp) ==
    LET Key(what) == [code |-> fp.code, what |-> what]
    IN  CASE fp.code \in {"new_country_dst", "blocked_surge"} -> Key(<<fp.extra>>)
          [] fp.code \in {"port_scan", "horizontal_scan", "byte_surge",
                          "lateral_fanout"} -> Key(<<fp.src>>)
          [] fp.code \in {"rep_new_dst", "beaconing"} -> Key(<<fp.src, fp.dst>>)
          [] OTHER -> NoKey

Candidate(fp, now) ==
    [fp |-> fp, key |-> suppressionKeyForEvent(fp), at |-> now]

-----------------------------------------------------------------------------
(* Detectors: the events each one proposes *)

Codes == <<"blocked_surge", "new_country_dst", "port_scan", "horizontal_scan",
           "rep_new_dst", "byte_surge", "lateral_fanout", "beaconing">>

detectPortScan(L, now, includePrivate, nets) ==
    {Candidate(fingerprint("port_scan", s, None, None, now), now) :
        s \in PortScan(L, now, includePrivate, nets) \ {None}}

detectHorizontalScan(L, now, includePrivate, nets) ==
    {Candidate(fingerprint("horizontal_scan", h.src, None, h.net24, now), now) :
        h \in {x \in HorizontalScan(L, now, includePrivate, nets) :
                   x.src # None}}

\* Networks reported during the last cooldown are passed over.
detectBlockedSurge(L, now, nets, recent) ==
    LET curr(n) == BlockedCount(L, now - Win.blocked, now, n)
        prev(n) == BlockedCount(L, now - 2 * Win.blocked, now - Win.blocked, n)
        need(n) == Max({prev(n) * Th.SurgeRatio, Th.SurgeAbsMin})
        fp(n) == fingerprint("blocked_surge", None, None, n.name, now)
    IN  {Candidate(fp(n), now) :
            n \in {m \in nets : /\ suppressionKeyForEvent(fp(m)) \notin recent
                                /\ prev(m) >= Th.SurgeFloor
                                /\ curr(m) >= need(m)}}

detectNewCountry(L, now, nets, recent) ==
    LET fp(c) == fingerprint("new_country_dst", None, None, c, now)
        fresh == CurrentCountries(L, now, nets) \ BaselineCountries(L, now, nets)
        share(c) == 100 * CountryEvents(L, now, nets, c)
    IN  {Candidate(fp(c), now) :
            c \in {d \in fresh :
                /\ suppressionKeyForEvent(fp(d)) \notin recent
                /\ share(d) >= Th.NewCountryMinShare
                                  * CurrentCountryTotal(L, now, nets)}}

\* A pair is worth an alert when one of its public ends has a reputation and
\* the pair was not seen before this hour.
detectRepNewDst(L, now, hourly, nets) ==
    LET W == RecentEdges(L, now, hourly, nets)
        Listed(ip) == ip \notin PrivateIPs /\ ip \in BadIPs
        cands == {p \in {Pair(r) : r \in W} :
                    /\ p[1] # None /\ p[2] # None
                    /\ Cardinality(PairRows(W, p)) >= Th.RepMinEvents
                    /\ Listed(p[1]) \/ Listed(p[2])}
    IN  {Candidate(fingerprint("rep_new_dst", p[1], p[2], None, now), now) :
            p \in cands \ KnownPairs(L, now, hourly, cands)}

detectByteSurge(L, now, hourly, nets) ==
    {Candidate(fingerprint("byte_surge", h.src, None, None, now), now) :
        h \in {x \in ByteSurge(L, now, hourly, nets) :
            /\ x.src # None /\ x.prev >= Th.ByteSurgeFloor
            /\ x.now >= Max({x.prev * Th.ByteSurgeRatio, Th.ByteSurgeAbsMin})}}

detectLateralFanout(L, now, nets) ==
    {Candidate(fingerprint("lateral_fanout", s, None, None, now), now) :
        s \in LateralFanout(L, now, nets) \ {None}}

\* The share of gaps between active hours that are one hour long, in percent.
hourRegularity(hours) ==
    LET next(h) == Min({g \in hours : g > h})
        gaps == {h \in hours : \E g \in hours : g > h}
        ok == {h \in gaps : next(h) - h <= Win.hour}
    IN  IF gaps = {} THEN 0 ELSE (100 * Cardinality(ok)) \div Cardinality(gaps)

detectBeaconing(L, now, hourly, hoursOK, nets) ==
    {Candidate(fingerprintDay("beaconing", h.pair[1], h.pair[2], None, now), now) :
        h \in {x \in Beaconing(L, now, hourly, hoursOK, nets) :
            /\ x.pair[1] # None /\ x.pair[2] # None
            /\ hourRegularity(x.hours) >= Th.BeaconMinRegularity}}
=============================================================================
