------------------------------ MODULE MapBuild ------------------------------
(***************************************************************************)
(* From scanned rows to the lines and points of the map: the node an       *)
(* address belongs to (mapagg/aggregator, mapagg/enterprise) and the       *)
(* folding of rows into lines and points (usecase/events/get_map).         *)
(* A position is a place, NoPlace being latitude and longitude zero; the   *)
(* weighted mean of places is the set of the places that enter it.  Names  *)
(* are strings, "" and "unknown" being the placeholders; a key is the      *)
(* sequence of the names it is put together from.                          *)
(***************************************************************************)
EXTENDS Integers, Sequences, FiniteSets, FiniteSetsExt, SequencesExt

CONSTANTS
    Lookup,         \* the GeoIP index: address -> [found, at, city, country]
    SubnetOf,       \* address -> its /24, or "" when it has none
    Usable,         \* names of countries, codes of two letters left out
    CountryCenters, \* some names and codes -> the place of the country
    ContinentOf,    \* names of countries -> continents, or "unknown"
    ContinentCenters, \* continents -> places
    Reputation      \* address -> set of [list, category]

NoPlace == "none"
Addresses == DOMAIN Lookup
Known(name) == name \notin {"", "unknown"}
HasCenter(country) == country \in DOMAIN CountryCenters

\* What the logs say of an address.
Hint(at, city, country) == [at |-> at, city |-> city, country |-> country]

-----------------------------------------------------------------------------
(* The node of an address *)

UsableCountry(c) == c \in Usable

preferCountry(logCountry, geoCountry) ==
    CASE UsableCountry(geoCountry) -> geoCountry
      [] ~UsableCountry(geoCountry) /\ UsableCountry(logCountry) -> logCountry
      [] OTHER -> IF Known(geoCountry) THEN geoCountry
                  ELSE IF Known(logCountry) THEN logCountry ELSE "unknown"

isCollapsedMapKey(key) == key \in {<<"">>, <<"city:unknown">>, <<"unknown">>}

\* Mutant: the shared bucket is left as it is.
promoteUnknownMapKeyNever(m, ip) == m

\* An address in the shared bucket moves to its city, its country or itself.
promoteUnknownMapKey(m, ip) ==
    IF ~isCollapsedMapKey(m.key) THEN m
    ELSE [m EXCEPT !.key =
            CASE Known(m.city) -> IF Known(m.country) THEN <<m.city, m.country>> ELSE <<m.city>>
              [] ~Known(m.city) /\ Known(m.country) ->
                   IF m.key = <<"city:unknown">> THEN <<"city:country", m.country>> ELSE <<m.country>>
              [] OTHER -> <<ip>>]

\* Without a position of its own an address takes the one of the logs, then the
\* centre of its country; without either it stays where it was.
Placed(m, hint, country, ip) ==
    LET own == m.valid /\ m.at # NoPlace
    IN  IF own \/ hint.at # NoPlace \/ HasCenter(country)
        THEN promoteUnknownMapKey(
               [m EXCEPT !.at = IF own THEN @ ELSE IF hint.at # NoPlace THEN hint.at ELSE CountryCenters[country],
                         !.valid = TRUE,
                         !.country = IF own \/ hint.at # NoPlace THEN @ ELSE country], ip)
        ELSE m

\* The names the index lacks come from the logs.
applyLogGeoFallback(m, hint, ip) ==
    LET country == preferCountry(hint.country, m.country)
    IN  Placed([m EXCEPT !.city = IF @ = "" THEN hint.city ELSE @,
                         !.country = IF UsableCountry(country) THEN country ELSE @], hint, country, ip)

continentGroupMeta(m) ==
    LET label == ContinentOf[IF UsableCountry(m.country) THEN m.country ELSE "unknown"]
    IN  [m EXCEPT !.key = <<label>>, !.at = ContinentCenters[label], !.valid = label # "unknown"]

Meta(key, lk, at, valid) ==
    [key |-> key, at |-> at, city |-> lk.city, country |-> lk.country, valid |-> valid]

subnetMeta(ip, lk) ==
    IF SubnetOf[ip] = "" THEN [Meta(<<"unknown">>, lk, NoPlace, FALSE) EXCEPT !.city = ""]
    ELSE Meta(<<SubnetOf[ip]>>, lk, lk.at, lk.found)

\* A city, else the centre of its country, else the address itself.
cityMeta(ip, lk) ==
    CASE lk.city # "" /\ lk.found ->
           Meta(IF lk.country # "" THEN <<lk.city, lk.country>> ELSE <<lk.city>>, lk, lk.at, TRUE)
      [] ~(lk.city # "" /\ lk.found) /\ Known(lk.country) ->
           [Meta(<<"city:country", lk.country>>, lk,
                 IF HasCenter(lk.country) THEN CountryCenters[lk.country] ELSE lk.at,
                 lk.found \/ HasCenter(lk.country)) EXCEPT !.city = ""]
      [] OTHER -> IF lk.found /\ lk.at # NoPlace THEN Meta(<<ip>>, lk, lk.at, TRUE)
                  ELSE Meta(<<"city:unknown">>, lk, lk.at, FALSE)

countryMeta(ip, lk) ==
    LET label == IF lk.country = "" THEN "unknown" ELSE lk.country
    IN  IF HasCenter(label) THEN Meta(<<label>>, lk, CountryCenters[label], TRUE)
        ELSE Meta(<<label>>, lk, lk.at, lk.found)

Regrouped(group, m) == IF group = "continent" THEN continentGroupMeta(m) ELSE m

IPGroupMetaHinted(ip, group, hint) ==
    LET lk == Lookup[ip]
        m == CASE group = "subnet"    -> subnetMeta(ip, lk)
               [] group = "city"      -> cityMeta(ip, lk)
               [] group = "country"   -> countryMeta(ip, lk)
               [] group = "continent" -> continentGroupMeta(Meta(<<"">>, lk, NoPlace, FALSE))
               [] OTHER               -> Meta(<<ip>>, lk, lk.at, lk.found)
    IN  Regrouped(group, applyLogGeoFallback(m, hint, ip))

\* city_country: addresses of the enterprise by city, the others by country; m is
\* the node by city.
EnterpriseMeta(ip, m, hint) ==
    LET city == IF m.city # "" THEN m.city ELSE hint.city
        country == IF Known(m.country) THEN m.country ELSE hint.country
        center == ~m.valid \/ m.at = NoPlace
    IN  IF ~Known(city) THEN IPGroupMetaHinted(ip, "country", hint)
        ELSE [key |-> IF Known(country) THEN <<city, country>> ELSE <<city>>,
              at |-> IF center /\ HasCenter(country) THEN CountryCenters[country] ELSE m.at,
              city |-> city, country |-> IF Known(country) THEN country ELSE m.country,
              valid |-> m.valid \/ (center /\ HasCenter(country))]

IPGroupMetaHybrid(ip, inEnterprise, hint) ==
    IF inEnterprise THEN EnterpriseMeta(ip, IPGroupMetaHinted(ip, "city", hint), hint)
    ELSE IPGroupMetaHinted(ip, "country", hint)

\* The enterprise networks [start, end, city, country] around an address: the last
\* by start, then by end.
EnterpriseLookup(nets, n) ==
    LET around == {r \in nets : r.start <= n /\ n <= r.end}
    IN  {r \in around : \A o \in around : o.start < r.start \/ (o.start = r.start /\ o.end <= r.end)}

resolveMeta(ip, group, hint, nets) ==
    LET hit == EnterpriseLookup(nets, Lookup[ip].number)
        net == CHOOSE r \in hit : TRUE
        filled == [hint EXCEPT !.city = IF @ = "" THEN net.city ELSE @,
                               !.country = IF @ = "" THEN net.country ELSE @]
    IN  IF group # "city_country" THEN IPGroupMetaHinted(ip, group, hint)
        ELSE IPGroupMetaHybrid(ip, hit # {}, IF hit = {} THEN hint ELSE filled)

-----------------------------------------------------------------------------
(* Lines and points *)

\* Rows: [src, dst, count, allowed, blocked, bytes, action, srcHint, dstHint].
Column(rows, field) == [i \in DOMAIN rows |-> rows[i][field]]
FirstKnown(a, b) == IF Known(a) THEN a ELSE b

EdgeAggAdd(e, row, s, d) ==
    [src |-> s.key, dst |-> d.key,
     count |-> e.count + row.count, allowed |-> e.allowed + row.allowed,
     blocked |-> e.blocked + row.blocked, bytes |-> e.bytes + row.bytes,
     action |-> IF e.action = "" THEN row.action ELSE e.action,
     srcCountry |-> FirstKnown(e.srcCountry, preferCountry(row.srcHint.country, s.country)),
     dstCountry |-> FirstKnown(e.dstCountry, preferCountry(row.dstHint.country, d.country)),
     srcAt |-> e.srcAt \cup {s.at}, dstAt |-> e.dstAt \cup {d.at},
     weight |-> IF s.valid /\ d.valid THEN e.weight + row.count ELSE e.weight]

EmptyEdge ==
    [src |-> <<>>, dst |-> <<>>, count |-> 0, allowed |-> 0, blocked |-> 0, bytes |-> 0, action |-> "",
     srcCountry |-> "", dstCountry |-> "", srcAt |-> {}, dstAt |-> {}, weight |-> 0]

NodeAggAdd(n, m, count) ==
    [city |-> FirstKnown(n.city, m.city), country |-> FirstKnown(n.country, m.country),
     at |-> IF m.valid THEN n.at \cup {m.at} ELSE n.at, count |-> n.count + count]

EmptyNode == [city |-> "", country |-> "", at |-> {}, count |-> 0]

Status(e) ==
    CASE e.blocked > 0 /\ e.allowed = 0 -> "blocked"
      [] e.allowed > 0 /\ e.blocked = 0 -> "allowed"
      [] e.allowed > 0 /\ e.blocked > 0 -> "mixed"
      [] OTHER -> IF e.action \in {"deny", "drop"} THEN "blocked"
                  ELSE IF e.action \in {"allow", "pass"} THEN "allowed" ELSE "unknown"

makeLine(e, status, count, allowed, blocked, bytes) ==
    [src |-> e.src, dst |-> e.dst, srcAt |-> e.srcAt, dstAt |-> e.dstAt, status |-> status,
     count |-> count, allowed |-> allowed, blocked |-> blocked, bytes |-> bytes]

\* A mixed edge becomes two lines; the blocked one takes the bytes that are left.
ToLines(e) ==
    LET share == (e.bytes * e.allowed) \div e.count
    IN  IF e.blocked > 0 /\ e.allowed > 0
        THEN {makeLine(e, "allowed", e.allowed, e.allowed, 0, share),
              makeLine(e, "blocked", e.blocked, 0, e.blocked, e.bytes - share)}
        ELSE {makeLine(e, Status(e), e.count, e.allowed, e.blocked, e.bytes)}

Put(f, k, v) == [x \in DOMAIN f \cup {k} |-> IF x = k THEN v ELSE f[x]]
Get(f, k, default) == IF k \in DOMAIN f THEN f[k] ELSE default
Nothing == [x \in {} |-> x]

\* An edge needs a node at both ends.
EdgeOf(edges, row, s, d) ==
    IF s.valid /\ d.valid
    THEN Put(edges, <<s.key, d.key>>, EdgeAggAdd(Get(edges, <<s.key, d.key>>, EmptyEdge), row, s, d))
    ELSE edges

\* The edges of the first i rows; ms[i] are the nodes of row i.
EdgesOf(rows, ms) ==
    LET upTo[i \in 0 .. Len(rows)] ==
            IF i = 0 THEN Nothing ELSE EdgeOf(upTo[i - 1], rows[i], ms[i].s, ms[i].d)
    IN  upTo

PointOf(points, active, m, count) ==
    IF m.key \in active THEN Put(points, m.key, NodeAggAdd(Get(points, m.key, EmptyNode), m, count))
    ELSE points

\* The points of the first i rows, for the keys that are active.
PointsOf(rows, ms, active) ==
    LET upTo[i \in 0 .. Len(rows)] ==
            IF i = 0 THEN Nothing
            ELSE PointOf(PointOf(upTo[i - 1], active, ms[i].s, rows[i].count), active, ms[i].d, rows[i].count)
    IN  upTo

LinesOf(edges) == UNION {ToLines(edges[k]) : k \in {k \in DOMAIN edges : edges[k].weight > 0}}
EndsOf(lines) == {l.src : l \in lines} \cup {l.dst : l \in lines}

\* The lines of the edges, and points for their ends.
Drawn(edges, rows, ms) ==
    LET lines == LinesOf(edges)
    IN  [lines |-> lines, points |-> PointsOf(rows, ms, EndsOf(lines))[Len(rows)]]

\* The node of an address is found once; one without a position is tried again with
\* the next row's hint, which gives m.
Cached(ip, cache, m) ==
    IF ip \in DOMAIN cache /\ (cache[ip].valid \/ ~m.valid) THEN cache ELSE Put(cache, ip, m)

metaFor(ip, hint, cache, group, nets) == Cached(ip, cache, resolveMeta(ip, group, hint, nets))

NoCaches == [src |-> Nothing, dst |-> Nothing]

\* The nodes of sources and of destinations after the first i rows.
CachesOf(caches, rows, group, nets) ==
    LET upTo[i \in 0 .. Len(rows)] ==
            IF i = 0 THEN caches
            ELSE [src |-> metaFor(rows[i].src, rows[i].srcHint, upTo[i - 1].src, group, nets),
                  dst |-> metaFor(rows[i].dst, rows[i].dstHint, upTo[i - 1].dst, group, nets)]
    IN  upTo

\* The nodes of each row, once its ends are in the caches.
NodesOf(rows, caches) ==
    [i \in 1 .. Len(rows) |-> [s |-> caches[i].src[rows[i].src], d |-> caches[i].dst[rows[i].dst]]]

\* The rows are read twice with the same caches: for the edges, then for the points.
buildMapFromIPRaws(rows, group, nets) ==
    LET first == CachesOf(NoCaches, rows, group, nets)
        second == CachesOf(first[Len(rows)], rows, group, nets)
    IN  Drawn(EdgesOf(rows, NodesOf(rows, first))[Len(rows)], rows, NodesOf(rows, second))

-----------------------------------------------------------------------------
(* Rows grouped by ClickHouse *)

\* What the table of enriched addresses adds to a row when it is read: the place,
\* the city and the country that the row lacks.
TrafficLogsEnrichedFromSQL(hint, e) ==
    [at |-> IF hint.at = NoPlace THEN e.at ELSE hint.at,
     city |-> IF ~Known(hint.city) /\ e.city # "" THEN e.city ELSE hint.city,
     country |-> IF ~UsableCountry(hint.country) /\ e.country # "" THEN e.country ELSE hint.country]

\* Without a city and a country the key is the address.
cityKeyExpr(ip, h) ==
    CASE h.city # "" -> IF Known(h.country) THEN <<h.city, h.country>> ELSE <<h.city>>
      [] h.city = "" /\ Known(h.country) -> <<"city:country", h.country>>
      [] OTHER -> <<ip>>

countryKeyExpr(h) == IF Known(h.country) THEN <<h.country>> ELSE <<"unknown">>

continentKeyExpr(h) == <<ContinentOf[countryKeyExpr(h)[1]]>>

geoGroupExprs(ip, h, group) ==
    CASE group = "city" -> cityKeyExpr(ip, h) [] group = "ip" -> <<ip>>
      [] group = "subnet" -> <<SubnetOf[ip]>> [] group = "continent" -> continentKeyExpr(h)
      [] OTHER -> countryKeyExpr(h)

\* GROUP BY src_key, dst_key: the sums of a group, the names of any of its rows, and
\* the mean place of those of its rows that have both places.  ORDER BY coord_weight
\* DESC, cnt DESC LIMIT limit: the groups with most placed events, then with most
\* events; equal groups come in any order.
scanGeoFromLogs(logs, group, enriched, limit) ==
    LET hint(ip, h) == IF ip \in enriched THEN TrafficLogsEnrichedFromSQL(h, Lookup[ip]) ELSE h
        rows == [i \in DOMAIN logs |-> [logs[i] EXCEPT !.srcHint = hint(logs[i].src, @), !.dstHint = hint(logs[i].dst, @)]]
        key(i) == <<geoGroupExprs(rows[i].src, rows[i].srcHint, group), geoGroupExprs(rows[i].dst, rows[i].dstHint, group)>>
        keys == {key(i) : i \in DOMAIN rows}
        members(k) == {i \in DOMAIN rows : key(i) = k}
        located(k) == {i \in members(k) : rows[i].srcHint.at # NoPlace /\ rows[i].dstHint.at # NoPlace}
        total(k, field) == SumFunctionOnSet(Column(rows, field), members(k))
        grouped(k, i) ==
            LET at(side) == IF located(k) = {} THEN NoPlace
                            ELSE rows[IF i \in located(k) THEN i ELSE CHOOSE j \in located(k) : TRUE][side].at
            IN  [src |-> k[1], dst |-> k[2], action |-> rows[i].action,
                 srcHint |-> [rows[i].srcHint EXCEPT !.at = at("srcHint")],
                 dstHint |-> [rows[i].dstHint EXCEPT !.at = at("dstHint")],
                 count |-> total(k, "count"), bytes |-> total(k, "bytes"),
                 allowed |-> total(k, "allowed"), blocked |-> total(k, "blocked")]
        coord_weight(k) == SumFunctionOnSet(Column(rows, "count"), located(k))
        before(k, o) == \/ coord_weight(k) > coord_weight(o)
                        \/ coord_weight(k) = coord_weight(o) /\ total(k, "count") >= total(o, "count")
        cuts == {K \in SUBSET keys : /\ Cardinality(K) = Min({limit, Cardinality(keys)})
                                     /\ \A k \in K, o \in keys \ K : before(k, o)}
        picks == {p \in UNION {[K -> DOMAIN rows] : K \in cuts} : \A k \in DOMAIN p : p[k] \in members(k)}
    IN  {SetToSeq({grouped(k, p[k]) : k \in DOMAIN p}) : p \in picks}

\* A row ClickHouse has grouped already: its key is its node.
geoMetaFromEdge(key, hint) ==
    LET country == IF key[1] = "city:country" /\ HasCenter(key[2]) THEN key[2] ELSE hint.country
        at == CASE Len(key) = 1 /\ key[1] \in DOMAIN ContinentCenters -> ContinentCenters[key[1]]
                [] key[1] = "city:country" /\ HasCenter(country) -> CountryCenters[country]
                [] OTHER -> hint.at
        center == at = NoPlace /\ HasCenter(hint.country)
    IN  IF isCollapsedMapKey(key)
        THEN [key |-> key, at |-> NoPlace, city |-> "", country |-> "", valid |-> FALSE]
        ELSE [key |-> key, at |-> IF center THEN CountryCenters[hint.country] ELSE at,
              city |-> hint.city, country |-> hint.country, valid |-> at # NoPlace \/ center]

\* rows are grouped rows: src and dst are keys.
BuildMapFromGeoEdges(rows) ==
    LET ms == [i \in 1 .. Len(rows) |-> [s |-> geoMetaFromEdge(rows[i].src, rows[i].srcHint),
                                         d |-> geoMetaFromEdge(rows[i].dst, rows[i].dstHint)]]
    IN  Drawn(EdgesOf(rows, ms)[Len(rows)], rows, ms)

-----------------------------------------------------------------------------
(* Addresses without a place *)

\* At ingest: what the index adds to what the parser read of an end.
enrichGeo(ip, h, enrichCountry) ==
    LET lk == Lookup[ip]
    IN  IF ~lk.found THEN h
        ELSE [at |-> IF h.at = NoPlace THEN lk.at ELSE h.at, city |-> IF h.city = "" THEN lk.city ELSE h.city,
              country |-> IF enrichCountry /\ ~UsableCountry(h.country) /\ UsableCountry(lk.country)
                          THEN lk.country ELSE h.country]

\* The addresses of the table of enriched addresses: an end of theirs lacks a place
\* or a country, and the index has one of the two.
EnrichLogsMissingGeo(logs) ==
    LET needs(h) == h.at = NoPlace \/ ~UsableCountry(h.country)
        missing == {logs[i].src : i \in {i \in DOMAIN logs : needs(logs[i].srcHint)}}
                   \cup {logs[i].dst : i \in {i \in DOMAIN logs : needs(logs[i].dstHint)}}
    IN  {ip \in missing : Lookup[ip].found /\ (Lookup[ip].at # NoPlace \/ UsableCountry(Lookup[ip].country))}

\* Addresses that as a source, or as a destination, have no place in any row.
UnplacedSources(logs) ==
    {logs[i].src : i \in {i \in DOMAIN logs :
        \A j \in DOMAIN logs : logs[j].src = logs[i].src => logs[j].srcHint.at = NoPlace}}

UnplacedDestinations(logs) ==
    {logs[i].dst : i \in {i \in DOMAIN logs :
        \A j \in DOMAIN logs : logs[j].dst = logs[i].dst => logs[j].dstHint.at = NoPlace}}

EventsAs(a, srcs, dsts, logs) ==
    FoldLeft(LAMBDA n, r : n + (IF a \in srcs /\ r.src = a THEN r.count ELSE 0)
                             + (IF a \in dsts /\ r.dst = a THEN r.count ELSE 0), 0, logs)

\* They are reported with the events of those sides.
ScanGeoMissingIPs(logs) ==
    LET srcs == UnplacedSources(logs)
        dsts == UnplacedDestinations(logs)
    IN  {[ip |-> a, count |-> EventsAs(a, srcs, dsts, logs)] : a \in srcs \cup dsts}

\* Without the addresses that the index places by now.
filterGeoMissingRows(rows) ==
    {r \in rows : ~(Lookup[r.ip].found /\ Lookup[r.ip].at # NoPlace)}

\* The limit comes before the filter.
ListMissing(logs, limit) ==
    LET rows == ScanGeoMissingIPs(logs)
        cut == IF Cardinality(rows) <= limit THEN {rows}
               ELSE {K \in SUBSET rows : Cardinality(K) = limit /\ \A k \in K, o \in rows \ K : k.count >= o.count}
    IN  {filterGeoMissingRows(K) : K \in cut}

-----------------------------------------------------------------------------
(* Reputation *)

hitsMatch(hits, cats, lists) == \E h \in hits : h.list \in lists \/ h.category \in cats

filterLinesByReputation(lines, cats, lists, side) ==
    LET src(l) == hitsMatch(Reputation[l.src[1]], cats, lists)
        dst(l) == hitsMatch(Reputation[l.dst[1]], cats, lists)
    IN  IF cats = {} /\ lists = {} THEN lines
        ELSE {l \in lines : CASE side = "src" -> src(l) [] side = "dst" -> dst(l)
                              [] side = "both" -> src(l) /\ dst(l) [] OTHER -> src(l) \/ dst(l)}

prunePoints(points, lines) ==
    [k \in DOMAIN points \cap EndsOf(lines) |-> points[k]]

\* The heaviest lines; lines of equal count are taken in any order.
trimLinesByCount(lines, limit) ==
    IF Cardinality(lines) <= limit THEN {lines}
    ELSE {S \in SUBSET lines : Cardinality(S) = limit /\ \A k \in S, o \in lines \ S : k.count >= o.count}

\* Only the map of addresses is filtered.
ByReputation(full, group, cats, lists, side, limit) ==
    LET kept == filterLinesByReputation(full.lines, cats, lists, side)
        filtered == prunePoints(full.points, kept)
    IN  IF group # "ip" \/ (cats = {} /\ lists = {}) THEN {full}
        ELSE {[lines |-> S, points |-> prunePoints(filtered, S)] : S \in trimLinesByCount(kept, limit)}

\* GetMap: the maps that may answer a scan, grouped by ClickHouse or by address.
GetMap(scan, group, nets, cats, lists, side, limit) ==
    ByReputation(IF group # "city_country" /\ scan.grouped THEN BuildMapFromGeoEdges(scan.rows)
                 ELSE buildMapFromIPRaws(scan.rows, group, nets), group, cats, lists, side, limit)

-----------------------------------------------------------------------------
(* Properties of a map *)

Total(lines, field) == SumFunctionOnSet([l \in lines |-> l[field]], lines)

\* Points are exactly the ends of lines, whichever row placed an address, whatever
\* the reputation filter and the limit dropped.
EndsArePoints(map) ==
    DOMAIN map.points = EndsOf(map.lines)

\* A point counts at least the events of its lines.
PointsCarryLines(map) ==
    \A k \in DOMAIN map.points :
        map.points[k].count >= Total({l \in map.lines : k \in {l.src, l.dst}}, "count")

\* Bytes and verdicts of the rows are all on some line; asked when every end has a
\* node, of the rows that a scan returned, and of the logs when its limit cut none.
NothingLost(map, rows) ==
    \A field \in {"bytes", "allowed", "blocked"} : Total(map.lines, field) = SumFunction(Column(rows, field))

AllPlaced(rows, group, nets) ==
    \A i \in DOMAIN rows : /\ resolveMeta(rows[i].src, group, rows[i].srcHint, nets).valid
                           /\ resolveMeta(rows[i].dst, group, rows[i].dstHint, nets).valid

AllPlacedGrouped(rows) ==
    \A i \in DOMAIN rows : /\ geoMetaFromEdge(rows[i].src, rows[i].srcHint).valid
                           /\ geoMetaFromEdge(rows[i].dst, rows[i].dstHint).valid

\* What the index and the logs know an address by.
NamesOf(ip, h) == {n \in {Lookup[ip].city, Lookup[ip].country, h.city, h.country} : Known(n)}

\* Two addresses with positions share a node only for something known that they
\* share, a network, a continent, or a city or country that both have and that is
\* the node's name: an arc between them is otherwise an invisible loop.  Asked of
\* the node of an address and of the key ClickHouse groups it under.
NeverMergedUnknown(a, b, group, ha, hb) ==
    LET named(key) == \E i \in DOMAIN key : key[i] \in NamesOf(a, ha) \cap NamesOf(b, hb)
        common(x, y) ==
            CASE group = "subnet" -> SubnetOf[a] = SubnetOf[b] /\ (SubnetOf[a] = "" => named(x.key))
              [] group = "continent" -> ContinentOf[x.country] = ContinentOf[y.country]
                                        /\ ContinentOf[x.country] # "unknown"
              [] OTHER -> named(x.key)
        apart(x, y) == x.valid /\ y.valid /\ x.at # NoPlace /\ y.at # NoPlace /\ x.key = y.key => common(x, y)
    IN  a # b =>
        /\ apart(resolveMeta(a, group, ha, {}), resolveMeta(b, group, hb, {}))
        /\ group # "city_country" =>
              apart(geoMetaFromEdge(geoGroupExprs(a, ha, group), ha),
                    geoMetaFromEdge(geoGroupExprs(b, hb, group), hb))

\* The report of addresses without GeoIP, when the scan is not cut, names every
\* address that keeps a row off the map of addresses, and none that the index places
\* or that has a place in all of its rows.
MissingNamed(logs, listed) ==
    LET names == {r.ip : r \in listed}
        off(a, hints) == \A h \in hints : ~IPGroupMetaHinted(a, "ip", h).valid
        srcHints(a) == {logs[i].srcHint : i \in {i \in DOMAIN logs : logs[i].src = a}}
        dstHints(a) == {logs[i].dstHint : i \in {i \in DOMAIN logs : logs[i].dst = a}}
    IN  /\ \A i \in DOMAIN logs : /\ off(logs[i].src, srcHints(logs[i].src)) => logs[i].src \in names
                                  /\ off(logs[i].dst, dstHints(logs[i].dst)) => logs[i].dst \in names
        /\ \A a \in names : /\ ~(Lookup[a].found /\ Lookup[a].at # NoPlace)
                            /\ \E h \in srcHints(a) \cup dstHints(a) : h.at = NoPlace
=============================================================================
