------------------------------ MODULE Requests ------------------------------
(***************************************************************************)
(* Requests to the events service: a period is answered from some table,   *)
(* a map is drawn from the rows of a scan, the addresses without GeoIP are *)
(* reported, two addresses are compared.  Requests about the GeoIP table:  *)
(* it is indexed and exported, a file is read, a range added or replaced.  *)
(* Each behaviour is one request and its answer; what requests bring is    *)
(* given by constants.                                                     *)
(***************************************************************************)
EXTENDS MapQuery, MapBuild, IPRanges

CONSTANTS
    Periods,    \* the periods that requests ask for
    MapPeriods, \* those of maps
    Wishes,     \* the numbers of lines that requests ask for
    Logs,       \* what the scanned tables hold: sequences of rows
    Hints,      \* what the logs say of an address
    Networks,   \* tables of enterprise networks
    Filters,    \* the categories a request filters by
    GeoTables,  \* GeoIP tables: sequences of ranges
    GeoFiles,   \* GeoIP files: sequences of rows
    EditPlaces  \* the countries and cities of edits

\* What parseDays, parseHours, parseMinutes and parseAbsolute return, and more.
TimeRanges ==
    [mode : {"minutes", "hours", "days"}, amount : Nat]
    \cup [mode : {"absolute"}, from : Int, to : Int]

\* Flows are counted once; allowed and blocked ones are some of them.
LogRows ==
    {r \in [src : Addresses, dst : Addresses, srcHint : Hints, dstHint : Hints, action : STRING,
            count : Nat \ {0}, allowed : Nat, blocked : Nat, bytes : Nat] : r.allowed + r.blocked <= r.count}

ASSUME RequestsAssumption ==
    /\ Periods \subseteq TimeRanges /\ MapPeriods \subseteq TimeRanges
    /\ Wishes \subseteq Int
    /\ \A kind \in {"heavy", "filtered", "medium", "light"} : Caps[kind] \in Nat
    /\ Logs \subseteq Seq(LogRows)
    /\ GeoTables \subseteq Seq(GeoRanges) /\ GeoFiles \subseteq Seq(FileRows)
    /\ EditPlaces \subseteq [country : STRING, city : STRING]

\* Addresses, networks and places have different names; the index calls no city
\* "unknown", and what is unknown is no usable country and on no continent.
Placeholders == {"", "unknown", "city:unknown", "city:country"}
AllNames == UNION {NamesOf(ip, h) : ip \in Addresses, h \in Hints}
ASSUME NamesAssumption ==
    /\ \A ip \in Addresses : /\ ip \notin AllNames \cup Placeholders /\ Lookup[ip].city # "unknown"
                             /\ SubnetOf[ip] \notin AllNames \cup Addresses \cup (Placeholders \ {""})
    /\ "city:country" \notin AllNames
    /\ Usable \cap {"", "unknown"} = {} /\ ContinentOf["unknown"] = "unknown"

\* ans answers req.
VARIABLES req, ans

Idle == [topic |-> "idle"]

AskWindow ==
    /\ req = Idle
    /\ \E tr \in Periods, group \in Groups, ready \in SUBSET {"edges", "geo", "hourly"},
          broken \in {{}, {"edges", "geo"}, {"hourly", "grouping"}, {"grouping"}} :
          /\ req' = [topic |-> "window", tr |-> tr, group |-> group]
          /\ ans' = ScanMapAggs(tr, group, ready, broken)

LimitOf(n, tr, group, rep) == EffectiveMapLimit(parseOptionalLimit(n), AssessMapQueryCost(tr, group, FALSE, rep))
Scanned(rows, limit, rep) == SubSeq(rows, 1, Min({Len(rows), scanLimit(limit, rep)}))

\* Pairs of addresses.
AskBuild ==
    /\ req = Idle
    /\ \E table \in Logs, group \in Groups, nets \in Networks, cats \in Filters, n \in Wishes, tr \in MapPeriods :
          LET limit == LimitOf(n, tr, group, cats # {})
              rows == Scanned(table, limit, cats # {})
          IN  /\ nets # {} => group = "city_country"
              /\ cats # {} => group = "ip"
              /\ req' = [topic |-> "build", rows |-> rows, limit |-> limit, rep |-> cats # {},
                         placed |-> AllPlaced(rows, group, nets)]
              /\ ans' \in GetMap([grouped |-> FALSE, rows |-> rows], group, nets, cats, {}, "any", limit)

\* Rows that ClickHouse groups.
AskGrouped ==
    /\ req = Idle
    /\ \E table \in Logs, group \in Groups \ {"city_country"}, enrich \in BOOLEAN,
          cats \in Filters, n \in Wishes, tr \in MapPeriods :
          LET limit == LimitOf(n, tr, group, cats # {})
              enriched == IF enrich THEN EnrichLogsMissingGeo(table) ELSE {}
          IN  /\ cats # {} => group = "ip"
              /\ \E rows \in scanGeoFromLogs(table, group, enriched, scanLimit(limit, cats # {})) :
                    /\ req' = [topic |-> "grouped", rows |-> rows, limit |-> limit, rep |-> cats # {},
                               placed |-> AllPlacedGrouped(rows), table |-> table,
                               whole |-> Len(rows) < scanLimit(limit, cats # {})]
                    /\ ans' \in GetMap([grouped |-> TRUE, rows |-> rows], group, {}, cats, {}, "any", limit)

\* The index may have been loaded after the rows were stored.
AskMissing ==
    /\ req = Idle
    /\ \E rows \in Logs, enrich \in {"none", "place", "country"}, limit \in {1, 4} :
          LET stored(row) ==
                  IF enrich = "none" THEN row
                  ELSE [row EXCEPT !.srcHint = enrichGeo(row.src, @, enrich = "country"),
                                   !.dstHint = enrichGeo(row.dst, @, enrich = "country")]
              table == [i \in DOMAIN rows |-> stored(rows[i])]
          IN  /\ req' = [topic |-> "missing", rows |-> table, cut |-> Cardinality(ScanGeoMissingIPs(table)) > limit]
              /\ ans' \in {[listed |-> l] : l \in ListMissing(table, limit)}

AskNodes ==
    /\ req = Idle
    /\ \E a, b \in Addresses, ha, hb \in Hints, group \in Groups :
          req' = [topic |-> "nodes", a |-> a, b |-> b, ha |-> ha, hb |-> hb, group |-> group]
    /\ ans' = Idle

AskMap == AskBuild \/ AskGrouped \/ AskMissing \/ AskNodes

\* A table as it may be stored, by whatever wrote it.
AskTable ==
    /\ req = Idle
    /\ \E table \in GeoTables : req' = [topic |-> "table", ranges |-> table]
    /\ ans' = Idle

AskFile ==
    /\ req = Idle
    /\ \E rows \in GeoFiles : req' = [topic |-> "file", rows |-> rows] /\ ans' \in ReadCSVSnapshot(rows)

\* Edits find the table as files and edits leave it.
AskAppend ==
    /\ req = Idle
    /\ \E existing \in GeoTables, text \in Texts, at \in EditPlaces :
          /\ InOrder(existing)
          /\ req' = [topic |-> "append", existing |-> existing, added |-> AddedBy(text, at.country, at.city)]
          /\ ans' \in AppendRange(existing, text, at.country, at.city)

AskUpdate ==
    /\ req = Idle
    /\ \E existing \in GeoTables, original, text \in Texts, at \in EditPlaces :
          /\ InOrder(existing)
          /\ req' = [topic |-> "update", existing |-> existing, added |-> AddedBy(text, at.country, at.city),
                     removed |-> ReplacedBy(existing, original)]
          /\ ans' \in UpdateRange(existing, original, text, at.country, at.city)

AskRanges == AskTable \/ AskFile \/ AskAppend \/ AskUpdate

RequestInit == req = Idle /\ ans = Idle
RequestNext == AskWindow \/ AskMap \/ AskRanges
RequestSpec == RequestInit /\ [][RequestNext]_<<req, ans>>

-----------------------------------------------------------------------------
\* ScanMapAggs: WithinABucket of every period, group and set of tables that are
\* ready or fail.
PeriodAnswered == req.topic = "window" => WithinABucket(req.tr, ans)

\* ScanGeoEdgesForTimeRange of some hours: ShortPeriodsFromLogs of every period.
ShortPeriodsExact == req.topic = "window" => ShortPeriodsFromLogs(req.tr, ans)

\* GetMap: of every map EndsArePoints and PointsCarryLines; when all its rows have
\* nodes and reputation filters nothing, NothingLost of the rows that its scan
\* returned, and of all the logs in the period when they are grouped and are fewer
\* groups than the limit of the scan; no more lines than the limit of the request when
\* reputation filters.  What a scan at its limit left out is not on the map.
MapSound ==
    req.topic \in {"build", "grouped"} =>
       /\ EndsArePoints(ans) /\ PointsCarryLines(ans)
       /\ req.placed /\ ~req.rep => /\ NothingLost(ans, req.rows)
                                    /\ req.topic = "grouped" /\ req.whole => NothingLost(ans, req.table)
       /\ req.rep => Cardinality(ans.lines) <= req.limit

\* geo.ListMissing: MissingNamed of every report that its limit did not cut.
ReportWhole == req.topic = "missing" /\ ~req.cut => MissingNamed(req.rows, ans.listed)

\* mapagg: NeverMergedUnknown of every pair of addresses.
NodesApart == req.topic = "nodes" => NeverMergedUnknown(req.a, req.b, req.group, req.ha, req.hb)

\* GetMap and geo.ListMissing: every map, every report and every pair of addresses.
MapWhole == MapSound /\ ReportWhole /\ NodesApart

\* Table.Rebuild, ReadCSVSnapshot, AppendRange and UpdateRange: IndexExact, PagesExact
\* and ExportReadBack of every table, FileExact of every file and EditExact of every
\* edit; an update that names no range is refused.
RangesExact ==
    /\ req.topic = "table" => IndexExact(req.ranges) /\ PagesExact(req.ranges) /\ ExportReadBack(req.ranges)
    /\ req.topic = "file" => FileExact(req.rows, ans)
    /\ req.topic = "append" => EditExact(req.existing, ans, req.added, {})
    /\ req.topic = "update" => EditExact(req.existing, ans, req.added, req.removed) /\ (ans.ok => req.removed # {})
=============================================================================
