------------------------------ MODULE IPRanges ------------------------------
(***************************************************************************)
(* Ranges of addresses: the GeoIP table, read from a file, edited by hand  *)
(* and compacted into the index that places an address (geoip, edits of    *)
(* usecase/geo), and the reputation lists, merged into the index that      *)
(* names an address's lists (reputation).                                  *)
(* An address is a number of Width bits.  A network in a text is an        *)
(* address, a prefix, two addresses or something else.                     *)
(***************************************************************************)
EXTENDS Naturals, Sequences, FiniteSets, SequencesExt

CONSTANTS
    Width,      \* 32: the bits of an address
    NonPublic   \* addresses that are on no list whatever the lists say

\* The addresses that n bits tell apart.
Power == LET p[n \in 0 .. Width] == IF n = 0 THEN 1 ELSE 2 * p[n - 1] IN p
Space == Power[Width]

ASSUME WidthAssumption == Width \in Nat \ {0} /\ NonPublic \subseteq 0 .. Space - 1

Addr == 0 .. Space - 1
Covers(r, ip) == r.start <= ip /\ ip <= r.end

-----------------------------------------------------------------------------
(* Networks as texts *)

Single(ip) == [kind |-> "ip", ip |-> ip]
Prefix(ip, len) == [kind |-> "cidr", ip |-> ip, len |-> len]
FromTo(a, b) == [kind |-> "range", a |-> a, b |-> b]
Unreadable == [kind |-> "other"]
Texts == {Single(a) : a \in Addr} \cup {Prefix(a, len) : a \in Addr, len \in 0 .. Width}
         \cup {FromTo(a, b) : a, b \in Addr} \cup {Unreadable}

Network(start, end) == [ok |-> TRUE, start |-> start, end |-> end]

\* A prefix is cut to its length and two addresses are put in order.
ParseNetworkField(text) ==
    CASE text.kind = "ip" -> Network(text.ip, text.ip)
      [] text.kind = "cidr" ->
           LET size == Power[Width - text.len]
               start == (text.ip \div size) * size
           IN  Network(start, start + size - 1)
      [] text.kind = "range" ->
           IF text.a > text.b THEN Network(text.b, text.a) ELSE Network(text.a, text.b)
      [] OTHER -> [ok |-> FALSE]

FormatNetwork(start, end) == IF start = end THEN Single(start) ELSE FromTo(start, end)

\* The number of addresses wraps: the whole space has none.
exactPrefixLen(start, end) ==
    LET span == (end - start + 1) % Space
    IN  {len \in 1 .. Width : span = Power[Width - len] /\ start % span = 0}

FormatNetworkPreferCIDR(start, end) ==
    LET lens == exactPrefixLen(start, end)
    IN  IF start = end THEN Single(start)
        ELSE IF lens # {} THEN Prefix(start, CHOOSE len \in lens : TRUE)
        ELSE FormatNetwork(start, end)

-----------------------------------------------------------------------------
(* The GeoIP table and its index.  A range is [start, end, country, city]. *)

GeoRanges == [start : Nat, end : Nat, country : STRING, city : STRING]

\* Ranges that are not empty, apart from each other and in order: what the table holds
\* after every file and every edit that is accepted.
InOrder(ranges) ==
    /\ \A i \in DOMAIN ranges : ranges[i].start <= ranges[i].end
    /\ \A i, j \in DOMAIN ranges : i < j => ranges[i].end < ranges[j].start

Before(a, b) == a.start < b.start \/ (a.start = b.start /\ a.end < b.end)

\* sort.Slice: the ranges at some places, in order; ranges with the same ends come in
\* any order.
Sorted(ranges) ==
    {[i \in 1 .. Cardinality(DOMAIN ranges) |-> ranges[p[i]]] :
        p \in {q \in [1 .. Cardinality(DOMAIN ranges) -> DOMAIN ranges] :
                 /\ \A i, j \in DOMAIN q : i # j => q[i] # q[j]
                 /\ \A i, j \in DOMAIN q : i < j => ~Before(ranges[q[j]], ranges[q[i]])}}

\* What NormalizeRanges and AddRange do with the next range: one that is empty or
\* meets the last one kept is left out.
Fits(kept, r) == r.start <= r.end /\ (kept = <<>> \/ r.start > Last(kept).end)
Keep(kept, r) == IF Fits(kept, r) THEN Append(kept, r) ELSE kept

\* What is kept of the first i ranges.
KeptOf(sorted) ==
    LET kept[i \in 0 .. Len(sorted)] == IF i = 0 THEN <<>> ELSE Keep(kept[i - 1], sorted[i]) IN kept

NormalizeRanges(sorted) == KeptOf(sorted)[Len(sorted)]

CheckNonOverlapping(sorted) ==
    \A i \in 2 .. Len(sorted) : sorted[i].start <= sorted[i].end /\ sorted[i].start > sorted[i - 1].end

\* dictionaryBuilder: a name is stored once and replaced by its place.
WithName(names, v) == IF Contains(names, v) THEN names ELSE Append(names, v)
ID(names, v) == CHOOSE i \in DOMAIN names : names[i] = v

EmptySnapshot == [rows |-> <<>>, countries |-> <<>>, cities |-> <<>>]

\* CompactBuilder
AddRange(b, r) ==
    IF ~Fits(b.rows, r) THEN b
    ELSE LET countries == WithName(b.countries, r.country)
             cities == WithName(b.cities, r.city)
         IN  [rows |-> Append(b.rows, [start |-> r.start, end |-> r.end, country |-> ID(countries, r.country),
                                       city |-> ID(cities, r.city)]),
              countries |-> countries, cities |-> cities]

\* The snapshot of the first i ranges.
BuiltOf(sorted) ==
    LET built[i \in 0 .. Len(sorted)] == IF i = 0 THEN EmptySnapshot ELSE AddRange(built[i - 1], sorted[i])
    IN  built

buildGeoSnapshot(sorted) == BuiltOf(sorted)[Len(sorted)]

\* The names of the first i ranges.
NamesIn(column) ==
    LET names[i \in 0 .. Len(column)] == IF i = 0 THEN <<>> ELSE WithName(names[i - 1], column[i]) IN names

\* Ranges that are known to be in order and apart become rows one to one.
buildSnapshot(ranges) ==
    LET countries == NamesIn([i \in DOMAIN ranges |-> ranges[i].country])[Len(ranges)]
        cities == NamesIn([i \in DOMAIN ranges |-> ranges[i].city])[Len(ranges)]
    IN  [rows |-> [i \in DOMAIN ranges |-> [start |-> ranges[i].start, end |-> ranges[i].end,
                                            country |-> ID(countries, ranges[i].country),
                                            city |-> ID(cities, ranges[i].city)]],
         countries |-> countries, cities |-> cities]

toGeoRange(snap, row) ==
    [start |-> row.start, end |-> row.end, country |-> snap.countries[row.country], city |-> snap.cities[row.city]]

\* sort.Search: the first of n places in S, which with a place holds those behind it.
\* Each round halves the places between low and high; n rounds are enough.
Halved(b, S) ==
    LET h == (b.low + b.high) \div 2
    IN  IF b.low >= b.high THEN b
        ELSE IF h + 1 \in S THEN [b EXCEPT !.high = h] ELSE [b EXCEPT !.low = h + 1]

Rounds(n, S) ==
    LET round[k \in 0 .. n] == IF k = 0 THEN [low |-> 0, high |-> n] ELSE Halved(round[k - 1], S) IN round

\* How many places are before it.
Search(n, S) == Rounds(n, S)[n].low

\* Mutant: the last address of a range is not in it.
findContainingRowOpen(rows, ip) ==
    LET pos == Search(Len(rows), {k \in DOMAIN rows : rows[k].start > ip})
    IN  IF pos > 0 /\ rows[pos].start <= ip /\ ip < rows[pos].end THEN {rows[pos]} ELSE {}

\* The last row that starts at the address or before, if it reaches it.
findContainingRow(rows, ip) ==
    LET pos == Search(Len(rows), {k \in DOMAIN rows : rows[k].start > ip})
    IN  IF pos > 0 /\ Covers(rows[pos], ip) THEN {rows[pos]} ELSE {}

\* What the map and ingest ask: the place of an address, or none.
IndexLookup(snap, ip) ==
    {[country |-> snap.countries[row.country], city |-> snap.cities[row.city]] : row \in findContainingRow(snap.rows, ip)}

LookupRange(snap, ip) == {toGeoRange(snap, row) : row \in findContainingRow(snap.rows, ip)}

\* The same question asked of the table.
FindGeoRangeByIP(ranges, ip) ==
    LET over == {r \in Range(ranges) : Covers(r, ip)}
    IN  {r \in over : \A o \in over : o.start <= r.start}

-----------------------------------------------------------------------------
(* Pages of ranges, from the index or, when it is empty, from the table.  A    *)
(* query is blank, a name, an address or a network "a-b".                      *)

rangeMatchesQuery(g, q) ==
    CASE q.kind = "blank" -> TRUE
      [] q.kind = "name"  -> q.name \in {g.country, g.city}
      [] q.kind = "ip"    -> q.ip \in {g.start, g.end}
      [] OTHER            -> q = FormatNetwork(g.start, g.end)

Page(found, limit, total) ==
    [items |-> SubSeq(found, 1, IF Len(found) < limit THEN Len(found) ELSE limit),
     total |-> total, filtered |-> Len(found), truncated |-> Len(found) > limit]

\* Those of the ranges that are at some places, in order: of the first i, of all.
PickedOf(ranges, places) ==
    LET picked[i \in 0 .. Len(ranges)] ==
            IF i = 0 THEN <<>> ELSE IF i \in places THEN Append(picked[i - 1], ranges[i]) ELSE picked[i - 1]
    IN  picked

Picked(ranges, places) == PickedOf(ranges, places)[Len(ranges)]

CollectRanges(snap, limit, q) ==
    LET all == [i \in DOMAIN snap.rows |-> toGeoRange(snap, snap.rows[i])]
    IN  Page(Picked(all, {i \in DOMAIN all : rangeMatchesQuery(all[i], q)}), limit, Len(all))

\* ClickHouse looks for the query in either end and never finds a network.
queryFinds(g, q) ==
    CASE q.kind = "blank" -> TRUE
      [] q.kind = "name"  -> q.name = g.country \/ q.name = g.city
      [] q.kind = "ip"    -> q.ip = g.start \/ q.ip = g.end
      [] OTHER            -> FALSE

ListGeoRangesPage(sorted, limit, q) ==
    Page(Picked(sorted, {i \in DOMAIN sorted : queryFinds(sorted[i], q)}), limit, Len(sorted))

ListRanges(snap, sorted, limit, q) ==
    IF snap.rows # <<>> THEN CollectRanges(snap, limit, q) ELSE ListGeoRangesPage(sorted, limit, q)

-----------------------------------------------------------------------------
(* Files and edits.  A row of a file is [net, country, city, coords]: coords   *)
(* says whether its position can be read.                                      *)

FileRows == [net : Texts, country : STRING, city : STRING, coords : BOOLEAN]

Entry(net, country, city) == [start |-> net.start, end |-> net.end, country |-> country, city |-> city]

parseCSVRow(row) ==
    LET net == ParseNetworkField(row.net)
    IN  IF net.ok /\ row.coords THEN <<Entry(net, row.country, row.city)>> ELSE <<>>

\* A file with an overlap, or without a row that can be read, is refused.
ReadCSVSnapshot(rows) ==
    LET read == {i \in DOMAIN rows : parseCSVRow(rows[i]) # <<>>}
    IN  {IF read # {} /\ CheckNonOverlapping(sorted)
         THEN [ok |-> TRUE, ranges |-> sorted, built |-> buildGeoSnapshot(sorted)]
         ELSE [ok |-> FALSE] : sorted \in Sorted([i \in read |-> Head(parseCSVRow(rows[i]))])}

WriteCSV(ranges) ==
    [i \in DOMAIN ranges |-> [net |-> FormatNetwork(ranges[i].start, ranges[i].end), country |-> ranges[i].country,
                              city |-> ranges[i].city, coords |-> TRUE]]

ParseRangeEntry(text, country, city) ==
    LET net == ParseNetworkField(text)
    IN  IF net.ok /\ country # "" /\ city # "" THEN <<Entry(net, country, city)>> ELSE <<>>

\* The table and the index after an edit, or a refusal.
persistRanges(merged) ==
    {IF ~CheckNonOverlapping(sorted) THEN [ok |-> FALSE]
     ELSE LET clean == NormalizeRanges(sorted)
          IN  [ok |-> clean # <<>>, ranges |-> clean, built |-> buildSnapshot(clean)] : sorted \in Sorted(merged)}

AppendRange(existing, text, country, city) ==
    LET entry == ParseRangeEntry(text, country, city)
    IN  IF entry = <<>> THEN {[ok |-> FALSE]} ELSE persistRanges(existing \o entry)

UpdateRange(existing, original, text, country, city) ==
    LET orig == ParseNetworkField(original)
        entry == ParseRangeEntry(text, country, city)
        kept == {i \in DOMAIN existing : existing[i].start # orig.start \/ existing[i].end # orig.end}
        merged == existing \o entry
    IN  IF ~orig.ok \/ entry = <<>> \/ kept = DOMAIN existing THEN {[ok |-> FALSE]}
        ELSE persistRanges([i \in kept \cup {Len(merged)} |-> merged[i]])

ExportCSV(ranges) == {WriteCSV(NormalizeRanges(sorted)) : sorted \in Sorted(ranges)}

-----------------------------------------------------------------------------
(* Reputation lists.  A range is [start, end, list, category]. *)

\* The next range of one list and category, in order, joins the last one when it
\* meets or touches it; after the last address the sum wraps.
MergeRange(merged, n) ==
    IF merged # <<>> /\ n.start <= (Last(merged).end + 1) % Space
    THEN [merged EXCEPT ![Len(merged)].end = IF n.end > @ THEN n.end ELSE @]
    ELSE Append(merged, n)

\* Lists are merged one by one; the result is ordered by its ends.
RepNormalizeRanges(ranges) ==
    LET usable == SelectSeq(ranges, LAMBDA r : r.list # "" /\ r.start <= r.end)
        groups == SetToSeq({<<usable[i].list, usable[i].category>> : i \in DOMAIN usable})
        group(k) == SelectSeq(usable, LAMBDA r : <<r.list, r.category>> = k)
        merged(k) == FoldLeft(MergeRange, <<>>, SortSeq(group(k), Before))
    IN  SortSeq(FlattenSeq([i \in DOMAIN groups |-> merged(groups[i])]), Before)

\* A row of a file is [net, list, category]; one without a name is left out.
RepReadCSV(rows) ==
    LET row(r) == LET net == ParseNetworkField(r.net)
                  IN  IF net.ok /\ r.list # "" /\ r.category # ""
                      THEN <<[start |-> net.start, end |-> net.end, list |-> r.list, category |-> r.category]>>
                      ELSE <<>>
    IN  RepNormalizeRanges(FlattenSeq([i \in DOMAIN rows |-> row(rows[i])]))

RepReplaceList(ranges, list, new) ==
    RepNormalizeRanges(SelectSeq(ranges, LAMBDA r : r.list # list)
                       \o [i \in DOMAIN new |-> [new[i] EXCEPT !.list = list]])

RepDeleteList(ranges, list) == SelectSeq(ranges, LAMBDA r : r.list # list)

\* Of two networks of a list around the address the smaller one is named.
RepLookup(ranges, ip) ==
    LET pos == Search(Len(ranges), {k \in DOMAIN ranges : ranges[k].start > ip})
        around == {ranges[k] : k \in {k \in 1 .. pos : ip <= ranges[k].end}}
        size(r) == r.end - r.start
        narrowest(r) == \A o \in around : o.list = r.list /\ o.category = r.category => size(r) <= size(o)
    IN  IF ip \in NonPublic THEN {}
        ELSE {[list |-> r.list, category |-> r.category, network |-> FormatNetworkPreferCIDR(r.start, r.end)] :
                r \in {r \in around : narrowest(r)}}

-----------------------------------------------------------------------------
(* Properties *)

\* The index built row by row, the index built from normalised ranges and, when the
\* ranges are apart, the table give the same answer for every address; a range is
\* left out only when it is empty or meets one that is kept.
IndexExact(ranges) ==
    \A sorted \in Sorted(ranges) :
        LET kept == NormalizeRanges(sorted)
            built == buildGeoSnapshot(sorted)
        IN  /\ \A ip \in Addr : LET answer == {r \in Range(kept) : Covers(r, ip)}
                                IN  /\ LookupRange(built, ip) = answer
                                    /\ IndexLookup(built, ip) = {[country |-> r.country, city |-> r.city] : r \in answer}
                                    /\ LookupRange(buildSnapshot(kept), ip) = answer
                                    /\ CheckNonOverlapping(sorted) /\ Len(kept) = Len(sorted)
                                          => FindGeoRangeByIP(sorted, ip) = answer
            /\ \A r \in Range(sorted) \ Range(kept) :
                   r.start > r.end \/ \E k \in Range(kept) : r.start <= k.end /\ k.start <= r.end

\* A page of the index is the page of the table it was built from, for every query
\* but a network, and says that it is cut exactly when a range is missing from it.
PagesExact(ranges) ==
    \A sorted \in Sorted(ranges), limit \in 1 .. 2 :
        LET built == buildGeoSnapshot(sorted)
            queries == {[kind |-> "blank"]} \cup {[kind |-> "name", name |-> r.city] : r \in Range(ranges)}
                       \cup {Single(ip) : ip \in Addr}
        IN  CheckNonOverlapping(sorted) /\ Len(built.rows) = Len(sorted) =>
              \A q \in queries :
                  LET page == ListRanges(built, sorted, limit, q)
                  IN  /\ page = ListRanges(EmptySnapshot, sorted, limit, q)
                      /\ page.truncated <=> \E r \in Range(sorted) : rangeMatchesQuery(r, q) /\ r \notin Range(page.items)

\* A text read without the code's help: the addresses it names.
Names(text, ip) ==
    CASE text.kind = "ip"    -> ip = text.ip
      [] text.kind = "cidr"  -> ip \div Power[Width - text.len] = text.ip \div Power[Width - text.len]
      [] text.kind = "range" -> (text.a <= ip /\ ip <= text.b) \/ (text.b <= ip /\ ip <= text.a)
      [] OTHER -> FALSE

\* A file that is accepted places every address a row of it names where that row
\* says, in a table that is in order; one with an address that two rows name is refused.
FileExact(rows, read) ==
    LET good == {i \in DOMAIN rows : rows[i].coords}
        naming(ip) == {i \in good : Names(rows[i].net, ip)}
    IN  /\ (\E ip \in Addr : Cardinality(naming(ip)) > 1) => ~read.ok
        /\ read.ok => InOrder(read.ranges)
        /\ read.ok => \A ip \in Addr :
              {<<r.country, r.city>> : r \in LookupRange(read.built, ip)} = {<<rows[i].country, rows[i].city>> : i \in naming(ip)}

\* What is exported can be read again: the same ranges, in the same index.
ExportReadBack(ranges) ==
    \A rows \in ExportCSV(ranges) :
        rows # <<>> => \A read \in ReadCSVSnapshot(rows) :
            read.ok /\ WriteCSV(read.ranges) = rows /\ read.built = buildSnapshot(read.ranges)

\* The range an edit says, and the one an update names by its ends.
AddedBy(text, country, city) == Range(ParseRangeEntry(text, country, city))

ReplacedBy(existing, original) ==
    LET orig == ParseNetworkField(original)
    IN  {r \in Range(existing) : orig.ok /\ r.start = orig.start /\ r.end = orig.end}

\* After an edit that is accepted the addresses of the range that is added have its
\* place, and the others the place they had, those of the range that is removed none:
\* in the table as in the index.  The table is in order again.
EditExact(existing, result, added, removed) ==
    result.ok =>
        /\ added # {} /\ InOrder(result.ranges)
        /\ \A ip \in Addr :
              LET answer == LookupRange(result.built, ip)
                  new == {r \in added : Covers(r, ip)}
              IN  /\ FindGeoRangeByIP(result.ranges, ip) = answer
                  /\ answer = IF new # {} THEN new ELSE FindGeoRangeByIP(existing, ip) \ removed

\* An address is on exactly the lists that hold a range around it, the last address
\* included; the network named for it is around it and on that list.
ListsExact(ranges, index) ==
    \A ip \in Addr \ NonPublic :
        LET hits == RepLookup(index, ip)
            on(l, c) == {r \in Range(ranges) : r.list = l /\ r.category = c}
        IN  /\ {<<h.list, h.category>> : h \in hits}
                 = {<<r.list, r.category>> : r \in {r \in Range(ranges) : r.list # "" /\ Covers(r, ip)}}
            /\ \A h \in hits : LET net == ParseNetworkField(h.network)
                               IN  /\ Covers(net, ip)
                                   /\ \A x \in net.start .. net.end : \E r \in on(h.list, h.category) : Covers(r, x)
            /\ Cardinality(hits) = Cardinality({<<h.list, h.category>> : h \in hits})
=============================================================================
