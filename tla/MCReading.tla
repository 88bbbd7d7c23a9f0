----------------------------- MODULE MCReading -----------------------------
(***************************************************************************)
(* What the map is read from and how it is read.                           *)
(* The aggregate tables from start-up on: two rows of an earlier day and   *)
(* one that arrives, two hours a day, one midnight, one failure.           *)
(* Map requests: the period and the table that answers it, the search      *)
(* string and the rows it keeps, the rows of a scan and the map drawn from *)
(* them.  An hour has three ticks and a day four hours; a request comes in *)
(* the middle of an hour of the fourth day.                                *)
(* Ranges: four addresses, tables and lists of three ranges, files of two  *)
(* rows, edits of these tables.                                           *)
(***************************************************************************)
EXTENDS Aggregates, Requests, MapSearch, SnapshotFile

CONSTANTS Topics

\* The tables move, or requests are answered.
VARIABLE topic

readVars == <<aggVars, topic, req, ans>>

MCFirstDays == {<< <<1, 0>>, <<1, 1>> >>}

\* Past an overlap of start-up and maintenance nothing is claimed.  An empty volume
\* gets two rows.
Apart ==
    /\ spoilt # AllDays
    /\ Len(born) = MaxLogs => SubSeq(born, 1, 2) \in FirstDays

-----------------------------------------------------------------------------
(* Periods *)

MCCaps == [heavy |-> 1, filtered |-> 2, medium |-> 3, light |-> 50]

MCPeriods ==
    {parseMinutes(n) : n \in 0 .. 8} \cup {parseHours(n) : n \in 1 .. 17} \cup {parseDays(n) : n \in 0 .. 5}
    \cup {parseAbsolute(a, b) : a, b \in {x \in Ticks : x % 2 = 0}}
MCMapPeriods == {parseDays(1)}

-----------------------------------------------------------------------------
(* Searches *)

MCAliases == [w \in {"ip", "country", "city", "action", "src", "device", "all", "text"} |->
                IF w = "text" THEN "all" ELSE w]
MCNeedles == [w \in {"ru"} |-> {"RU", "Russia"}]

MCRows ==
    {[src_ip |-> <<"a">>, dst_ip |-> <<"b">>, src_country |-> <<c>>, dst_country |-> <<d>>,
      dst_city |-> <<"New", "York">>, action |-> <<act>>, last_action |-> <<act>>,
      src_key |-> <<"a">>, dst_key |-> <<d>>, src_label |-> <<"a">>] :
        c \in {"RU", "Russia", "US"}, d \in {"US", "RU"}, act \in {"deny", "allow"}}

Terms == {Term("ip", "contains", <<"a">>), Term("country", "eq", <<"ru">>), Term("country", "ne", <<"ru">>),
          Term("city", "ne", <<"York">>), Term("all", "contains", <<"New", "York">>),
          Term("action", "eq", <<"deny">>), Term("device", "contains", <<"">>)}
Core == {Term("country", "ne", <<"ru">>), Term("all", "contains", <<"New", "York">>),
         Term("device", "contains", <<"">>)}
Over(S) == S \cup {Not(t) : t \in S} \cup {And(t, u) : t, u \in S} \cup {Or(t, u) : t, u \in S}
Trees == Over(Terms) \cup Over(Over(Core))

AskSearch ==
    /\ req = Idle
    /\ \E n \in Trees :
          /\ req' = [topic |-> "search", tree |-> n]
          /\ ans' = LogsWhere(<<>>, Written(n, 1), LogsMapSearchColumns)

-----------------------------------------------------------------------------
(* Maps: an address with a city, one with a position alone, one the index does *)
(* not know and one it knows without a position.                               *)

Lk(n, found, at, city, country) ==
    [number |-> n, found |-> found, at |-> at, city |-> city, country |-> country]
MCLookup == [a |-> Lk(1, TRUE, "p1", "Kazan", "Russia"), b |-> Lk(2, TRUE, "p2", "", ""),
             c |-> Lk(3, FALSE, "none", "", "unknown"), d |-> Lk(4, TRUE, "p4", "", "unknown")]
MCSubnetOf == [a |-> "n1", b |-> "n1", c |-> "n2", d |-> ""]
MCCountryCenters == [Russia |-> "center", RU |-> "center"]
MCContinentOf == [Russia |-> "Europe", unknown |-> "unknown", RU |-> "unknown", Atlantis |-> "unknown"]
                 @@ ("" :> "unknown")
MCContinentCenters == [Europe |-> "europe", unknown |-> "none"]
MCReputation == [a |-> {[list |-> "l1", category |-> "tor"]}, b |-> {}, c |-> {[list |-> "l2", category |-> "scan"]},
                 d |-> {}]

Hinted == Hint("q", "", "Atlantis")
MCHints == {Hint("none", "", ""), Hint("q", "", ""), Hint("none", "", "RU"), Hint("q", "Omsk", "Atlantis"), Hinted}
MCNetworks == {{}, {[start |-> 1, end |-> 4, city |-> "HQ", country |-> "Russia"],
                    [start |-> 2, end |-> 2, city |-> "", country |-> ""]}}
MCFilters == {{}, {"tor"}}
LogRow(s, d, hs, hd, v) ==
    [src |-> s, dst |-> d, srcHint |-> hs, dstHint |-> hd, count |-> v.n, allowed |-> v.a, blocked |-> v.b,
     bytes |-> 5, action |-> v.act]
Verdicts == {[n |-> 3, a |-> 2, b |-> 1, act |-> "deny"], [n |-> 1, a |-> 0, b |-> 0, act |-> "other"]}
RawRows == {LogRow(s, d, hs, hd, v) : s \in {"a", "b", "c"}, d \in {"b", "c"}, hs \in MCHints \ {Hinted},
                                      hd \in {Hint("none", "", ""), Hinted}, v \in Verdicts}

\* Two rows with an end in common, the second allowed in part.
MCLogs ==
    UNION {{<<r, s>> : s \in {s \in RawRows : s.allowed > 0 /\ {s.src, s.dst} \cap {r.src, r.dst} # {}}} : r \in RawRows}

-----------------------------------------------------------------------------
(* Ranges *)

Named(i, start, end) == [start |-> start, end |-> end, country |-> <<"x", "y", "x">>[i], city |-> <<"u", "u", "v">>[i]]
FileRow(net, country, ok) == [net |-> net, country |-> country, city |-> "u", coords |-> ok]
Proper == {r \in [start : Addr, end : Addr] : r.start <= r.end}
Listed(r, list) == [start |-> r.start, end |-> r.end, list |-> list, category |-> "scan"]

MCTables ==
    UNION {{[i \in 1 .. n |-> Named(i, starts[i], ends[i])] : starts, ends \in [1 .. n -> Addr]} : n \in 0 .. 3}
MCFiles == {<<FileRow(t, "x", ok), FileRow(u, "y", TRUE)>> : t, u \in Texts, ok \in BOOLEAN}
MCEditPlaces == {[country |-> c, city |-> "v"] : c \in {"x", ""}}

AskLists ==
    /\ req = Idle
    /\ \E a, b, c \in Proper, other \in {"l1", "l2"} :
        LET file == <<Listed(a, "l1"), Listed(b, "l1"), Listed(c, other)>>
            rows == [i \in 1 .. 3 |-> [net |-> FromTo(file[i].end, file[i].start), list |-> file[i].list,
                                       category |-> file[i].category]]
        IN  /\ req' = [topic |-> "lists", ranges |-> file]
            /\ ans' = [index |-> RepReadCSV(rows)]

AskReplaced ==
    /\ req = Idle
    /\ \E a, b, c \in Proper, keep \in BOOLEAN :
        LET index == RepNormalizeRanges(<<Listed(a, "l1"), Listed(b, "l2")>>)
            new == <<Listed(c, "l2")>>
        IN  /\ req' = [topic |-> "lists", ranges |-> <<Listed(a, "l1")>> \o IF keep THEN new ELSE <<>>]
            /\ ans' = [index |-> IF keep THEN RepReplaceList(index, "l2", new) ELSE RepDeleteList(index, "l2")]

Asked ==
    /\ \/ topic = "window" /\ AskWindow
       \/ topic = "search" /\ AskSearch
       \/ topic = "build" /\ AskMap
       \/ topic = "ranges" /\ (AskRanges \/ AskLists \/ AskReplaced)
    /\ UNCHANGED <<aggVars, topic>>

TablesMove == topic = "tables" /\ AggStep /\ UNCHANGED <<topic, req, ans>>

\* Requests find the tables as the first history leaves them.
ReadInit ==
    /\ topic \in Topics
    /\ RequestInit /\ AggInit
    /\ topic # "tables" => born = <<>> /\ current = {}

ReadNext == TablesMove \/ Asked

ReadSpec == ReadInit /\ [][ReadNext]_readVars

-----------------------------------------------------------------------------
\* ParsedAsWritten and SearchExact of every search tree, SnapshotReadBack of every
\* table, ListsExact of every list.
FormatsAndListsExact ==
    /\ req.topic = "search" => ParsedAsWritten(req.tree) /\ SearchExact(req.tree)
    /\ req.topic = "table" => SnapshotReadBack(req.ranges)
    /\ req.topic = "lists" => ListsExact(req.ranges, ans.index)
=============================================================================
