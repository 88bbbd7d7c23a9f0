----------------------------- MODULE Aggregates -----------------------------
(***************************************************************************)
(* The aggregate tables of the map and how start-up keeps them (migrate,   *)
(* aggstate, usecase/bootstrap): schema versions, tables and views that    *)
(* are rebuilt behind an EXCHANGE, the backfill of closed days hour by     *)
(* hour, and the readiness flags the map queries obey.  Ingest inserts     *)
(* rows meanwhile, the maintenance job of geojob backfills too, statements *)
(* fail and the process restarts.  The three geo tables are one here.      *)
(***************************************************************************)
EXTENDS Integers, FiniteSets, FiniteSetsExt, Sequences, TLC

CONSTANTS
    Hours,          \* the hours of a day
    FirstDays,      \* the histories: sequences of <<day, hour>> of the rows
    FirstToday, LastDay, MaxLogs,   \* bounds
    HourlyLookback, \* 7: the days the hourly table looks back
    MayLag,         \* rows of the day before may still arrive
    AggFaults       \* bound: failures and restarts

\* The rows of the histories came on days before this version was started, or
\* on the day it was.
ASSUME AggAssumption ==
    /\ Hours \subseteq Nat /\ Hours # {}
    /\ FirstToday \in Nat \ {0} /\ LastDay \in Nat /\ FirstToday <= LastDay
    /\ FirstDays \subseteq Seq((1 .. FirstToday) \X Hours)
    /\ HourlyLookback \in Nat /\ AggFaults \in Nat

Tables == {"edges", "geo", "hourly"}
Components == Tables \cup {"logs"}
Procs == {"boot", "maint"}

VARIABLES
    today,
    born,       \* day and hour of every row ever inserted
    logs,       \* the rows in traffic_logs
    copy,       \* the rows in traffic_logs__ipv4_next
    counted,    \* how often each table counts each row
    views,      \* materialized views that feed each table, 0, 1 or 2
    current,    \* the components that have the layout of this version
    version,    \* the components recorded in ga_schema_version
    status,     \* aggstate: "pending", "running", "ready" or "error"
    ingest,     \* rows arrive
    job,        \* where the start-up sequence and the maintenance job are
    aggFaults,  \* what is left of AggFaults
    torn,       \* history: days a backfill broke off in the middle
    spoilt      \* history: days whose rows met another known hazard

aggVars == <<today, born, logs, copy, counted, views, current, version, status,
             ingest, job, aggFaults, torn, spoilt>>

Off == [n |-> 0, at |-> "off"]

\* What RunStartup and, before it, wireBackground do in order; runMaintenance.
Script(p) ==
    IF p = "maint" THEN << <<"fill", "edges">>, <<"fill", "geo">>, <<"end">> >>
    ELSE << <<"logs">>, <<"ensure", "geo">>, <<"ingest">>,
            <<"logs">>, <<"ensure", "geo">>, <<"ensure", "edges">>,
            <<"ensure", "hourly">>, <<"decide">>, <<"fill", "edges">>,
            <<"fill", "geo">>, <<"fill", "hourly">>, <<"end">> >>

RowsOf(d) == {i \in logs : born[i][1] = d}
RowsAt(d, h) == {i \in RowsOf(d) : born[i][2] = h}
Days(R) == {born[i][1] : i \in R}
Partitions(a) == Days({i \in DOMAIN born : counted[a][i] > 0})

AllDays == Tables \X (1 .. LastDay)

\* An empty volume, or one of an older version with rows of earlier days: its
\* tables have the old layout, or only their views changed.
AggInit ==
    /\ today = FirstToday
    /\ \E old \in BOOLEAN, cur \in {{}, {"logs"}, Tables} :
         /\ born \in IF old THEN FirstDays ELSE {<< >>}
         /\ views = [a \in Tables |-> IF old THEN 1 ELSE 0]
         /\ current = IF old THEN cur ELSE {}
         /\ counted = [a \in Tables |-> [i \in DOMAIN born |-> 1]]
         /\ version = current \cap {"logs"}
    /\ logs = DOMAIN born
    /\ copy = {}
    /\ status = [a \in Tables |-> "pending"]
    /\ ingest = FALSE
    /\ job = [p \in Procs |-> Off]
    /\ aggFaults = AggFaults
    /\ torn = {} /\ spoilt = {}

-----------------------------------------------------------------------------
(* Rows, days and restarts *)

\* Every view that feeds a table counts a new row.
RowArrives(d, h) ==
    /\ ingest /\ Len(born) < MaxLogs
    /\ d = today \/ (MayLag /\ d = today - 1)
    /\ born' = Append(born, <<d, h>>)
    /\ logs' = logs \cup {Len(born) + 1}
    /\ counted' = [a \in Tables |-> Append(counted[a], views[a])]
    /\ spoilt' = spoilt \cup
         {<<a, d>> : a \in {b \in Tables : views[b] # 1 \/ d # today}}
    /\ UNCHANGED <<today, copy, views, current, version, status, ingest, job,
                   aggFaults, torn>>

Midnight ==
    /\ today < LastDay
    /\ today' = today + 1
    /\ UNCHANGED <<born, logs, copy, counted, views, current, version, status,
                   ingest, job, aggFaults, torn, spoilt>>

\* The days a job of a table has begun and not ended.
TornBy(p) ==
    IF job[p].at = "insert" /\ job[p].hour > Min(Hours)
    THEN {<<Script(p)[job[p].n][2], job[p].day>>} ELSE {}

\* The process ends: flags and jobs are gone, the tables stay.
Restart ==
    /\ job["boot"].n > 0 /\ aggFaults > 0
    /\ aggFaults' = aggFaults - 1
    /\ status' = [a \in Tables |-> "pending"]
    /\ ingest' = FALSE
    /\ job' = [p \in Procs |-> Off]
    /\ torn' = torn \cup TornBy("boot") \cup TornBy("maint")
    /\ UNCHANGED <<today, born, logs, copy, counted, views, current, version, spoilt>>

-----------------------------------------------------------------------------
(* Steps of a job *)

Stage(p) == Script(p)[job[p].n]
At(p, kind, place) == job[p].n > 0 /\ Stage(p)[1] = kind /\ job[p].at = place
Goes(p, place) == job' = [job EXCEPT ![p] = [n |-> @.n, at |-> place]]
Skips(p, k) == job' = [job EXCEPT ![p] = [n |-> @.n + k, at |-> "start"]]

\* The next hour to insert is of day; days are left after it.
Inserts(p, days, day, hour) ==
    job' = [job EXCEPT ![p] = [n |-> @.n, at |-> "insert", days |-> days, day |-> day,
                               hour |-> hour]]

\* The latest of the days, from its first hour on.
InsertsLatest(p, days) == Inserts(p, days \ {Max(days)}, Max(days), Min(Hours))

\* EnsureBaseSchema: what is missing is created, with the layout of this version;
\* a traffic_logs without rows was missing.
Boot ==
    /\ job["boot"] = Off
    /\ job' = [job EXCEPT !["boot"] = [n |-> 1, at |-> "start"]]
    /\ current' = IF born = << >> THEN current \cup {"logs"} ELSE current
    /\ UNCHANGED <<today, born, logs, copy, counted, views, version, status,
                   ingest, aggFaults, torn, spoilt>>

\* buildApp goes on to startIngest and leaves the rest to a goroutine.
IngestStarts ==
    /\ At("boot", "ingest", "start")
    /\ ingest' = TRUE
    /\ Skips("boot", 1)
    /\ UNCHANGED <<today, born, logs, copy, counted, views, current, version, status,
                   aggFaults, torn, spoilt>>

\* SkipReason: an open circuit, or the edges are being rebuilt.
Gated == status["edges"] = "running"

\* runMaintenance, after the gate was checked with the slot held.  Start-up does
\* not hold the slot: when it is not done yet, both work on the same tables.
MaintenanceBegins ==
    /\ ingest /\ job["maint"] = Off /\ ~Gated
    /\ job' = [job EXCEPT !["maint"] = [n |-> 1, at |-> "start"]]
    /\ spoilt' = IF Stage("boot") = <<"end">> THEN spoilt ELSE AllDays
    /\ UNCHANGED <<today, born, logs, copy, counted, views, current, version, status,
                   ingest, aggFaults, torn>>

Ends(p) ==
    /\ p = "maint"
    /\ At(p, "end", "start")
    /\ job' = [job EXCEPT ![p] = Off]
    /\ UNCHANGED <<today, born, logs, copy, counted, views, current, version, status,
                   ingest, aggFaults, torn, spoilt>>

needsSchemaDDL(c) == c \notin version

setSchemaVersion(c) == version' = version \cup {c}

Schema == UNCHANGED <<today, born, ingest, aggFaults, torn>>

\* A statement of the schema part fails: the error is logged, EnsureHTTPSchema
\* leaves out what comes after it, the sequence goes on.  The flag is down by
\* then; only the edges say why, but not when the version is not recorded.
EnsureFails(p) ==
    LET a == Stage(p)[2] IN
    /\ aggFaults > 0
    /\ At(p, "logs", job[p].at) \/ At(p, "ensure", job[p].at)
    /\ aggFaults' = aggFaults - 1
    /\ copy' = {}
    /\ IF Stage(p)[1] = "logs"
       THEN Skips(p, 2) /\ UNCHANGED <<status, views>>
       ELSE /\ Skips(p, 1)
            /\ views' = IF job[p].at = "drop" THEN [views EXCEPT ![a] = 1] ELSE views
            /\ status' = IF job[p].at = "version" THEN status
                         ELSE [status EXCEPT ![a] = IF a = "edges" THEN "error" ELSE "pending"]
    /\ UNCHANGED <<today, born, logs, counted, current, version, ingest, torn, spoilt>>

-----------------------------------------------------------------------------
(* EnsureTrafficLogsIPv4 *)

trafficLogsNeedsRebuild == "logs" \notin current

LayoutCurrent(p) ==
    /\ At(p, "logs", "start") /\ ~needsSchemaDDL("logs")
    /\ Skips(p, 1)
    /\ Schema /\ UNCHANGED <<logs, copy, counted, views, current, version, status, spoilt>>

\* CREATE next and INSERT SELECT: the copy has the rows as they are now.
LayoutCopies(p) ==
    /\ At(p, "logs", "start") /\ needsSchemaDDL("logs") /\ trafficLogsNeedsRebuild
    /\ copy' = logs
    /\ Goes(p, "swap")
    /\ Schema /\ UNCHANGED <<logs, counted, views, current, version, status, spoilt>>

\* EXCHANGE and DROP: rows that came after the copy go with the old table.
LayoutSwaps(p) ==
    /\ At(p, "logs", "swap")
    /\ logs' = copy /\ copy' = {}
    /\ spoilt' = spoilt \cup {<<a, d>> : a \in Tables, d \in Days(logs \ copy)}
    /\ current' = current \cup {"logs"}
    /\ Goes(p, "start")
    /\ Schema /\ UNCHANGED <<counted, views, version, status>>

LayoutRecorded(p) ==
    /\ At(p, "logs", "start") /\ needsSchemaDDL("logs") /\ ~trafficLogsNeedsRebuild
    /\ setSchemaVersion("logs")
    /\ Skips(p, 1)
    /\ Schema /\ UNCHANGED <<logs, copy, counted, views, current, status, spoilt>>

-----------------------------------------------------------------------------
(* The schema of the aggregates *)

\* The flag goes down first; the version says whether there is DDL to do.
EnsureBegins(p, a, flag) ==
    /\ At(p, "ensure", "start") /\ Stage(p)[2] = a
    /\ status' = [status EXCEPT ![a] = IF needsSchemaDDL(a) THEN flag ELSE "pending"]
    /\ IF needsSchemaDDL(a) THEN Goes(p, "table") ELSE Skips(p, 1)
    /\ Schema /\ UNCHANGED <<logs, copy, counted, views, current, version, spoilt>>

EnsureEdgesAggSchema(p) == EnsureBegins(p, "edges", "running")

EnsureGeoEdgesAggSchema(p) == EnsureBegins(p, "geo", "pending")

EnsureHourlyEdgesAggSchema(p) == EnsureBegins(p, "hourly", "pending")

\* The layout that IP type, partition key and columns are compared with.
NeedsRebuild(a) == a \notin current

\* RebuildViaNext: a missing table is created, one of an old layout is replaced
\* by an empty one.
EnsureTable(p, a) ==
    /\ At(p, "ensure", "table") /\ Stage(p)[2] = a
    /\ IF NeedsRebuild(a)
       THEN /\ counted' = [counted EXCEPT ![a] = [i \in DOMAIN @ |-> 0]]
            /\ spoilt' = spoilt \cup {<<a, today>>}
       ELSE UNCHANGED <<counted, spoilt>>
    /\ current' = current \cup {a}
    /\ Goes(p, "view")
    /\ Schema /\ UNCHANGED <<logs, copy, views, version, status>>

applyEdgesAggSchema(p) == EnsureTable(p, "edges")

ensureGeoEdgesTable(p) == EnsureTable(p, "geo")

applyHourlyEdgesSchema(p) == EnsureTable(p, "hourly")

\* The new view is created beside the old one ...
replaceMaterializedView(p) ==
    LET a == Stage(p)[2] IN
    /\ At(p, "ensure", "view")
    /\ views' = [views EXCEPT ![a] = IF @ = 0 THEN 1 ELSE 2]
    /\ Goes(p, IF views[a] = 0 THEN "version" ELSE "drop")
    /\ Schema /\ UNCHANGED <<logs, copy, counted, current, version, status, spoilt>>

\* ... and exchanged with it; the drop of the old one is a best effort.
EnsureDrop(p, ok) ==
    LET a == Stage(p)[2] IN
    /\ At(p, "ensure", "drop")
    /\ ok \/ aggFaults > 0
    /\ aggFaults' = IF ok THEN aggFaults ELSE aggFaults - 1
    /\ views' = [views EXCEPT ![a] = IF ok THEN 1 ELSE @]
    /\ Goes(p, "version")
    /\ UNCHANGED <<today, born, ingest, torn, logs, copy, counted, current,
                   version, status, spoilt>>

EnsureVersion(p) ==
    LET a == Stage(p)[2] IN
    /\ At(p, "ensure", "version")
    /\ setSchemaVersion(a)
    /\ status' = [status EXCEPT ![a] = "pending"]
    /\ Skips(p, 1)
    /\ Schema /\ UNCHANGED <<logs, copy, counted, views, current, spoilt>>

-----------------------------------------------------------------------------
(* Backfill *)

\* Mutant: the day that is still running counts as closed.
missingClosedPartitionDaysAll(a) ==
    {d \in Days(logs) : a = "hourly" => d >= today - HourlyLookback}
        \ (Partitions(a) \ {today})

\* Days with rows and no partition in the table, except today.
missingClosedPartitionDays(a) ==
    {d \in Days(logs) : /\ d < today
                        /\ a = "hourly" => d >= today - HourlyLookback}
        \ Partitions(a)

tableExists(a) == a \in current \/ views[a] > 0

CaughtUp(a) == logs = {} \/ missingClosedPartitionDays(a) = {}

edgesAggReady == CaughtUp("edges")

geoEdgesAggReady == tableExists("geo") /\ CaughtUp("geo")

hourlyEdgesReady == tableExists("hourly") /\ CaughtUp("hourly")

RefreshEdgesAggReady == IF edgesAggReady THEN "ready" ELSE "pending"

RefreshGeoEdgesAggReady == IF geoEdgesAggReady THEN "ready" ELSE "pending"

RefreshHourlyEdgesAggReady == IF hourlyEdgesReady THEN "ready" ELSE "pending"

FillOnly == UNCHANGED <<today, born, logs, copy, views, current, version, ingest>>

\* The sequence goes on to the backfill, or only looks what is ready.
Decide(skip) ==
    /\ At("boot", "decide", "start")
    /\ Gated => skip
    /\ IF skip
       THEN /\ status' = [edges |-> RefreshEdgesAggReady, geo |-> RefreshGeoEdgesAggReady,
                          hourly |-> RefreshHourlyEdgesAggReady]
            /\ Skips("boot", 4)
       ELSE Skips("boot", 1) /\ UNCHANGED status
    /\ FillOnly /\ UNCHANGED <<counted, aggFaults, torn, spoilt>>

FillBegins(p, a, flag) ==
    /\ At(p, "fill", "start") /\ Stage(p)[2] = a
    /\ IF CaughtUp(a)
       THEN /\ status' = [status EXCEPT ![a] = "ready"]
            /\ Skips(p, 1)
       ELSE /\ status' = [status EXCEPT ![a] = flag]
            /\ InsertsLatest(p, missingClosedPartitionDays(a))
    /\ FillOnly /\ UNCHANGED <<counted, aggFaults, torn, spoilt>>

BackfillEdgesAgg(p) == FillBegins(p, "edges", "running")

BackfillGeoEdgesAgg(p) == FillBegins(p, "geo", status["geo"])

BackfillHourlyEdgesAgg(p) == FillBegins(p, "hourly", status["hourly"])

\* One INSERT SELECT per hour of a day, the latest day first; the flag goes up
\* after the last one.
InsertHour(p, T) ==
    LET a == Stage(p)[2]
        j == job[p]
        new == RowsAt(j.day, j.hour)
        later == {h \in Hours : h > j.hour}
    IN  /\ At(p, "fill", "insert") /\ a \in T /\ tableExists(a)
        /\ counted' = [counted EXCEPT ![a] =
              [i \in DOMAIN @ |-> IF i \in new THEN @[i] + 1 ELSE @[i]]]
        /\ IF later # {}
           THEN Inserts(p, j.days, j.day, Min(later)) /\ UNCHANGED status
           ELSE IF j.days # {}
           THEN InsertsLatest(p, j.days) /\ UNCHANGED status
           ELSE /\ status' = [status EXCEPT ![a] = "ready"]
                /\ Skips(p, 1)
        /\ FillOnly /\ UNCHANGED <<aggFaults, torn, spoilt>>

insertIPEdgesDays(p) == InsertHour(p, {"edges", "hourly"})

insertGeoEdgesDays(p) == InsertHour(p, {"geo"})

\* The hourly table is filled by the code of the edges and its failed statements are
\* theirs too.
MarksEdges(p) == Stage(p)[2] = "edges" \/ (Stage(p)[2] = "hourly" /\ job[p].at = "insert")

\* A statement of the backfill fails, an insert always when there is no table.
\* Start-up goes on with the next table, the maintenance job gives up.
FillFails(p) ==
    /\ At(p, "fill", job[p].at)
    /\ \/ aggFaults > 0 /\ aggFaults' = aggFaults - 1
       \/ job[p].at = "insert" /\ ~tableExists(Stage(p)[2]) /\ UNCHANGED aggFaults
    /\ status' = [b \in Tables |->
          IF b = "edges" THEN IF MarksEdges(p) THEN "error" ELSE status[b]
          ELSE IF b = Stage(p)[2] THEN "pending" ELSE status[b]]
    /\ torn' = torn \cup TornBy(p)
    /\ IF p = "boot" THEN Skips(p, 1) ELSE job' = [job EXCEPT ![p] = Off]
    /\ FillOnly /\ UNCHANGED <<counted, spoilt>>

\* What a job whose context is over still puts down: start-up fails at the first
\* statement of every table that is left.
PutDown(p, seen) ==
    CASE p = "boot" -> {Script(p)[n][2] : n \in job[p].n .. Len(Script(p)) - 1}
      [] p = "maint" /\ seen /\ job[p].at = "start" -> {}
      [] OTHER -> {Stage(p)[2]}

\* The context of the job is over: a newer job was scheduled, or the time of start-up
\* is up.  It is seen between two statements, and then the edges stay "running", or
\* the statement under way fails.
FillCancelled(p, seen) ==
    /\ At(p, "fill", job[p].at) /\ aggFaults > 0
    /\ seen => job[p].at = "insert" \/ (p = "maint" /\ Stage(p)[2] = "geo")
    /\ aggFaults' = aggFaults - 1
    /\ status' = [b \in Tables |->
          IF b = "edges" THEN IF ~seen /\ MarksEdges(p) THEN "error" ELSE status[b]
          ELSE IF b \in PutDown(p, seen) THEN "pending" ELSE status[b]]
    /\ torn' = torn \cup TornBy(p)
    /\ IF p = "boot" THEN Skips(p, Len(Script(p)) - job[p].n) ELSE job' = [job EXCEPT ![p] = Off]
    /\ FillOnly /\ UNCHANGED <<counted, spoilt>>

AggStep ==
    \/ \E d \in 1 .. LastDay, h \in Hours : RowArrives(d, h)
    \/ Midnight \/ Restart \/ Boot \/ IngestStarts \/ MaintenanceBegins
    \/ \E p \in Procs :
          \/ Ends(p) \/ EnsureFails(p)
          \/ LayoutCurrent(p) \/ LayoutCopies(p) \/ LayoutSwaps(p) \/ LayoutRecorded(p)
          \/ EnsureEdgesAggSchema(p) \/ EnsureGeoEdgesAggSchema(p)
          \/ EnsureHourlyEdgesAggSchema(p)
          \/ applyEdgesAggSchema(p) \/ ensureGeoEdgesTable(p) \/ applyHourlyEdgesSchema(p)
          \/ replaceMaterializedView(p) \/ EnsureVersion(p)
          \/ (\E ok \in BOOLEAN : EnsureDrop(p, ok))
          \/ BackfillEdgesAgg(p) \/ BackfillGeoEdgesAgg(p) \/ BackfillHourlyEdgesAgg(p)
          \/ insertIPEdgesDays(p) \/ insertGeoEdgesDays(p) \/ FillFails(p)
          \/ (\E seen \in BOOLEAN : FillCancelled(p, seen))
    \/ \E skip \in BOOLEAN : Decide(skip)

AggSpec == AggInit /\ [][AggStep]_aggVars

-----------------------------------------------------------------------------
(* Properties *)

\* A table the map may read counts every row of a closed day exactly once,
\* unless that day met one of the hazards the code does not guard against: a
\* backfill that broke off, rows that came late or while no view or two views
\* fed the table, a table replaced during the day, the maintenance job beside
\* start-up.
ReadyIsExact ==
    \A a \in Tables, i \in logs :
        (/\ status[a] = "ready" /\ born[i][1] < today
         /\ a = "hourly" => born[i][1] >= today - HourlyLookback
         /\ <<a, born[i][1]>> \notin torn \cup spoilt)
        => counted[a][i] = 1

\* "True only after a successful full backfill": while the daily edges are
\* preferred, no closed day is one that a backfill left half done.
PreferAfterFullBackfill ==
    status["edges"] = "ready" =>
        \A t \in torn : t[1] = "edges" =>
            \A i \in RowsOf(t[2]) : counted["edges"][i] > 0
=============================================================================
