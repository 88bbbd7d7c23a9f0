------------------------------ MODULE MapQuery ------------------------------
(***************************************************************************)
(* A map request: its period (httpapi/events), its cost and limit          *)
(* (mapsearch/cost) and the table that answers it (clickhouse/query).      *)
(* Time is counted in ticks, "minutes"; an hour and a day are small        *)
(* multiples of it.  A scan is the set of ticks whose rows it counts.      *)
(***************************************************************************)
EXTENDS Integers, FiniteSets

CONSTANTS
    Hour,       \* 60: ticks of an hour
    Day,        \* 24: hours of a day
    HourlyKept, \* 7: days the hourly table keeps and looks back
    MaxDays,    \* 30: the longest period, and the days the logs are kept
    Now,        \* the tick of the request
    Caps        \* the limits by cost: [heavy, filtered, medium, light]

ASSUME ClockAssumption ==
    /\ Hour \in Nat \ {0, 1} /\ Day \in Nat \ {0, 1}
    /\ HourlyKept \in 1 .. MaxDays /\ MaxDays \in Nat /\ Now \in Nat

DayTicks == Hour * Day
Ticks == 0 .. Now
Groups == {"ip", "subnet", "city", "country", "continent", "city_country"}
IPGroups == {"ip", "subnet", "city_country"}

Clamp(n, lo, hi) == IF n < lo THEN lo ELSE IF n > hi THEN hi ELSE n
StartOf(t, unit) == (t \div unit) * unit

-----------------------------------------------------------------------------
(* The period *)

\* A relative period is at least one unit and at most 30 days; a missing or bad
\* number of minutes is 15.
parseDays(n) == [mode |-> "days", amount |-> Clamp(n, 1, MaxDays)]

parseMinutes(n) ==
    [mode |-> "minutes", amount |-> IF n < 1 THEN Hour \div 4
                                    ELSE Clamp(n, 1, MaxDays * DayTicks)]

parseHours(n) == [mode |-> "hours", amount |-> Clamp(n, 1, MaxDays * Day)]

\* from and to are put in order and the period is cut at its older end.
parseAbsolute(a, b) ==
    LET from == IF b < a THEN b ELSE a
        to == IF b < a THEN a ELSE b
    IN  [mode |-> "absolute", to |-> to,
         from |-> IF to - from > MaxDays * DayTicks THEN to - MaxDays * DayTicks ELSE from]

\* The ticks a period asks for.
Requested(tr) ==
    CASE tr.mode = "minutes"  -> {t \in Ticks : t >= Now - tr.amount}
      [] tr.mode = "hours"    -> {t \in Ticks : t >= Now - tr.amount * Hour}
      [] tr.mode = "days"     -> {t \in Ticks : t >= Now - tr.amount * DayTicks}
      [] tr.mode = "absolute" -> {t \in Ticks : t >= tr.from /\ t < tr.to}

-----------------------------------------------------------------------------
(* Cost *)

Span(tr) == tr.to - tr.from

HeavyQuery(tr, group, filtered, rep) ==
    /\ group \in IPGroups
    /\ \/ rep
       \/ tr.mode = "minutes"
       \/ tr.mode = "hours" /\ tr.amount <= Day \div 2
       \/ tr.mode = "days" /\ (tr.amount >= 7 \/ (tr.amount >= 3 /\ ~filtered))
       \/ /\ tr.mode = "absolute"
          /\ Span(tr) > 7 * DayTicks \/ (Span(tr) > 2 * DayTicks /\ ~filtered)

MediumQuery(tr, group, filtered) ==
    \/ group \in IPGroups /\ tr.mode \in {"hours", "days"}
    \/ group \notin IPGroups /\ tr.mode = "minutes" /\ tr.amount <= Hour
    \/ group \notin IPGroups /\ tr.mode = "hours" /\ tr.amount >= Day \div 4
    \/ group \notin IPGroups /\ tr.mode = "days" /\ tr.amount >= 7 /\ ~filtered
    \/ tr.mode = "absolute" /\ Span(tr) > 14 * DayTicks /\ ~filtered

AssessMapQueryCost(tr, group, filtered, rep) ==
    IF HeavyQuery(tr, group, filtered, rep)
    THEN IF filtered THEN Caps.filtered ELSE Caps.heavy
    ELSE IF MediumQuery(tr, group, filtered) THEN Caps.medium ELSE Caps.light

parseOptionalLimit(n) == IF n <= 0 THEN Caps.medium ELSE Clamp(n, 1, Caps.light)

EffectiveMapLimit(requested, cap) == IF requested > cap THEN cap ELSE requested

\* The reputation filter works after the scan, so the scan takes the most it can.
scanLimit(limit, rep) == IF rep /\ limit < Caps.light THEN Caps.light ELSE limit

-----------------------------------------------------------------------------
(* The table that answers *)

\* Mutant: any number of hours is rounded to days.
promoteHoursToDaysRounds(tr, prefer) ==
    IF tr.mode # "hours" \/ tr.amount < Day \/ ~prefer THEN tr
    ELSE [mode |-> "days", amount |-> tr.amount \div Day]

promoteHoursToDays(tr, prefer) ==
    IF tr.mode # "hours" \/ tr.amount < Day \/ tr.amount % Day # 0 \/ ~prefer THEN tr
    ELSE [mode |-> "days", amount |-> tr.amount \div Day]

promoteMinutesToHours(tr, prefer) ==
    IF tr.mode # "minutes" \/ tr.amount < Hour \/ tr.amount % Hour # 0 \/ ~prefer THEN tr
    ELSE [mode |-> "hours", amount |-> tr.amount \div Hour]

\* What each table still holds: the logs and the daily tables 30 days, the
\* hourly one 7.
Held(table) ==
    {t \in Ticks : t >= Now - DayTicks * (IF table = "hourly" THEN HourlyKept ELSE MaxDays)}

\* scanIPEdgesRelative, scanGeoEdgesDays: day >= today() - n
ScanDays(n) == {t \in Held("daily") : StartOf(t, DayTicks) >= StartOf(Now, DayTicks) - n * DayTicks}

\* hour >= now() - n hours
ScanHours(n) == {t \in Held("hourly") : StartOf(t, Hour) >= Now - n * Hour}

\* hour >= from and hour < to
ScanHoursAbsolute(from, to) ==
    {t \in Held("hourly") : StartOf(t, Hour) >= from /\ StartOf(t, Hour) < to}

ScanLogs(tr) == Requested(tr) \cap Held("logs")

\* ScanGeoEdgesForTimeRange: ready is the set of tables that aggstate prefers (all
\* of a backup), broken those whose scan fails.  The answer names the table.
ScanGeoEdgesForTimeRange(tr0, group, ready, broken) ==
    LET daily == IF group \in {"ip", "subnet"} THEN "edges" ELSE "geo"
        days == promoteHoursToDays(tr0, daily \in ready)
        tr == promoteMinutesToHours(days, "hourly" \in ready)
        logs == [table |-> "logs", ticks |-> ScanLogs(tr)]
        hourly(S) == [table |-> "hourly", ticks |-> S]
    IN  CASE tr.mode = "days" /\ daily \in ready \ broken ->
               [table |-> daily, ticks |-> ScanDays(tr.amount)]
          [] tr.mode = "hours" /\ "hourly" \in ready \ broken ->
               hourly(ScanHours(tr.amount))
          [] tr.mode = "absolute" /\ "hourly" \in ready \ broken
                /\ Span(tr) > 0 /\ Span(tr) <= HourlyKept * DayTicks ->
               hourly(ScanHoursAbsolute(tr.from, tr.to))
          [] OTHER -> logs

\* Pairs of addresses: the daily table, or the logs.
ScanRawAggsForTimeRange(tr, ready, broken) ==
    IF tr.mode = "days" /\ "edges" \in ready \ broken
    THEN [table |-> "edges", ticks |-> ScanDays(tr.amount)]
    ELSE [table |-> "logs", ticks |-> ScanLogs(tr)]

\* city_country asks for addresses.  When the grouping of the logs fails too, the
\* pairs of addresses are scanned.
ScanMapAggs(tr, group, ready, broken) ==
    LET geo == ScanGeoEdgesForTimeRange(tr, IF group = "city_country" THEN "ip" ELSE group, ready, broken)
    IN  IF geo.table = "logs" /\ "grouping" \in broken
        THEN ScanRawAggsForTimeRange(tr, ready, broken) ELSE geo

-----------------------------------------------------------------------------
(* Properties of an answer a to the period tr *)

Bucket(table) ==
    CASE table = "logs" -> 0 [] table = "hourly" -> Hour [] OTHER -> DayTicks

Oldest(tr) ==
    CASE tr.mode = "minutes" -> Now - tr.amount [] tr.mode = "hours" -> Now - tr.amount * Hour
      [] tr.mode = "days" -> Now - tr.amount * DayTicks [] tr.mode = "absolute" -> tr.from

Newest(tr) == IF tr.mode = "absolute" THEN tr.to ELSE Now + 1

\* An answer differs from its period only within one bucket of its table at
\* either end, as far as the logs go back; asked of a period the hourly table
\* still holds when that table answers.
WithinABucket(tr, a) ==
    (a.table = "hourly" => Oldest(tr) >= Now - HourlyKept * DayTicks)
    => LET b == Bucket(a.table)
           near(t) == \/ t >= Oldest(tr) - b /\ t < Oldest(tr) + b
                      \/ t >= Newest(tr) - b /\ t < Newest(tr) + b
       IN  \A t \in Held("logs") : (t \in a.ticks) = (t \in Requested(tr)) \/ near(t)

\* "Periods 1h/6h always read traffic_logs": a period of fewer hours than a day is
\* answered with exactly its rows.
ShortPeriodsFromLogs(tr, a) ==
    tr.mode = "hours" /\ tr.amount < Day => a.ticks = ScanLogs(tr)
=============================================================================
