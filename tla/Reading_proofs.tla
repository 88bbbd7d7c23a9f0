---------------------------- MODULE Reading_proofs ----------------------------
(***************************************************************************)
(* The aggregate tables that the map is read from, through start-up,       *)
(* migrations, backfills, failures and restarts, for any history, any days *)
(* and hours and any number of failures.                                   *)
(* The GeoIP table and its index, for any table, file and edit: what an    *)
(* address is answered, what is left out, what a page says, what a file    *)
(* that is written gives when it is read.                                  *)
(***************************************************************************)
EXTENDS Aggregates, Requests, TLAPS, FiniteSetTheorems, WellFoundedInduction

-----------------------------------------------------------------------------
(* Operators of the model *)

\* A set of naturals has a smallest element, and Min is it.
LEMMA MinOfNats ==
    ASSUME NEW S \in SUBSET Nat, S # {}
    PROVE  Min(S) \in S /\ \A y \in S : Min(S) <= y
<1> DEFINE R == OpToRel(<, Nat)
<1>1. \A x, y \in Nat : x < y => <<x, y>> \in R
  BY DEF OpToRel
<1>2. IsWellFoundedOn(R, Nat)
  BY NatLessThanWellFounded
<1> HIDE DEF R
<1>3. PICK x \in S : \A y \in S : ~ (<<y, x>> \in R)
  BY <1>2, WFMin
<1> DEFINE Least(z) == \A y \in S : z <= y
<1>4. Least(x)
  <2> SUFFICES ASSUME NEW y \in S PROVE x <= y
    OBVIOUS
  <2>1. x \in Nat /\ y \in Nat /\ ~ (<<y, x>> \in R)
    BY <1>3
  <2>2. ~ (y < x)
    BY <1>1, <2>1, Zenon
  <2>3. QED
    BY <2>1, <2>2
<1>5. Min(S) = CHOOSE z \in S : Least(z)
  BY DEF Min
<1> HIDE DEF Least
<1>6. Min(S) \in S /\ Least(Min(S))
  BY <1>4, <1>5, Zenon
<1>7. QED
  BY <1>6 DEF Least

\* A bounded set of naturals has a greatest element, and Max is it.
LEMMA MaxOfNats ==
    ASSUME NEW n \in Nat, NEW S \in SUBSET (1 .. n), S # {}
    PROVE  Max(S) \in S /\ \A y \in S : Max(S) >= y
<1>1. PICK T \in SUBSET Nat : T = {n - x : x \in S} /\ T # {}
  <2>1. \A x \in S : n - x \in Nat
    OBVIOUS
  <2>2. {n - x : x \in S} \in SUBSET Nat
    BY <2>1
  <2>3. {n - x : x \in S} # {}
    OBVIOUS
  <2>4. QED
    BY <2>2, <2>3
<1>2. Min(T) \in T /\ \A y \in T : Min(T) <= y
  BY <1>1, MinOfNats
<1>3. PICK x \in S : Min(T) = n - x
  BY <1>1, <1>2
<1> DEFINE Greatest(z) == \A y \in S : z >= y
<1>4. Greatest(x)
  <2>1. \A y \in S : n - x <= n - y
    BY <1>1, <1>2, <1>3
  <2>2. QED
    BY <2>1
<1>5. Max(S) = CHOOSE z \in S : Greatest(z)
  BY DEF Max
<1> HIDE DEF Greatest
<1>6. Max(S) \in S /\ Greatest(Max(S))
  BY <1>4, <1>5, Zenon
<1>7. QED
  BY <1>6 DEF Greatest

\* What the start-up sequence and the maintenance job do in order.
LEMMA Scripts ==
    /\ Len(Script("boot")) = 12 /\ Len(Script("maint")) = 3
    /\ \A n \in 1 .. 12 : /\ Script("boot")[n][1] = "logs" <=> n \in {1, 4}
                          /\ Script("boot")[n][1] = "ensure" <=> n \in {2, 5, 6, 7}
                          /\ Script("boot")[n][1] = "ingest" <=> n = 3
                          /\ Script("boot")[n][1] = "decide" <=> n = 8
                          /\ Script("boot")[n][1] = "fill" <=> n \in {9, 10, 11}
                          /\ Script("boot")[n][1] = "end" <=> n = 12
                          /\ Script("boot")[n] = <<"end">> <=> n = 12
                          /\ n \in {2, 5, 6, 7, 9, 10, 11} => Script("boot")[n][2] \in Tables
    /\ \A n \in 1 .. 3 : /\ Script("maint")[n][1] = "fill" <=> n \in {1, 2}
                         /\ Script("maint")[n][1] = "end" <=> n = 3
                         /\ Script("maint")[n][1] \in {"fill", "end"}
                         /\ n \in {1, 2} => Script("maint")[n][2] \in Tables
BY DEF Script, Tables

\* A function on 1 .. n is a sequence of length n.
LEMMA FunctionIsSeq ==
    ASSUME NEW S, NEW n \in Nat, NEW f \in [1 .. n -> S]
    PROVE  f \in Seq(S) /\ Len(f) = n /\ DOMAIN f = 1 .. n
OBVIOUS

-----------------------------------------------------------------------------
(* The inductive invariant *)

Places == {"off", "start", "swap", "table", "view", "drop", "version"}

Flags == {"pending", "running", "ready", "error"}

InsertJobs ==
    [n : 1 .. 12, at : {"insert"}, days : SUBSET (1 .. LastDay), day : 1 .. LastDay, hour : Hours]

\* Every row is of a day that has begun, and every table counts every row.
RowTypes ==
    /\ today \in FirstToday .. LastDay
    /\ born \in Seq((1 .. LastDay) \X Hours)
    /\ \A i \in DOMAIN born : born[i][1] <= today
    /\ logs \subseteq DOMAIN born /\ copy \subseteq logs
    /\ counted \in [Tables -> Seq(Nat)]
    /\ \A a \in Tables : Len(counted[a]) = Len(born)
    /\ views \in [Tables -> Nat]
    /\ status \in [Tables -> Flags]
    /\ spoilt \subseteq AllDays

\* Only a stage that fills a table inserts.
JobTypes ==
    /\ job \in [Procs -> [n : 0 .. 12, at : Places] \cup InsertJobs]
    /\ job["maint"].n <= 3
    /\ \A p \in Procs : /\ job[p].n = 0 <=> job[p].at = "off"
                        /\ job[p].at = "insert" => Stage(p)[1] = "fill"

\* Rows arrive when start-up has come so far, and the maintenance job is at
\* work when it is over, except on days of which nothing is claimed.
JobOrder ==
    /\ job["boot"].n = 0 => job["maint"].n = 0
    /\ ingest => job["boot"].n >= 4
    /\ job["maint"].n # 0 => job["boot"].n = 12 \/ AllDays \subseteq spoilt

\* The rows of a lost copy are of days that count as met by a hazard.
LostAreSpoilt ==
    \A i \in DOMAIN born \ logs, a \in Tables : <<a, born[i][1]>> \in spoilt

Clean(a, d) == <<a, d>> \notin torn \cup spoilt

InWindow(a, d) == a = "hourly" => d >= today - HourlyLookback

Filling(p, a) == job[p].at = "insert" /\ Stage(p)[2] = a

\* The table counts each row of the day once; it counts none of them; the job
\* that fills it has come to a certain hour of a day.
Exact(a, d) == \A i \in RowsOf(d) : counted[a][i] = 1

Empty(a, d) == \A i \in RowsOf(d) : counted[a][i] = 0

Half(p, a) ==
    \A i \in RowsOf(job[p].day) : counted[a][i] = IF born[i][2] < job[p].hour THEN 1 ELSE 0

\* A job that fills a table has days of the past before it, each once.
JobDays ==
    \A p \in Procs : job[p].at = "insert" =>
        /\ job[p].day < today /\ job[p].day \notin job[p].days
        /\ \A d \in job[p].days : d < today

\* A day that met no hazard is whole in the table until it is over; after that
\* it is whole or empty, or a job is filling it.
DaysKnown(a) ==
    \A d \in 1 .. LastDay :
        Clean(a, d) =>
            \/ Exact(a, d)
            \/ d < today /\ Empty(a, d)
            \/ d < today /\ \E p \in Procs : Filling(p, a) /\ job[p].day = d

\* The days a job has before it are empty, and no other day is missing.
FillKnown(a) ==
    \A p \in Procs : Filling(p, a) =>
        /\ Clean(a, job[p].day) => Half(p, a)
        /\ \A d \in job[p].days : Clean(a, d) => Empty(a, d)
        /\ \A d \in 1 .. LastDay :
              Clean(a, d) /\ d < today /\ InWindow(a, d)
              /\ d # job[p].day /\ d \notin job[p].days => Exact(a, d)

\* ReadyIsExact, day by day.
ReadyKnown(a) ==
    status[a] = "ready" =>
        \A d \in 1 .. LastDay :
            Clean(a, d) /\ d < today /\ InWindow(a, d) => Exact(a, d)

TableKnown(a) == DaysKnown(a) /\ FillKnown(a) /\ ReadyKnown(a)

\* The flag of a table whose schema is being changed is down.
SchemaIsDown ==
    \A p \in Procs :
        job[p].at \in {"table", "view", "drop", "version"} =>
            /\ Stage(p)[1] = "ensure"
            /\ status[Stage(p)[2]] # "ready" \/ AllDays \subseteq spoilt

AggInv ==
    /\ RowTypes /\ JobTypes /\ JobOrder /\ JobDays /\ LostAreSpoilt /\ SchemaIsDown
    /\ \A a \in Tables : TableKnown(a)

\* An empty volume, or one of an older version.
LEMMA InitAggInv == AggInit => AggInv
<1> SUFFICES ASSUME AggInit
             PROVE  AggInv
  OBVIOUS
<1>1. born \in Seq((1 .. FirstToday) \X Hours)
  <2>1. born \in FirstDays \/ born = << >>
    BY DEF AggInit
  <2>2. FirstDays \subseteq Seq((1 .. FirstToday) \X Hours)
    BY AggAssumption
  <2>3. << >> \in Seq((1 .. FirstToday) \X Hours)
    OBVIOUS
  <2>4. QED
    BY <2>1, <2>2, <2>3
<1>2. /\ logs = DOMAIN born /\ copy = {} /\ today = FirstToday
      /\ counted = [a \in Tables |-> [i \in DOMAIN born |-> 1]]
      /\ status = [a \in Tables |-> "pending"]
      /\ job = [p \in Procs |-> Off] /\ ~ingest
  BY DEF AggInit
<1>3. views \in [Tables -> Nat]
  BY DEF AggInit
<1>4. \A a \in Tables : counted[a] \in Seq(Nat) /\ Len(counted[a]) = Len(born)
  <2>1. [i \in 1 .. Len(born) |-> 1] \in [1 .. Len(born) -> Nat] /\ Len(born) \in Nat
    BY <1>1
  <2>2. DOMAIN born = 1 .. Len(born)
    BY <1>1
  <2>3. QED
    BY <1>2, <2>1, <2>2, FunctionIsSeq
<1>5. RowTypes
  <2>1. 1 .. FirstToday \subseteq 1 .. LastDay
    BY AggAssumption
  <2>2. born \in Seq((1 .. LastDay) \X Hours) /\ \A i \in DOMAIN born : born[i][1] <= today
    BY <1>1, <1>2, <2>1, AggAssumption
  <2>3. counted \in [Tables -> Seq(Nat)]
    BY <1>2, <1>4
  <2>4. QED
    BY <1>2, <1>3, <1>4, <2>2, <2>3, AggAssumption DEF RowTypes, Flags, AggInit
<1>6. JobTypes /\ JobOrder /\ JobDays /\ SchemaIsDown
  BY <1>2 DEF JobTypes, JobOrder, JobDays, SchemaIsDown, Off, Procs, Places
<1>7. LostAreSpoilt
  BY <1>2 DEF LostAreSpoilt
<1>8. \A a \in Tables : TableKnown(a)
  BY <1>2 DEF TableKnown, DaysKnown, FillKnown, ReadyKnown, Exact, RowsOf, Filling, Off
<1>9. QED
  BY <1>5, <1>6, <1>7, <1>8 DEF AggInv

-----------------------------------------------------------------------------
(* The jobs *)

\* What a job at a stage of a kind can be.
LEMMA StageKinds ==
    ASSUME JobTypes, NEW p \in Procs, NEW kind, NEW place, At(p, kind, place)
    PROVE  /\ job[p].n \in 1 .. 12 /\ job[p].at = place /\ Stage(p)[1] = kind
           /\ kind \in {"logs", "ensure", "ingest", "decide"} => p = "boot" /\ job["boot"].n <= 8
           /\ kind = "logs" => job[p].n \in {1, 4}
           /\ kind = "ensure" => job[p].n \in {2, 5, 6, 7}
           /\ kind = "ingest" => job[p].n = 3
           /\ kind \in {"ensure", "fill"} => Stage(p)[2] \in Tables /\ job[p].n \notin {4, 12}
           /\ p = "boot" /\ kind # "end" => job["boot"].n < 12
           /\ kind = "fill" /\ p = "maint" => job["maint"].n <= 2
           /\ kind = "fill" /\ p = "boot" => job["boot"].n \in {9, 10, 11}
<1>1. job[p].n \in 1 .. 12 /\ job[p].at = place /\ Stage(p)[1] = kind
  BY DEF At, JobTypes, InsertJobs
<1>2. CASE p = "boot"
  BY <1>1, <1>2, Scripts DEF Stage
<1>3. CASE p = "maint"
  BY <1>1, <1>3, Scripts DEF Stage, JobTypes
<1>4. QED
  BY <1>2, <1>3 DEF Procs

\* A job goes to another place of its stage, or to another stage.
LEMMA GoesTypes ==
    ASSUME JobTypes, NEW p \in Procs, NEW place \in Places \ {"off"}, job[p].n # 0,
           Goes(p, place)
    PROVE  /\ JobTypes'
           /\ job'[p].n = job[p].n /\ job'[p].at = place
           /\ \A q \in Procs \ {p} : job'[q] = job[q]
<1>1. /\ job' \in [Procs -> [n : 0 .. 12, at : Places] \cup InsertJobs]
      /\ job'[p] = [n |-> job[p].n, at |-> place]
      /\ \A q \in Procs \ {p} : job'[q] = job[q]
  BY DEF Goes, JobTypes, InsertJobs
<1>2. QED
  BY <1>1 DEF JobTypes, Stage, Places, Procs

LEMMA SkipsTypes ==
    ASSUME JobTypes, NEW p \in Procs, NEW k \in 1 .. 4, job[p].n # 0, job[p].n + k <= 12,
           p = "maint" => job[p].n + k <= 3,
           Skips(p, k)
    PROVE  /\ JobTypes'
           /\ job'[p].n = job[p].n + k /\ job'[p].at = "start"
           /\ \A q \in Procs \ {p} : job'[q] = job[q]
<1>1. job[p].n \in 0 .. 12
  BY DEF JobTypes, InsertJobs
<1>2. /\ job' \in [Procs -> [n : 0 .. 12, at : Places] \cup InsertJobs]
      /\ job'[p] = [n |-> job[p].n + k, at |-> "start"]
      /\ \A q \in Procs \ {p} : job'[q] = job[q]
  BY <1>1 DEF Skips, JobTypes, Places
<1>3. QED
  BY <1>1, <1>2 DEF JobTypes, Stage, Places, Procs

LEMMA InsertsTypes ==
    ASSUME JobTypes, NEW p \in Procs, NEW days \in SUBSET (1 .. LastDay),
           NEW day \in 1 .. LastDay, NEW hour \in Hours, job[p].n # 0, Stage(p)[1] = "fill",
           Inserts(p, days, day, hour)
    PROVE  /\ JobTypes'
           /\ job'[p] = [n |-> job[p].n, at |-> "insert", days |-> days, day |-> day, hour |-> hour]
           /\ job'[p].n = job[p].n
           /\ \A q \in Procs \ {p} : job'[q] = job[q]
<1>1. job[p].n \in 0 .. 12
  BY DEF JobTypes, InsertJobs
<1>2. /\ job' \in [Procs -> [n : 0 .. 12, at : Places] \cup InsertJobs]
      /\ job'[p] = [n |-> job[p].n, at |-> "insert", days |-> days, day |-> day, hour |-> hour]
      /\ \A q \in Procs \ {p} : job'[q] = job[q]
  BY <1>1 DEF Inserts, JobTypes, InsertJobs
<1>3. QED
  BY <1>1, <1>2 DEF JobTypes, Stage, Procs

\* The days that are missing are days of rows, and over.
LEMMA MissingDays ==
    ASSUME RowTypes, NEW a \in Tables
    PROVE  /\ missingClosedPartitionDays(a) \subseteq 1 .. LastDay
           /\ \A d \in missingClosedPartitionDays(a) : d < today
           /\ ~CaughtUp(a) => missingClosedPartitionDays(a) # {}
<1>1. Days(logs) \subseteq 1 .. LastDay
  BY DEF RowTypes, Days
<1>2. QED
  BY <1>1 DEF missingClosedPartitionDays, CaughtUp

\* The hour after the last one, and the first.
LEMMA FirstHour == Min(Hours) \in Hours /\ \A h \in Hours : Min(Hours) <= h
BY AggAssumption, MinOfNats

LEMMA NextHour ==
    ASSUME NEW h \in Hours, NEW later, later = {g \in Hours : g > h}, later # {}
    PROVE  /\ Min(later) \in Hours
           /\ \A g \in Hours : g < Min(later) <=> g <= h
<1>1. later \in SUBSET Nat
  BY AggAssumption
<1>2. Min(later) \in later /\ \A g \in later : Min(later) <= g
  BY <1>1, MinOfNats
<1>3. PICK m : m = Min(later)
  OBVIOUS
<1>4. \A g \in Hours : g < m <=> g <= h
  <2> SUFFICES ASSUME NEW g \in Hours PROVE g < m <=> g <= h
    OBVIOUS
  <2>1. g \in Nat /\ h \in Nat /\ m \in Nat /\ m > h
    BY <1>2, <1>3, AggAssumption
  <2>2. g > h => m <= g
    BY <1>2, <1>3
  <2>3. QED
    BY <2>1, <2>2
<1>5. QED
  BY <1>2, <1>3, <1>4

\* The latest of some days, and the rest of them.
LEMMA LatestDay ==
    ASSUME NEW days \in SUBSET (1 .. LastDay), days # {}
    PROVE  /\ Max(days) \in days
           /\ days \ {Max(days)} \in SUBSET (1 .. LastDay)
           /\ Max(days) \in 1 .. LastDay
BY AggAssumption, MaxOfNats

\* InsertsLatest is typed too.
LEMMA LatestTypes ==
    ASSUME JobTypes, NEW p \in Procs, NEW days \in SUBSET (1 .. LastDay), days # {},
           job[p].n # 0, Stage(p)[1] = "fill", InsertsLatest(p, days)
    PROVE  /\ JobTypes'
           /\ job'[p] = [n |-> job[p].n, at |-> "insert", days |-> days \ {Max(days)},
                         day |-> Max(days), hour |-> Min(Hours)]
           /\ job'[p].n = job[p].n
           /\ Max(days) \in days
           /\ \A q \in Procs \ {p} : job'[q] = job[q]
<1>1. PICK day, rest : day = Max(days) /\ rest = days \ {Max(days)}
  OBVIOUS
<1>2. day \in 1 .. LastDay /\ rest \in SUBSET (1 .. LastDay) /\ day \in days
  BY <1>1, LatestDay
<1>3. PICK hour : hour = Min(Hours)
  OBVIOUS
<1>4. hour \in Hours
  BY <1>3, FirstHour
<1>5. Inserts(p, rest, day, hour)
  BY <1>1, <1>3 DEF InsertsLatest
<1>6. QED
  BY <1>1, <1>2, <1>3, <1>4, <1>5, InsertsTypes

\* A fill that fails or is cancelled: it puts flags down, and its job goes on to a
\* later stage or ends.
FillStops(p) ==
    /\ At(p, "fill", job[p].at) /\ FillOnly /\ UNCHANGED <<counted, spoilt>>
    /\ torn' = torn \cup TornBy(p)
    /\ \E T : /\ status' = [b \in Tables |-> T[b]]
             /\ \A b \in Tables : T[b] \in {status[b], "error", "pending"}
    /\ IF p = "boot" THEN \E k \in {1, 12 - job[p].n} : Skips(p, k)
       ELSE job' = [job EXCEPT ![p] = Off]

LEMMA FillEnds ==
    ASSUME NEW p \in Procs, FillFails(p) \/ \E seen : FillCancelled(p, seen)
    PROVE  FillStops(p)
<1>1. Len(Script("boot")) = 12
  BY Scripts
<1>2. CASE FillFails(p)
  <2> DEFINE T == [b \in Tables |-> IF b = "edges" THEN IF MarksEdges(p) THEN "error" ELSE status[b]
                                   ELSE IF b = Stage(p)[2] THEN "pending" ELSE status[b]]
  <2>1. status' = [b \in Tables |-> T[b]] /\ \A b \in Tables : T[b] \in {status[b], "error", "pending"}
    BY <1>2 DEF FillFails
  <2> HIDE DEF T
  <2> QED
    BY <1>2, <2>1 DEF FillFails, FillStops
<1>3. ASSUME NEW seen, FillCancelled(p, seen)
      PROVE  FillStops(p)
  <2> DEFINE T == [b \in Tables |-> IF b = "edges" THEN IF ~seen /\ MarksEdges(p) THEN "error" ELSE status[b]
                                   ELSE IF b \in PutDown(p, seen) THEN "pending" ELSE status[b]]
  <2>1. status' = [b \in Tables |-> T[b]] /\ \A b \in Tables : T[b] \in {status[b], "error", "pending"}
    BY <1>3 DEF FillCancelled
  <2> HIDE DEF T
  <2>2. IF p = "boot" THEN Skips(p, 12 - job[p].n) ELSE job' = [job EXCEPT ![p] = Off]
    BY <1>1, <1>3 DEF FillCancelled
  <2> QED
    BY <1>3, <2>1, <2>2 DEF FillCancelled, FillStops
<1> QED
  BY <1>2, <1>3

\* The steps of the tables, with the table and the flag they are about.
LEMMA StepCases ==
    ASSUME AggStep
    PROVE  \/ \E d \in 1 .. LastDay, h \in Hours : RowArrives(d, h)
           \/ Midnight \/ Restart \/ Boot \/ IngestStarts \/ MaintenanceBegins
           \/ \E skip \in BOOLEAN : Decide(skip)
           \/ \E p \in Procs :
                 \/ Ends(p) \/ EnsureFails(p)
                 \/ LayoutCurrent(p) \/ LayoutCopies(p) \/ LayoutSwaps(p) \/ LayoutRecorded(p)
                 \/ \E a \in Tables, flag \in {"running", "pending"} : EnsureBegins(p, a, flag)
                 \/ \E a \in Tables : EnsureTable(p, a)
                 \/ replaceMaterializedView(p) \/ EnsureVersion(p)
                 \/ \E ok \in BOOLEAN : EnsureDrop(p, ok)
                 \/ \E a \in Tables : \E flag \in {"running", status[a]} : FillBegins(p, a, flag)
                 \/ \E T \in SUBSET Tables : InsertHour(p, T)
                 \/ FillStops(p)
<1>1. /\ "edges" \in Tables /\ "geo" \in Tables /\ "hourly" \in Tables
      /\ {"edges", "hourly"} \in SUBSET Tables /\ {"geo"} \in SUBSET Tables
  BY DEF Tables
<1>2. ASSUME NEW p \in Procs,
             EnsureEdgesAggSchema(p) \/ EnsureGeoEdgesAggSchema(p) \/ EnsureHourlyEdgesAggSchema(p)
      PROVE  \E a \in Tables, flag \in {"running", "pending"} : EnsureBegins(p, a, flag)
  BY <1>1, <1>2 DEF EnsureEdgesAggSchema, EnsureGeoEdgesAggSchema, EnsureHourlyEdgesAggSchema
<1>3. ASSUME NEW p \in Procs,
             applyEdgesAggSchema(p) \/ ensureGeoEdgesTable(p) \/ applyHourlyEdgesSchema(p)
      PROVE  \E a \in Tables : EnsureTable(p, a)
  BY <1>1, <1>3 DEF applyEdgesAggSchema, ensureGeoEdgesTable, applyHourlyEdgesSchema
<1>4. ASSUME NEW p \in Procs,
             BackfillEdgesAgg(p) \/ BackfillGeoEdgesAgg(p) \/ BackfillHourlyEdgesAgg(p)
      PROVE  \E a \in Tables : \E flag \in {"running", status[a]} : FillBegins(p, a, flag)
  BY <1>1, <1>4 DEF BackfillEdgesAgg, BackfillGeoEdgesAgg, BackfillHourlyEdgesAgg
<1>5. ASSUME NEW p \in Procs, insertIPEdgesDays(p) \/ insertGeoEdgesDays(p)
      PROVE  \E T \in SUBSET Tables : InsertHour(p, T)
  BY <1>1, <1>5 DEF insertIPEdgesDays, insertGeoEdgesDays
<1>6. ASSUME NEW p \in Procs, FillFails(p) \/ \E seen \in BOOLEAN : FillCancelled(p, seen)
      PROVE  FillStops(p)
  BY <1>6, FillEnds
<1>7. QED
  BY <1>2, <1>3, <1>4, <1>5, <1>6 DEF AggStep

\* A hazard that a day has met is never forgotten.
LEMMA SpoiltGrows ==
    ASSUME RowTypes, [AggStep]_aggVars
    PROVE  spoilt \subseteq spoilt' /\ torn \subseteq torn'
<1>1. CASE (\E d \in 1 .. LastDay, h \in Hours : RowArrives(d, h)) \/ Midnight \/ Restart \/ Boot
           \/ IngestStarts \/ MaintenanceBegins
  BY <1>1 DEF RowArrives, Midnight, Restart, Boot, IngestStarts, MaintenanceBegins, RowTypes
<1>2. CASE UNCHANGED aggVars
  BY <1>2 DEF aggVars
<1>3. ASSUME NEW p \in Procs, Ends(p) \/ EnsureFails(p) \/ LayoutCurrent(p) \/ LayoutCopies(p)
                               \/ LayoutSwaps(p) \/ LayoutRecorded(p)
      PROVE  spoilt \subseteq spoilt' /\ torn \subseteq torn'
  BY <1>3 DEF Ends, EnsureFails, LayoutCurrent, LayoutCopies, LayoutSwaps, LayoutRecorded, Schema
<1>4. ASSUME NEW p \in Procs, NEW a, NEW flag, NEW ok,
             EnsureBegins(p, a, flag) \/ EnsureTable(p, a) \/ replaceMaterializedView(p)
                \/ EnsureVersion(p) \/ EnsureDrop(p, ok)
      PROVE  spoilt \subseteq spoilt' /\ torn \subseteq torn'
  BY <1>4 DEF EnsureBegins, EnsureTable, replaceMaterializedView, EnsureVersion, EnsureDrop, Schema
<1>5. ASSUME NEW p \in Procs, NEW a, NEW flag, NEW T,
             FillBegins(p, a, flag) \/ InsertHour(p, T) \/ FillStops(p)
      PROVE  spoilt \subseteq spoilt' /\ torn \subseteq torn'
  BY <1>5 DEF FillBegins, InsertHour, FillStops
<1>6. ASSUME NEW skip, Decide(skip)
      PROVE  spoilt \subseteq spoilt' /\ torn \subseteq torn'
  BY <1>6 DEF Decide
<1>7. QED
  BY StepCases, <1>1, <1>2, <1>3, <1>4, <1>5, <1>6

\* A job that goes on keeps the order of the jobs.
LEMMA OrderKept ==
    ASSUME RowTypes, JobTypes, JobTypes', JobOrder, NEW p \in Procs,
           job[p].n # 0, job'[p].n >= job[p].n,
           p = "boot" => job["boot"].n < 12,
           \A q \in Procs \ {p} : job'[q] = job[q],
           ingest' => ingest \/ job'["boot"].n >= 4,
           spoilt \subseteq spoilt'
    PROVE  JobOrder'
<1>1. "boot" \in Procs /\ "maint" \in Procs /\ p \in {"boot", "maint"}
  BY DEF Procs
<1>2. \A q \in Procs : job[q].n \in 0 .. 12 /\ job'[q].n \in 0 .. 12
  BY DEF JobTypes, InsertJobs
<1>3. CASE p = "boot"
  BY <1>1, <1>2, <1>3 DEF JobOrder, AllDays
<1>4. CASE p = "maint"
  BY <1>1, <1>2, <1>4 DEF JobOrder, AllDays
<1>5. QED
  BY <1>1, <1>3, <1>4

\* Every step keeps the jobs typed and in order.
LEMMA JobStep ==
    ASSUME RowTypes, JobTypes, JobOrder, AggStep
    PROVE  JobTypes' /\ JobOrder'
<1>g. spoilt \subseteq spoilt'
  BY SpoiltGrows
<1>p. "boot" \in Procs /\ "maint" \in Procs /\ Procs = {"boot", "maint"}
  BY DEF Procs
<1>n. \A q \in Procs : job[q].n \in 0 .. 12
  BY DEF JobTypes, InsertJobs
<1>o. Off.n = 0 /\ Off.at = "off" /\ Off \in [n : 0 .. 12, at : Places]
  BY DEF Off, Places
<1>s. ASSUME UNCHANGED <<job, ingest>>
      PROVE  JobTypes' /\ JobOrder'
  BY <1>s, <1>g DEF JobTypes, JobOrder, Stage, AllDays
<1>a. ASSUME NEW p \in Procs, NEW kind \in {"logs", "ensure"}, NEW place, At(p, kind, place)
      PROVE  p = "boot" /\ job[p].n \in {1, 2, 4, 5, 6, 7} /\ (kind = "logs" => job[p].n \in {1, 4})
             /\ (kind = "ensure" => job[p].n # 4)
  BY <1>a, StageKinds
<1>b. ASSUME NEW p \in Procs, job[p].n # 0, NEW place \in Places \ {"off"}, Goes(p, place),
             p = "boot" => job["boot"].n < 12, UNCHANGED ingest
      PROVE  JobTypes' /\ JobOrder'
  BY <1>b, <1>g, <1>n, GoesTypes, OrderKept
<1>c. ASSUME NEW p \in Procs, job[p].n # 0, NEW k \in 1 .. 4, Skips(p, k),
             job[p].n + k <= 12, p = "maint" => job[p].n + k <= 3,
             ingest' => ingest \/ job[p].n + k >= 4, p = "boot" \/ UNCHANGED ingest
      PROVE  JobTypes' /\ JobOrder'
  <2>1. /\ JobTypes' /\ job'[p].n = job[p].n + k
        /\ \A q \in Procs \ {p} : job'[q] = job[q]
    BY <1>c, SkipsTypes
  <2>2. QED
    BY <1>c, <1>g, <1>n, <2>1, OrderKept
<1>1. CASE (\E d \in 1 .. LastDay, h \in Hours : RowArrives(d, h)) \/ Midnight
  BY <1>1, <1>s DEF RowArrives, Midnight
<1>2. CASE Restart
  <2>1. job' = [p \in Procs |-> Off] /\ ~ingest'
    BY <1>2 DEF Restart
  <2>2. QED
    BY <2>1, <1>o, <1>p DEF JobTypes, JobOrder
<1>3. CASE Boot
  <2>1. job' = [job EXCEPT !["boot"] = [n |-> 1, at |-> "start"]] /\ job["boot"] = Off
    BY <1>3 DEF Boot
  <2>2. job["maint"].n = 0 /\ ~ingest /\ ingest' = ingest
    BY <1>3, <2>1, <1>o DEF JobOrder, Boot
  <2>3. job'["boot"] = [n |-> 1, at |-> "start"] /\ job'["maint"] = job["maint"]
    BY <2>1, <1>p DEF JobTypes
  <2>4. job' \in [Procs -> [n : 0 .. 12, at : Places] \cup InsertJobs]
    BY <2>1, <1>p DEF JobTypes, Places
  <2>5. JobTypes'
    BY <2>3, <2>4, <1>p DEF JobTypes, Stage
  <2>6. QED
    BY <2>2, <2>3, <2>5 DEF JobOrder
<1>4. CASE IngestStarts
  <2>1. At("boot", "ingest", "start") /\ Skips("boot", 1)
    BY <1>4 DEF IngestStarts
  <2>2. job["boot"].n = 3
    BY <2>1, <1>p, StageKinds
  <2>3. QED
    BY <2>1, <2>2, <1>c, <1>p
<1>5. CASE MaintenanceBegins
  <2>1. /\ job' = [job EXCEPT !["maint"] = [n |-> 1, at |-> "start"]]
        /\ ingest /\ ingest' = ingest /\ job["maint"] = Off
    BY <1>5 DEF MaintenanceBegins
  <2>2. job'["maint"] = [n |-> 1, at |-> "start"] /\ job'["boot"] = job["boot"]
    BY <2>1, <1>p DEF JobTypes
  <2>3. job' \in [Procs -> [n : 0 .. 12, at : Places] \cup InsertJobs]
    BY <2>1, <1>p DEF JobTypes, Places
  <2>4. JobTypes'
    BY <2>2, <2>3, <1>p DEF JobTypes, Stage
  <2>5. job["boot"].n \in 1 .. 12
    BY <2>1, <1>n, <1>p DEF JobOrder
  <2>6. job["boot"].n = 12 \/ AllDays \subseteq spoilt'
    <3>1. CASE Stage("boot") = <<"end">>
      BY <3>1, <2>5, Scripts DEF Stage
    <3>2. CASE Stage("boot") # <<"end">>
      BY <1>5, <3>2 DEF MaintenanceBegins
    <3>3. QED
      BY <3>1, <3>2
  <2>7. QED
    BY <2>1, <2>2, <2>4, <2>5, <2>6 DEF JobOrder, AllDays
<1>6. ASSUME NEW skip \in BOOLEAN, Decide(skip)
      PROVE  JobTypes' /\ JobOrder'
  <2>1. At("boot", "decide", "start") /\ (Skips("boot", 4) \/ Skips("boot", 1)) /\ ingest' = ingest
    BY <1>6 DEF Decide, FillOnly
  <2>2. job["boot"].n \in 1 .. 8
    BY <2>1, <1>p, StageKinds
  <2>3. QED
    BY <2>1, <2>2, <1>c, <1>p
<1>7. ASSUME NEW p \in Procs, Ends(p)
      PROVE  JobTypes' /\ JobOrder'
  <2>1. p = "maint" /\ job' = [job EXCEPT ![p] = Off] /\ ingest' = ingest
    BY <1>7 DEF Ends
  <2>2. job'["maint"] = Off /\ job'["boot"] = job["boot"]
    BY <2>1, <1>p DEF JobTypes
  <2>3. JobTypes'
    BY <2>1, <2>2, <1>p, <1>o DEF JobTypes, Stage
  <2>4. QED
    BY <2>1, <2>2, <2>3, <1>o DEF JobOrder
<1>8. ASSUME NEW p \in Procs, EnsureFails(p)
      PROVE  JobTypes' /\ JobOrder'
  <2>1. At(p, "logs", job[p].at) \/ At(p, "ensure", job[p].at)
    BY <1>8 DEF EnsureFails
  <2>2. CASE Stage(p)[1] = "logs"
    <3>1. Skips(p, 2) /\ ingest' = ingest /\ At(p, "logs", job[p].at)
      BY <1>8, <2>1, <2>2 DEF EnsureFails, At
    <3>2. QED
      BY <3>1, <1>a, <1>c, <1>p
  <2>3. CASE Stage(p)[1] # "logs"
    <3>1. Skips(p, 1) /\ ingest' = ingest
      BY <1>8, <2>3 DEF EnsureFails
    <3>2. QED
      BY <2>1, <3>1, <1>a, <1>c, <1>p
  <2>4. QED
    BY <2>2, <2>3
<1>9. ASSUME NEW p \in Procs, LayoutCurrent(p) \/ LayoutCopies(p) \/ LayoutSwaps(p) \/ LayoutRecorded(p)
      PROVE  JobTypes' /\ JobOrder'
  <2>1. \E place : At(p, "logs", place)
    BY <1>9 DEF LayoutCurrent, LayoutCopies, LayoutSwaps, LayoutRecorded
  <2>2. (Skips(p, 1) \/ Goes(p, "swap") \/ Goes(p, "start")) /\ ingest' = ingest
    BY <1>9 DEF LayoutCurrent, LayoutCopies, LayoutSwaps, LayoutRecorded, Schema
  <2>3. QED
    BY <2>1, <2>2, <1>a, <1>b, <1>c, <1>p DEF Places
<1>10. ASSUME NEW p \in Procs, NEW a, NEW flag, NEW ok,
              EnsureBegins(p, a, flag) \/ EnsureTable(p, a) \/ replaceMaterializedView(p)
                 \/ EnsureVersion(p) \/ EnsureDrop(p, ok)
       PROVE  JobTypes' /\ JobOrder'
  <2>1. \E place : At(p, "ensure", place)
    BY <1>10 DEF EnsureBegins, EnsureTable, replaceMaterializedView, EnsureVersion, EnsureDrop
  <2>2. \/ Skips(p, 1) \/ Goes(p, "table") \/ Goes(p, "view") \/ Goes(p, "version")
        \/ Goes(p, "drop")
    BY <1>10 DEF EnsureBegins, EnsureTable, replaceMaterializedView, EnsureVersion, EnsureDrop
  <2>3. ingest' = ingest
    BY <1>10 DEF EnsureBegins, EnsureTable, replaceMaterializedView, EnsureVersion, EnsureDrop, Schema
  <2>4. QED
    BY <2>1, <2>2, <2>3, <1>a, <1>b, <1>c, <1>p DEF Places
<1>f. ASSUME NEW p \in Procs, NEW place, At(p, "fill", place)
      PROVE  /\ job[p].n # 0 /\ Stage(p)[1] = "fill"
             /\ job[p].n + 1 <= 12 /\ (p = "maint" => job[p].n + 1 <= 3)
             /\ p = "boot" => job["boot"].n < 12
  BY <1>f, <1>n, <1>p, StageKinds
<1>h. ASSUME NEW p \in Procs, job[p].n # 0, Stage(p)[1] = "fill", p = "boot" => job["boot"].n < 12,
             NEW days \in SUBSET (1 .. LastDay), days # {}, InsertsLatest(p, days), UNCHANGED ingest
      PROVE  JobTypes' /\ JobOrder'
  <2>1. JobTypes' /\ job'[p].n = job[p].n /\ \A q \in Procs \ {p} : job'[q] = job[q]
    BY <1>h, LatestTypes
  <2>2. QED
    BY <1>h, <1>g, <1>n, <2>1, OrderKept
<1>11. ASSUME NEW p \in Procs, NEW a \in Tables, NEW flag, FillBegins(p, a, flag)
       PROVE  JobTypes' /\ JobOrder'
  <2>1. At(p, "fill", "start") /\ ingest' = ingest
    BY <1>11 DEF FillBegins, FillOnly
  <2>2. CASE CaughtUp(a)
    <3>1. Skips(p, 1)
      BY <1>11, <2>2 DEF FillBegins
    <3>2. QED
      BY <2>1, <3>1, <1>f, <1>c
  <2>3. CASE ~CaughtUp(a)
    <3>1. InsertsLatest(p, missingClosedPartitionDays(a))
      BY <1>11, <2>3 DEF FillBegins
    <3>2. missingClosedPartitionDays(a) \in SUBSET (1 .. LastDay) /\ missingClosedPartitionDays(a) # {}
      BY <2>3, MissingDays
    <3>3. QED
      BY <2>1, <3>1, <3>2, <1>f, <1>h
  <2>4. QED
    BY <2>2, <2>3
<1>12. ASSUME NEW p \in Procs, NEW T \in SUBSET Tables, InsertHour(p, T)
       PROVE  JobTypes' /\ JobOrder'
  <2> DEFINE later == {h \in Hours : h > job[p].hour}
  <2>1. At(p, "fill", "insert") /\ ingest' = ingest
    BY <1>12 DEF InsertHour, FillOnly
  <2>2. job[p] \in InsertJobs
    BY <2>1 DEF At, JobTypes, Places
  <2>3. CASE later # {}
    <3>1. Inserts(p, job[p].days, job[p].day, Min(later))
      BY <1>12, <2>3 DEF InsertHour
    <3>2. Min(later) \in Hours
      BY <2>2, <2>3, NextHour DEF InsertJobs
    <3>3. job[p].days \in SUBSET (1 .. LastDay) /\ job[p].day \in 1 .. LastDay
      BY <2>2 DEF InsertJobs
    <3>4. job[p].n # 0 /\ Stage(p)[1] = "fill" /\ (p = "boot" => job["boot"].n < 12)
      BY <2>1, <1>f
    <3> HIDE DEF later
    <3>5. JobTypes' /\ job'[p].n = job[p].n /\ \A q \in Procs \ {p} : job'[q] = job[q]
      BY <3>1, <3>2, <3>3, <3>4, InsertsTypes
    <3>6. QED
      BY <2>1, <3>4, <3>5, <1>g, <1>n, OrderKept
  <2>4. CASE later = {} /\ job[p].days # {}
    <3>1. InsertsLatest(p, job[p].days)
      BY <1>12, <2>4 DEF InsertHour
    <3>2. job[p].days \in SUBSET (1 .. LastDay)
      BY <2>2 DEF InsertJobs
    <3>3. QED
      BY <2>1, <2>4, <3>1, <3>2, <1>f, <1>h
  <2>5. CASE later = {} /\ job[p].days = {}
    <3>1. Skips(p, 1)
      BY <1>12, <2>5 DEF InsertHour
    <3>2. QED
      BY <2>1, <3>1, <1>f, <1>c
  <2>6. QED
    BY <2>3, <2>4, <2>5
<1>13. ASSUME NEW p \in Procs, FillStops(p)
       PROVE  JobTypes' /\ JobOrder'
  <2>1. At(p, "fill", job[p].at) /\ ingest' = ingest
    BY <1>13 DEF FillStops, FillOnly
  <2>2. CASE p = "boot"
    <3>1. job[p].n \in {9, 10, 11}
      BY <2>1, <2>2, StageKinds
    <3>2. PICK k \in {1, 12 - job[p].n} : Skips(p, k)
      BY <1>13, <2>2 DEF FillStops
    <3>3. QED
      BY <2>1, <2>2, <3>1, <3>2, <1>c
  <2>3. CASE p # "boot"
    <3>1. p = "maint" /\ job' = [job EXCEPT ![p] = Off]
      BY <1>13, <2>3, <1>p DEF FillStops
    <3>2. job'["maint"] = Off /\ job'["boot"] = job["boot"]
      BY <3>1, <1>p DEF JobTypes
    <3>3. JobTypes'
      BY <3>1, <3>2, <1>p, <1>o DEF JobTypes, Stage
    <3>4. QED
      BY <2>1, <3>1, <3>2, <3>3, <1>o DEF JobOrder
  <2>4. QED
    BY <2>2, <2>3
<1>14. QED
  BY StepCases, <1>1, <1>2, <1>3, <1>4, <1>5, <1>6, <1>7, <1>8, <1>9, <1>10, <1>11, <1>12, <1>13

\* The days before a job are days of the past.
LEMMA JobDaysStep ==
    ASSUME RowTypes, JobTypes, JobTypes', JobDays, AggStep
    PROVE  JobDays'
<1>s. ASSUME today' \in {today, today + 1}, \A p \in Procs : job'[p] = job[p] \/ job'[p].at # "insert"
      PROVE  JobDays'
  <2> SUFFICES ASSUME NEW p \in Procs, job'[p].at = "insert"
               PROVE  /\ job'[p].day < today' /\ job'[p].day \notin job'[p].days
                      /\ \A d \in job'[p].days : d < today'
    BY DEF JobDays
  <2>1. job'[p] = job[p]
    BY <1>s
  <2>2. job[p] \in InsertJobs
    BY <2>1 DEF JobTypes, Places
  <2>3. job[p].day \in Int /\ \A d \in job[p].days : d \in Int
    BY <2>2 DEF InsertJobs
  <2>4. today \in Int
    BY AggAssumption DEF RowTypes
  <2>5. /\ job[p].day < today /\ job[p].day \notin job[p].days
        /\ \A d \in job[p].days : d < today
    BY <2>1 DEF JobDays
  <2>6. \A d \in Int : d < today => d < today'
    BY <1>s, <2>4
  <2>7. QED
    BY <2>1, <2>3, <2>5, <2>6
<1>t. today \in Int
  BY AggAssumption DEF RowTypes
<1>k. ASSUME NEW p \in Procs, NEW place, place # "insert", NEW k,
             Goes(p, place) \/ Skips(p, k) \/ job' = [job EXCEPT ![p] = Off],
             today' = today
      PROVE  JobDays'
  <2>1. job'[p].at # "insert" /\ \A q \in Procs \ {p} : job'[q] = job[q]
    BY <1>k DEF Goes, Skips, JobTypes, Off
  <2>2. QED
    BY <1>k, <1>s, <1>t, <2>1
<1>i. ASSUME NEW p \in Procs, NEW days \in SUBSET (1 .. LastDay), NEW day \in 1 .. LastDay,
             NEW hour, Inserts(p, days, day, hour), today' = today,
             day < today, day \notin days, \A d \in days : d < today
      PROVE  JobDays'
  <2>1. /\ job'[p] = [n |-> job[p].n, at |-> "insert", days |-> days, day |-> day, hour |-> hour]
        /\ \A q \in Procs \ {p} : job'[q] = job[q]
    BY <1>i DEF Inserts, JobTypes
  <2>2. job'[p].day = day /\ job'[p].days = days
    BY <2>1
  <2>3. ASSUME NEW q \in Procs \ {p}, job'[q].at = "insert"
        PROVE  /\ job'[q].day < today' /\ job'[q].day \notin job'[q].days
               /\ \A d \in job'[q].days : d < today'
    <3>1. job'[q] = job[q]
      BY <2>1
    <3>2. QED
      BY <1>i, <2>3, <3>1 DEF JobDays
  <2>4. QED
    BY <1>i, <2>2, <2>3 DEF JobDays
<1>l. ASSUME NEW p \in Procs, NEW days \in SUBSET (1 .. LastDay), days # {},
             InsertsLatest(p, days), today' = today, \A d \in days : d < today
      PROVE  JobDays'
  <2>1. PICK day, rest : day = Max(days) /\ rest = days \ {Max(days)}
    OBVIOUS
  <2>2. day \in 1 .. LastDay /\ rest \in SUBSET (1 .. LastDay) /\ day \in days /\ day \notin rest
    BY <2>1, <1>l, LatestDay
  <2>3. PICK hour : Inserts(p, rest, day, hour)
    BY <1>l, <2>1 DEF InsertsLatest
  <2>4. day < today /\ \A d \in rest : d < today
    BY <1>l, <2>1, <2>2
  <2>5. QED
    BY <1>i, <1>l, <2>2, <2>3, <2>4
<1>1. CASE (\E d \in 1 .. LastDay, h \in Hours : RowArrives(d, h)) \/ Midnight \/ Restart \/ Boot
           \/ IngestStarts \/ MaintenanceBegins
  BY <1>1, <1>s, <1>t DEF RowArrives, Midnight, Restart, Boot, IngestStarts, MaintenanceBegins,
     Skips, Off, JobTypes
<1>2. ASSUME NEW skip, Decide(skip)
      PROVE  JobDays'
  <2>1. (Skips("boot", 4) \/ Skips("boot", 1)) /\ today' = today
    BY <1>2 DEF Decide, FillOnly
  <2>2. QED
    BY <2>1, <1>k DEF Procs
<1>3. ASSUME NEW p \in Procs, Ends(p) \/ EnsureFails(p) \/ LayoutCurrent(p) \/ LayoutCopies(p)
                               \/ LayoutSwaps(p) \/ LayoutRecorded(p) \/ FillStops(p)
      PROVE  JobDays'
  <2>1. /\ \/ \E k : Skips(p, k)
           \/ Goes(p, "swap") \/ Goes(p, "start") \/ job' = [job EXCEPT ![p] = Off]
        /\ today' = today
    BY <1>3 DEF Ends, EnsureFails, LayoutCurrent, LayoutCopies, LayoutSwaps, LayoutRecorded,
       FillStops, Schema, FillOnly
  <2>2. QED
    BY <2>1, <1>k
<1>4. ASSUME NEW p \in Procs, NEW a, NEW flag, NEW ok,
             EnsureBegins(p, a, flag) \/ EnsureTable(p, a) \/ replaceMaterializedView(p)
                \/ EnsureVersion(p) \/ EnsureDrop(p, ok)
      PROVE  JobDays'
  <2>1. /\ \/ Skips(p, 1) \/ Goes(p, "table") \/ Goes(p, "view") \/ Goes(p, "version")
           \/ Goes(p, "drop")
        /\ today' = today
    BY <1>4 DEF EnsureBegins, EnsureTable, replaceMaterializedView, EnsureVersion, EnsureDrop, Schema
  <2>2. QED
    BY <2>1, <1>k
<1>5. ASSUME NEW p \in Procs, NEW a \in Tables, NEW flag, FillBegins(p, a, flag)
      PROVE  JobDays'
  <2>1. CASE CaughtUp(a)
    BY <1>5, <2>1, <1>k DEF FillBegins, FillOnly
  <2>2. CASE ~CaughtUp(a)
    <3>1. InsertsLatest(p, missingClosedPartitionDays(a)) /\ today' = today
      BY <1>5, <2>2 DEF FillBegins, FillOnly
    <3>2. QED
      BY <3>1, <2>2, <1>l, MissingDays
  <2>3. QED
    BY <2>1, <2>2
<1>6. ASSUME NEW p \in Procs, NEW T, InsertHour(p, T)
      PROVE  JobDays'
  <2> DEFINE later == {h \in Hours : h > job[p].hour}
  <2>1. job[p].at = "insert" /\ today' = today
    BY <1>6 DEF InsertHour, FillOnly, At
  <2>2. /\ job[p].days \in SUBSET (1 .. LastDay) /\ job[p].day \in 1 .. LastDay
        /\ job[p].day < today /\ job[p].day \notin job[p].days
        /\ \A d \in job[p].days : d < today
    BY <2>1 DEF JobTypes, Places, InsertJobs, JobDays
  <2>3. CASE later # {}
    <3>1. PICK hour : Inserts(p, job[p].days, job[p].day, hour)
      BY <1>6, <2>3 DEF InsertHour
    <3>2. QED
      BY <1>i, <2>1, <2>2, <3>1
  <2>4. CASE later = {} /\ job[p].days # {}
    <3>1. InsertsLatest(p, job[p].days)
      BY <1>6, <2>4 DEF InsertHour
    <3>2. QED
      BY <1>l, <2>1, <2>2, <2>4, <3>1
  <2>5. CASE later = {} /\ job[p].days = {}
    <3>1. Skips(p, 1)
      BY <1>6, <2>5 DEF InsertHour
    <3>2. QED
      BY <1>k, <2>1, <3>1
  <2>6. QED
    BY <2>3, <2>4, <2>5
<1>7. QED
  BY StepCases, <1>1, <1>2, <1>3, <1>4, <1>5, <1>6

-----------------------------------------------------------------------------
(* The rows *)

\* A row that arrives is the last one, and every table has its count of it.
LEMMA ArrivalTypes ==
    ASSUME RowTypes, NEW d0 \in 1 .. LastDay, NEW h \in Hours, RowArrives(d0, h)
    PROVE  /\ RowTypes'
           /\ DOMAIN born' = DOMAIN born \cup {Len(born) + 1}
           /\ \A i \in DOMAIN born : born'[i] = born[i]
           /\ born'[Len(born) + 1] = <<d0, h>>
           /\ Len(born) + 1 \notin DOMAIN born
           /\ \A a \in Tables : /\ \A i \in DOMAIN born : counted'[a][i] = counted[a][i]
                                /\ counted'[a][Len(born) + 1] = views[a]
<1>1. /\ born' = Append(born, <<d0, h>>) /\ logs' = logs \cup {Len(born) + 1}
      /\ counted' = [a \in Tables |-> Append(counted[a], views[a])]
      /\ spoilt' = spoilt \cup {<<a, d0>> : a \in {b \in Tables : views[b] # 1 \/ d0 # today}}
      /\ UNCHANGED <<today, copy, views, status>>
      /\ d0 = today \/ d0 = today - 1
  BY DEF RowArrives
<1>2. PICK n \in Nat : n = Len(born)
  BY DEF RowTypes
<1>3. /\ DOMAIN born = 1 .. n /\ DOMAIN born' = 1 .. (n + 1)
      /\ \A i \in 1 .. n : born'[i] = born[i]
      /\ born'[n + 1] = <<d0, h>> /\ Len(born') = n + 1
      /\ born' \in Seq((1 .. LastDay) \X Hours)
  BY <1>1, <1>2 DEF RowTypes
<1>4. ASSUME NEW a \in Tables
      PROVE  /\ counted'[a] \in Seq(Nat) /\ Len(counted'[a]) = n + 1
             /\ \A i \in DOMAIN born : counted'[a][i] = counted[a][i]
             /\ counted'[a][n + 1] = views[a]
  <2>1. counted[a] \in Seq(Nat) /\ Len(counted[a]) = n /\ views[a] \in Nat
    BY <1>2 DEF RowTypes
  <2>2. PICK c : c = counted[a]
    OBVIOUS
  <2>3. PICK v : v = views[a]
    OBVIOUS
  <2>4. counted'[a] = Append(c, v)
    BY <1>1, <2>2, <2>3
  <2>5. Append(c, v) \in Seq(Nat) /\ Len(Append(c, v)) = n + 1 /\ Append(c, v)[n + 1] = v
    BY <2>1, <2>2, <2>3
  <2>6. \A i \in 1 .. n : Append(c, v)[i] = c[i]
    BY <2>1, <2>2, <2>3
  <2>7. QED
    BY <1>3, <2>2, <2>3, <2>4, <2>5, <2>6
<1>5. counted' \in [Tables -> Seq(Nat)]
  BY <1>1, <1>4
<1>6. d0 <= today /\ today \in Int
  BY <1>1, AggAssumption DEF RowTypes
<1>7. \A i \in DOMAIN born' : born'[i][1] <= today'
  BY <1>1, <1>3, <1>6 DEF RowTypes
<1>8. 1 .. n \subseteq 1 .. (n + 1) /\ n + 1 \in 1 .. (n + 1) /\ n + 1 \notin 1 .. n
      /\ 1 .. (n + 1) = (1 .. n) \cup {n + 1}
  OBVIOUS
<1>9. logs' \subseteq DOMAIN born' /\ copy' \subseteq logs'
  BY <1>1, <1>2, <1>3, <1>8 DEF RowTypes
<1>10. spoilt' \subseteq AllDays
  BY <1>1 DEF RowTypes, AllDays
<1>11. RowTypes'
  BY <1>1, <1>3, <1>4, <1>5, <1>7, <1>9, <1>10 DEF RowTypes
<1>12. QED
  BY <1>2, <1>3, <1>4, <1>8, <1>11

\* A table that is replaced counts nothing.
LEMMA TableTypes ==
    ASSUME RowTypes, NEW p \in Procs, NEW a \in Tables, EnsureTable(p, a)
    PROVE  /\ RowTypes'
           /\ \A b \in Tables \ {a} : counted'[b] = counted[b]
           /\ \/ counted' = counted /\ spoilt' = spoilt
              \/ (\A i \in DOMAIN born : counted'[a][i] = 0) /\ <<a, today>> \in spoilt'
<1>1. UNCHANGED <<today, born, logs, copy, views, status>>
  BY DEF EnsureTable, Schema
<1>2. CASE NeedsRebuild(a)
  <2>1. /\ counted' = [counted EXCEPT ![a] = [i \in DOMAIN @ |-> 0]]
        /\ spoilt' = spoilt \cup {<<a, today>>}
    BY <1>2 DEF EnsureTable
  <2>2. counted \in [Tables -> Seq(Nat)] /\ Len(counted[a]) = Len(born) /\ Len(born) \in Nat
    BY DEF RowTypes
  <2>3. counted'[a] = [i \in 1 .. Len(born) |-> 0] /\ \A b \in Tables \ {a} : counted'[b] = counted[b]
    BY <2>1, <2>2
  <2>4. [i \in 1 .. Len(born) |-> 0] \in [1 .. Len(born) -> Nat]
    OBVIOUS
  <2>5. counted'[a] \in Seq(Nat) /\ Len(counted'[a]) = Len(born)
    BY <2>2, <2>3, <2>4, FunctionIsSeq
  <2>6. counted' \in [Tables -> Seq(Nat)]
    BY <2>1, <2>2, <2>5
  <2>7. today \in 1 .. LastDay
    BY AggAssumption DEF RowTypes
  <2>8. RowTypes'
    BY <1>1, <2>1, <2>2, <2>3, <2>5, <2>6, <2>7 DEF RowTypes, AllDays
  <2>9. \A i \in DOMAIN born : counted'[a][i] = 0
    BY <2>3 DEF RowTypes
  <2>10. QED
    BY <2>1, <2>3, <2>8, <2>9
<1>3. CASE ~NeedsRebuild(a)
  <2>1. UNCHANGED <<counted, spoilt>>
    BY <1>3 DEF EnsureTable
  <2>2. QED
    BY <1>1, <2>1 DEF RowTypes
<1>4. QED
  BY <1>2, <1>3

\* The insert of an hour counts its rows once more.
LEMMA HourTypes ==
    ASSUME RowTypes, NEW p \in Procs, NEW a \in Tables, Stage(p)[2] = a,
           NEW T, InsertHour(p, T)
    PROVE  /\ RowTypes'
           /\ \A b \in Tables \ {a} : counted'[b] = counted[b] /\ status'[b] = status[b]
           /\ \A i \in DOMAIN born :
                 counted'[a][i] = IF i \in RowsAt(job[p].day, job[p].hour)
                                  THEN counted[a][i] + 1 ELSE counted[a][i]
           /\ status'[a] = "ready" \/ status'[a] = status[a]
<1> DEFINE new == RowsAt(job[p].day, job[p].hour)
<1>1. /\ UNCHANGED <<today, born, logs, copy, views, spoilt>>
      /\ counted' = [counted EXCEPT ![a] = [i \in DOMAIN @ |-> IF i \in new THEN @[i] + 1 ELSE @[i]]]
      /\ status' = status \/ status' = [status EXCEPT ![a] = "ready"]
  BY DEF InsertHour, FillOnly
<1> HIDE DEF new
<1>2. /\ counted \in [Tables -> Seq(Nat)] /\ Len(counted[a]) = Len(born) /\ Len(born) \in Nat
      /\ \A i \in 1 .. Len(born) : counted[a][i] \in Nat
      /\ status \in [Tables -> Flags]
  BY DEF RowTypes
<1>3. /\ counted'[a] = [i \in 1 .. Len(born) |-> IF i \in new THEN counted[a][i] + 1 ELSE counted[a][i]]
      /\ \A b \in Tables \ {a} : counted'[b] = counted[b]
  BY <1>1, <1>2
<1>4. counted'[a] \in [1 .. Len(born) -> Nat]
  BY <1>2, <1>3
<1>5. counted'[a] \in Seq(Nat) /\ Len(counted'[a]) = Len(born)
  BY <1>2, <1>4, FunctionIsSeq
<1>6. counted' \in [Tables -> Seq(Nat)]
  BY <1>1, <1>2, <1>5
<1>7. /\ status' \in [Tables -> Flags] /\ \A b \in Tables \ {a} : status'[b] = status[b]
      /\ status'[a] = "ready" \/ status'[a] = status[a]
  BY <1>1, <1>2 DEF Flags
<1>8. RowTypes'
  BY <1>1, <1>2, <1>3, <1>5, <1>6, <1>7 DEF RowTypes
<1>9. DOMAIN born = 1 .. Len(born)
  BY DEF RowTypes
<1>10. QED
  BY <1>3, <1>7, <1>8, <1>9 DEF new

\* Every step keeps the rows and their counts typed.
LEMMA RowStep ==
    ASSUME RowTypes, JobTypes, AggStep
    PROVE  RowTypes'
<1>s. ASSUME UNCHANGED <<born, counted, spoilt>>, today' = today, logs' \subseteq logs, copy' \subseteq logs',
             views' \in [Tables -> Nat], status' \in [Tables -> Flags]
      PROVE  RowTypes'
  BY <1>s DEF RowTypes
<1>t. today \in Int /\ views \in [Tables -> Nat] /\ status \in [Tables -> Flags]
  BY AggAssumption DEF RowTypes
<1>f. /\ "ready" \in Flags /\ "pending" \in Flags /\ "error" \in Flags /\ "running" \in Flags
  BY DEF Flags
<1>1. ASSUME NEW d \in 1 .. LastDay, NEW h \in Hours, RowArrives(d, h)
      PROVE  RowTypes'
  BY <1>1, ArrivalTypes
<1>2. CASE Midnight
  <2>1. /\ UNCHANGED <<born, logs, copy, counted, views, status, spoilt>>
        /\ today' = today + 1 /\ today < LastDay
    BY <1>2 DEF Midnight
  <2>2. \A i \in DOMAIN born : born[i][1] \in 1 .. LastDay /\ born[i][1] <= today
    BY DEF RowTypes
  <2>3. today' \in FirstToday .. LastDay /\ \A i \in DOMAIN born : born[i][1] <= today'
    BY <2>1, <2>2, <1>t, AggAssumption DEF RowTypes
  <2>4. QED
    BY <2>1, <2>3 DEF RowTypes
<1>3. CASE Restart \/ Boot \/ IngestStarts
  BY <1>3, <1>s, <1>t, <1>f DEF Restart, Boot, IngestStarts, RowTypes
<1>4. CASE MaintenanceBegins
  BY <1>4 DEF MaintenanceBegins, RowTypes
<1>5. ASSUME NEW skip, Decide(skip)
      PROVE  RowTypes'
  <2>1. /\ UNCHANGED <<today, born, logs, copy, counted, views, spoilt>>
        /\ status' = status \/ \E x, y, z \in {"ready", "pending"} : status' = [edges |-> x, geo |-> y, hourly |-> z]
    BY <1>5, Zenon DEF Decide, FillOnly, RefreshEdgesAggReady, RefreshGeoEdgesAggReady, RefreshHourlyEdgesAggReady
  <2>2. status' \in [Tables -> Flags]
    BY <2>1, <1>t DEF Tables, Flags
  <2>3. QED
    BY <2>1, <2>2 DEF RowTypes
<1>6. ASSUME NEW p \in Procs, Ends(p) \/ LayoutCurrent(p) \/ LayoutCopies(p) \/ LayoutRecorded(p)
      PROVE  RowTypes'
  BY <1>6 DEF Ends, LayoutCurrent, LayoutCopies, LayoutRecorded, Schema, RowTypes
<1>7. ASSUME NEW p \in Procs, LayoutSwaps(p)
      PROVE  RowTypes'
  <2>1. /\ logs' = copy /\ copy' = {} /\ UNCHANGED <<today, born, counted, views, status>>
        /\ spoilt' = spoilt \cup {<<a, d>> : a \in Tables, d \in Days(logs \ copy)}
    BY <1>7 DEF LayoutSwaps, Schema
  <2>2. Days(logs \ copy) \subseteq 1 .. LastDay
    BY DEF RowTypes, Days
  <2> HIDE DEF Days
  <2>3. spoilt' \subseteq AllDays
    <3> SUFFICES ASSUME NEW t \in spoilt', t \notin spoilt PROVE t \in AllDays
      BY DEF RowTypes
    <3>1. PICK a \in Tables, d \in Days(logs \ copy) : t = <<a, d>>
      BY <2>1
    <3>2. QED
      BY <2>2, <3>1 DEF AllDays
  <2>4. logs' \subseteq DOMAIN born /\ copy' \subseteq logs'
    BY <2>1 DEF RowTypes
  <2>5. QED
    BY <2>1, <2>3, <2>4 DEF RowTypes
<1>8. ASSUME NEW p \in Procs, EnsureFails(p)
      PROVE  RowTypes'
  <2>1. /\ UNCHANGED <<today, born, logs, counted, spoilt>> /\ copy' = {}
        /\ status' = status \/ \E a : status' = [status EXCEPT ![a] = IF a = "edges" THEN "error" ELSE "pending"]
        /\ views' = views \/ \E a : views' = [views EXCEPT ![a] = 1]
    BY <1>8 DEF EnsureFails
  <2>2. status' \in [Tables -> Flags]
    BY <2>1, <1>t, <1>f
  <2>3. views' \in [Tables -> Nat]
    BY <2>1, <1>t
  <2>4. QED
    BY <2>1, <2>2, <2>3 DEF RowTypes
<1>9. ASSUME NEW p \in Procs, NEW a \in Tables, NEW flag \in {"running", "pending"}, EnsureBegins(p, a, flag)
      PROVE  RowTypes'
  BY <1>9, <1>s, <1>t, <1>f DEF EnsureBegins, RowTypes, Schema
<1>10. ASSUME NEW p \in Procs, NEW a \in Tables, EnsureTable(p, a)
       PROVE  RowTypes'
  BY <1>10, TableTypes
<1>11. ASSUME NEW p \in Procs, NEW ok, replaceMaterializedView(p) \/ EnsureVersion(p) \/ EnsureDrop(p, ok)
       PROVE  RowTypes'
  <2>1. /\ UNCHANGED <<today, born, logs, copy, counted, spoilt>>
        /\ status' = status \/ \E a : status' = [status EXCEPT ![a] = "pending"]
        /\ views' = views \/ \E a, v : v \in {0, 1, 2, views[a]} /\ views' = [views EXCEPT ![a] = v]
    BY <1>11 DEF replaceMaterializedView, EnsureVersion, EnsureDrop, Schema
  <2>2. status' \in [Tables -> Flags]
    BY <2>1, <1>t, <1>f
  <2>3. views' \in [Tables -> Nat]
    BY <2>1, <1>t
  <2>4. QED
    BY <2>1, <2>2, <2>3 DEF RowTypes
<1>12. ASSUME NEW p \in Procs, NEW a \in Tables, NEW flag \in {"running", status[a]}, FillBegins(p, a, flag)
       PROVE  RowTypes'
  <2>1. /\ UNCHANGED <<today, born, logs, copy, counted, views, spoilt>>
        /\ status' = [status EXCEPT ![a] = "ready"] \/ status' = [status EXCEPT ![a] = flag]
    BY <1>12 DEF FillBegins, FillOnly
  <2>2. status' \in [Tables -> Flags]
    BY <2>1, <1>t, <1>f
  <2>3. QED
    BY <2>1, <2>2 DEF RowTypes
<1>13. ASSUME NEW p \in Procs, NEW T \in SUBSET Tables, InsertHour(p, T)
       PROVE  RowTypes'
  BY <1>13, HourTypes DEF InsertHour
<1>14. ASSUME NEW p \in Procs, FillStops(p)
       PROVE  RowTypes'
  <2>1. /\ UNCHANGED <<today, born, logs, copy, counted, views, spoilt>>
        /\ status' \in [Tables -> Flags]
    BY <1>14, <1>t, <1>f DEF FillStops, FillOnly
  <2>2. QED
    BY <2>1 DEF RowTypes
<1>15. QED
  BY StepCases, <1>1, <1>2, <1>3, <1>4, <1>5, <1>6, <1>7, <1>8, <1>9, <1>10, <1>11, <1>12, <1>13, <1>14

\* A row is lost only when a day of it counts as met by a hazard.
LEMMA LostStep ==
    ASSUME RowTypes, LostAreSpoilt, AggStep
    PROVE  LostAreSpoilt'
<1>g. spoilt \subseteq spoilt'
  BY SpoiltGrows
<1>s. ASSUME UNCHANGED <<born, logs>>
      PROVE  LostAreSpoilt'
  BY <1>s, <1>g DEF LostAreSpoilt
<1>1. ASSUME NEW d \in 1 .. LastDay, NEW h \in Hours, RowArrives(d, h)
      PROVE  LostAreSpoilt'
  <2>1. DOMAIN born' = DOMAIN born \cup {Len(born) + 1} /\ \A i \in DOMAIN born : born'[i] = born[i]
    BY <1>1, ArrivalTypes
  <2>2. logs' = logs \cup {Len(born) + 1}
    BY <1>1 DEF RowArrives
  <2>3. \A i \in DOMAIN born' \ logs' : i \in DOMAIN born \ logs /\ born'[i] = born[i]
    BY <2>1, <2>2
  <2>4. QED
    BY <2>3, <1>g DEF LostAreSpoilt
<1>2. ASSUME NEW p \in Procs, LayoutSwaps(p)
      PROVE  LostAreSpoilt'
  <2>1. /\ logs' = copy /\ born' = born
        /\ spoilt' = spoilt \cup {<<a, d>> : a \in Tables, d \in Days(logs \ copy)}
    BY <1>2 DEF LayoutSwaps, Schema
  <2>2. ASSUME NEW i \in DOMAIN born \ copy, NEW a \in Tables
        PROVE  <<a, born[i][1]>> \in spoilt'
    <3>1. CASE i \in logs
      <4>1. born[i][1] \in Days(logs \ copy)
        BY <3>1 DEF Days
      <4>2. QED
        BY <2>1, <4>1
    <3>2. CASE i \notin logs
      BY <3>2, <1>g DEF LostAreSpoilt
    <3>3. QED
      BY <3>1, <3>2
  <2>3. QED
    BY <2>1, <2>2 DEF LostAreSpoilt
<1>3. CASE Midnight \/ Restart \/ Boot \/ IngestStarts \/ MaintenanceBegins
  BY <1>3, <1>s DEF Midnight, Restart, Boot, IngestStarts, MaintenanceBegins
<1>4. ASSUME NEW p \in Procs, Ends(p) \/ EnsureFails(p) \/ LayoutCurrent(p) \/ LayoutCopies(p)
                                 \/ LayoutRecorded(p) \/ FillStops(p)
      PROVE  LostAreSpoilt'
  BY <1>4, <1>s DEF Ends, EnsureFails, LayoutCurrent, LayoutCopies, LayoutRecorded, Schema,
     FillStops, FillOnly
<1>5. ASSUME NEW p \in Procs, NEW a, NEW flag, NEW ok,
             EnsureBegins(p, a, flag) \/ EnsureTable(p, a) \/ replaceMaterializedView(p)
                \/ EnsureVersion(p) \/ EnsureDrop(p, ok)
      PROVE  LostAreSpoilt'
  BY <1>5, <1>s DEF EnsureBegins, EnsureTable, replaceMaterializedView, EnsureVersion, EnsureDrop, Schema
<1>6. ASSUME NEW p \in Procs, NEW a, NEW flag, NEW T, FillBegins(p, a, flag) \/ InsertHour(p, T)
      PROVE  LostAreSpoilt'
  BY <1>6, <1>s DEF FillBegins, InsertHour, FillOnly
<1>7. ASSUME NEW skip, Decide(skip)
      PROVE  LostAreSpoilt'
  BY <1>7, <1>s DEF Decide, FillOnly
<1>8. QED
  BY StepCases, <1>1, <1>2, <1>3, <1>4, <1>5, <1>6, <1>7

\* While one job changes a schema, no other is at work on days that count.
LEMMA OneAtWork ==
    ASSUME JobTypes, JobOrder, NEW p \in Procs, NEW q \in Procs \ {p},
           job[p].n # 0, job["boot"].n # 0 => job["boot"].n < 12 \/ job["boot"].at = "insert",
           job[q].n # 0
    PROVE  AllDays \subseteq spoilt
<1>1. job["boot"].n # 0 /\ job["maint"].n # 0
  <2>1. (p = "boot" /\ q = "maint") \/ (p = "maint" /\ q = "boot")
    BY DEF Procs
  <2>2. QED
    BY <2>1
<1>2. job["boot"].at = "insert" => job["boot"].n # 12
  <2>1. SUFFICES ASSUME job["boot"].at = "insert", job["boot"].n = 12 PROVE FALSE
    OBVIOUS
  <2>2. "boot" \in Procs
    BY DEF Procs
  <2>3. Stage("boot")[1] = "fill"
    BY <2>1, <2>2 DEF JobTypes
  <2>4. Script("boot")[12][1] = "fill"
    BY <2>1, <2>3 DEF Stage
  <2>5. QED
    BY <2>4, Scripts
<1>3. job["boot"].n \in 0 .. 12
  BY DEF JobTypes, InsertJobs, Procs
<1>4. QED
  BY <1>1, <1>2, <1>3 DEF JobOrder

\* A schema is changed under a flag that is down.
LEMMA SchemaStep ==
    ASSUME RowTypes, JobTypes, JobOrder, SchemaIsDown, AggStep
    PROVE  SchemaIsDown'
<1> DEFINE Changing == {"table", "view", "drop", "version"}
<1>g. spoilt \subseteq spoilt'
  BY SpoiltGrows
<1>n. \A q \in Procs : job[q].n \in 0 .. 12 /\ (job[q].at \in Changing => job[q].n # 0)
  BY DEF JobTypes, InsertJobs
<1>r. status \in [Tables -> Flags]
  BY DEF RowTypes
<1>k. ASSUME \A q \in Procs : job'[q].at \in Changing =>
                \/ job'[q] = job[q]
                \/ /\ job'[q].n = job[q].n
                   /\ job[q].at \in Changing,
             \A q \in Procs : job'[q].at \in Changing /\ Stage(q)[1] = "ensure"
                /\ status'[Stage(q)[2]] = "ready" =>
                     status[Stage(q)[2]] = "ready" \/ AllDays \subseteq spoilt'
      PROVE  SchemaIsDown'
  <2> SUFFICES ASSUME NEW q \in Procs, job'[q].at \in Changing
               PROVE  /\ Stage(q)'[1] = "ensure"
                      /\ status'[Stage(q)'[2]] # "ready" \/ AllDays' \subseteq spoilt'
    BY DEF SchemaIsDown
  <2>1. job[q].at \in Changing /\ Stage(q)' = Stage(q)
    BY <1>k DEF Stage
  <2>2. Stage(q)[1] = "ensure" /\ (status[Stage(q)[2]] # "ready" \/ AllDays \subseteq spoilt)
    BY <2>1 DEF SchemaIsDown
  <2>3. AllDays' = AllDays
    BY DEF AllDays
  <2>4. CASE AllDays \subseteq spoilt
    BY <2>1, <2>2, <2>3, <2>4, <1>g
  <2>5. CASE status[Stage(q)[2]] # "ready"
    BY <2>1, <2>2, <2>3, <2>5, <1>k, Zenon
  <2>6. QED
    BY <2>2, <2>4, <2>5
<1>q. ASSUME job' = job, status' = status
      PROVE  SchemaIsDown'
  <2>1. \A q \in Procs : job'[q] = job[q]
    BY <1>q
  <2>2. QED
    BY <2>1, <1>q, <1>k
<1>1. CASE (\E d \in 1 .. LastDay, h \in Hours : RowArrives(d, h)) \/ Midnight
  BY <1>1, <1>q DEF RowArrives, Midnight
<1>2. CASE Restart \/ Boot \/ IngestStarts \/ MaintenanceBegins
  <2>1. \A q \in Procs : job'[q] = job[q] \/ job'[q].at \notin Changing
    BY <1>2 DEF Restart, Boot, IngestStarts, MaintenanceBegins, Skips, Off, JobTypes
  <2>2. status' = status \/ status' = [a \in Tables |-> "pending"]
    BY <1>2 DEF Restart, Boot, IngestStarts, MaintenanceBegins
  <2>3. ASSUME NEW q \in Procs, job'[q].at \in Changing, Stage(q)[1] = "ensure",
               status'[Stage(q)[2]] = "ready"
        PROVE  status[Stage(q)[2]] = "ready"
    <3>1. job[q].n # 0 /\ At(q, "ensure", job[q].at)
      BY <2>1, <2>3, <1>n DEF At
    <3>2. Stage(q)[2] \in Tables
      BY <3>1, StageKinds
    <3>3. QED
      BY <2>2, <2>3, <3>2
  <2>4. QED
    BY <2>1, <2>3, <1>k
<1>w. ASSUME NEW p \in Procs, NEW place, place \notin Changing,
             job'[p].at = place, \A q \in Procs \ {p} : job'[q] = job[q],
             \A a \in Tables : status'[a] = "ready" => status[a] = "ready" \/ p # "boot"
                                                      \/ job["boot"].n \notin {2, 5, 6, 7},
             job[p].n # 0
      PROVE  SchemaIsDown'
  <2>1. ASSUME NEW q \in Procs, job'[q].at \in Changing, Stage(q)[1] = "ensure",
               status'[Stage(q)[2]] = "ready"
        PROVE  status[Stage(q)[2]] = "ready" \/ AllDays \subseteq spoilt'
    <3>1. q # p /\ job'[q] = job[q]
      BY <1>w, <2>1
    <3>2. job[q].n # 0 /\ At(q, "ensure", job[q].at)
      BY <2>1, <3>1, <1>n DEF At
    <3>3. q = "boot" /\ job["boot"].n \in {2, 5, 6, 7} /\ Stage(q)[2] \in Tables
      BY <3>2, StageKinds
    <3>4. AllDays \subseteq spoilt
      <4>1. job["boot"].n # 0 => job["boot"].n < 12 \/ job["boot"].at = "insert"
        BY <3>3
      <4>2. q \in Procs \ {p} /\ job[p].n # 0 /\ job[q].n # 0
        BY <1>w, <3>1, <3>2
      <4>3. QED
        BY <4>1, <4>2, OneAtWork
    <3>5. QED
      BY <3>4, <1>g
  <2>2. QED
    BY <1>w, <2>1, <1>k
<1>3. ASSUME NEW skip, Decide(skip)
      PROVE  SchemaIsDown'
  <2>1. At("boot", "decide", "start") /\ (Skips("boot", 4) \/ Skips("boot", 1))
    BY <1>3 DEF Decide
  <2>2. job'["boot"].at = "start" /\ \A q \in Procs \ {"boot"} : job'[q] = job[q]
    BY <2>1 DEF Skips, JobTypes, Procs
  <2>3. job["boot"].n \in 1 .. 12 /\ Stage("boot")[1] = "decide"
    BY <2>1, StageKinds DEF Procs
  <2>4. job["boot"].n \notin {2, 5, 6, 7}
    BY <2>3, Scripts DEF Stage
  <2>5. QED
    BY <2>2, <2>3, <2>4, <1>w DEF Procs
<1>4. ASSUME NEW p \in Procs, Ends(p) \/ EnsureFails(p) \/ LayoutCurrent(p) \/ LayoutCopies(p)
                               \/ LayoutSwaps(p) \/ LayoutRecorded(p) \/ FillStops(p)
      PROVE  SchemaIsDown'
  <2>1. /\ \/ \E k : Skips(p, k)
           \/ Goes(p, "swap") \/ Goes(p, "start") \/ job' = [job EXCEPT ![p] = Off]
        /\ job[p].n > 0
    BY <1>4 DEF Ends, EnsureFails, LayoutCurrent, LayoutCopies, LayoutSwaps, LayoutRecorded,
       FillStops, At
  <2>2. job'[p].at \notin Changing /\ \A q \in Procs \ {p} : job'[q] = job[q]
    BY <2>1 DEF Goes, Skips, JobTypes, Off
  <2>3. \A a \in Tables : status'[a] = "ready" => status[a] = "ready"
    <3>1. CASE EnsureFails(p)
      <4>1. \/ status' = status
            \/ \E a : status' = [status EXCEPT ![a] = IF a = "edges" THEN "error" ELSE "pending"]
        BY <3>1 DEF EnsureFails
      <4>2. QED
        BY <4>1, <1>r
    <3>2. CASE FillStops(p)
      BY <3>2 DEF FillStops
    <3>3. CASE ~EnsureFails(p) /\ ~FillStops(p)
      BY <1>4, <3>3 DEF Ends, LayoutCurrent, LayoutCopies, LayoutSwaps, LayoutRecorded
    <3>4. QED
      BY <3>1, <3>2, <3>3
  <2>4. job[p].n # 0
    BY <2>1, <1>n
  <2>5. QED
    BY <2>2, <2>3, <2>4, <1>w
<1>5. ASSUME NEW p \in Procs, NEW a \in Tables, NEW flag \in {"running", "pending"},
             EnsureBegins(p, a, flag)
      PROVE  SchemaIsDown'
  <2>1. /\ At(p, "ensure", "start") /\ Stage(p)[2] = a /\ Stage(p)[1] = "ensure"
        /\ status' = [status EXCEPT ![a] = IF needsSchemaDDL(a) THEN flag ELSE "pending"]
        /\ Goes(p, "table") \/ Skips(p, 1)
    BY <1>5 DEF EnsureBegins, At
  <2>2. status'[a] # "ready" /\ \A b \in Tables : status'[b] = "ready" => status[b] = "ready"
    BY <2>1, <1>r
  <2>3. job[p].n # 0 /\ job[p].n \in 1 .. 12
    BY <2>1, StageKinds
  <2>4. CASE Skips(p, 1)
    <3>1. job'[p].at = "start" /\ \A q \in Procs \ {p} : job'[q] = job[q]
      BY <2>4 DEF Skips, JobTypes
    <3>2. QED
      BY <2>2, <2>3, <3>1, <1>w
  <2>5. CASE Goes(p, "table")
    <3>1. /\ job'[p].n = job[p].n
          /\ \A q \in Procs \ {p} : job'[q] = job[q]
      BY <2>3, <2>5, GoesTypes DEF Places
    <3> SUFFICES ASSUME NEW q \in Procs, job'[q].at \in Changing
                 PROVE  /\ Stage(q)'[1] = "ensure"
                        /\ status'[Stage(q)'[2]] # "ready" \/ AllDays' \subseteq spoilt'
      BY DEF SchemaIsDown
    <3>2. CASE q = p
      <4>1. Stage(q)' = Stage(p)
        BY <3>1, <3>2 DEF Stage
      <4>2. QED
        BY <4>1, <2>1, <2>2
    <3>3. CASE q # p
      <4>1. job'[q] = job[q] /\ Stage(q)' = Stage(q)
        BY <3>1, <3>3 DEF Stage
      <4>2. Stage(q)[1] = "ensure" /\ job[q].n # 0
        BY <4>1, <1>n DEF SchemaIsDown
      <4>3. At(q, "ensure", job[q].at)
        BY <4>2, <1>n DEF At
      <4>4. q = "boot" /\ p = "boot"
        BY <4>3, <2>1, StageKinds
      <4>5. QED
        BY <3>3, <4>4
    <3>4. QED
      BY <3>2, <3>3
  <2>6. QED
    BY <2>1, <2>4, <2>5
<1>6. ASSUME NEW p \in Procs, NEW a, NEW ok,
             EnsureTable(p, a) \/ replaceMaterializedView(p) \/ EnsureDrop(p, ok)
      PROVE  SchemaIsDown'
  <2>1. /\ job[p].n > 0 /\ job[p].at \in Changing /\ status' = status
        /\ Goes(p, "view") \/ Goes(p, "version") \/ Goes(p, "drop")
    BY <1>6 DEF EnsureTable, replaceMaterializedView, EnsureDrop, At
  <2>2. job'[p].n = job[p].n /\ \A q \in Procs \ {p} : job'[q] = job[q]
    BY <2>1, <1>n, GoesTypes DEF Places
  <2>3. QED
    BY <2>1, <2>2, <1>k
<1>7. ASSUME NEW p \in Procs, EnsureVersion(p)
      PROVE  SchemaIsDown'
  <2>1. /\ job[p].n > 0 /\ Skips(p, 1)
        /\ \E a : status' = [status EXCEPT ![a] = "pending"]
    BY <1>7 DEF EnsureVersion, At
  <2>2. job'[p].at = "start" /\ (\A q \in Procs \ {p} : job'[q] = job[q])
        /\ \A b \in Tables : status'[b] = "ready" => status[b] = "ready"
    BY <2>1, <1>r DEF Skips, JobTypes
  <2>3. job[p].n # 0
    BY <2>1, <1>n
  <2>4. QED
    BY <2>2, <2>3, <1>w
<1>8. ASSUME NEW p \in Procs, NEW a, NEW flag, NEW T, FillBegins(p, a, flag) \/ InsertHour(p, T)
      PROVE  SchemaIsDown'
  <2>1. \E place : At(p, "fill", place)
    BY <1>8 DEF FillBegins, InsertHour
  <2>2. job[p].n \in 1 .. 12 /\ Stage(p)[1] = "fill"
    BY <2>1, StageKinds
  <2>3. p # "boot" \/ job["boot"].n \notin {2, 5, 6, 7}
    BY <2>2, Scripts DEF Stage
  <2>4. Skips(p, 1) \/ \E days, day, hour : Inserts(p, days, day, hour)
    BY <1>8 DEF FillBegins, InsertHour, InsertsLatest
  <2>5. job'[p].at \in {"start", "insert"} /\ \A q \in Procs \ {p} : job'[q] = job[q]
    BY <2>4 DEF Skips, Inserts, JobTypes
  <2>6. QED
    BY <2>2, <2>3, <2>5, <1>w
<1>9. QED
  BY StepCases, <1>1, <1>2, <1>3, <1>4, <1>5, <1>6, <1>7, <1>8

-----------------------------------------------------------------------------
(* The days of a table *)

\* A step that leaves the days of a table as they are, or lets a job of it break
\* off where the day is still empty, keeps what is known of them.
LEMMA TableKept ==
    ASSUME NEW a \in Tables, TableKnown(a), today' = today,
           \A d \in 1 .. LastDay : Clean(a, d)' => Clean(a, d),
           \A d \in 1 .. LastDay : Clean(a, d)' /\ Exact(a, d) => Exact(a, d)',
           \A d \in 1 .. LastDay : Clean(a, d)' /\ d < today /\ Empty(a, d) => Empty(a, d)',
           \A p \in Procs : Filling(p, a)' => Filling(p, a) /\ job'[p] = job[p],
           \A p \in Procs, d \in 1 .. LastDay : Filling(p, a) /\ job[p].day = d =>
              \/ /\ Filling(p, a)'
                 /\ job'[p] = job[p]
              \/ Clean(a, d)' => Empty(a, d)',
           \A p \in Procs, d \in 1 .. LastDay :
              Filling(p, a) /\ job[p].day = d /\ job'[p] = job[p] /\ Clean(a, d)' /\ Half(p, a)
                 => Half(p, a)',
           \A p \in Procs : Filling(p, a) =>
              /\ job[p].day \in 1 .. LastDay /\ job[p].days \subseteq 1 .. LastDay
              /\ job[p].day < today
              /\ \A d \in job[p].days : d < today,
           status'[a] = "ready" => status[a] = "ready"
    PROVE  TableKnown(a)'
<1>1. DaysKnown(a)'
  <2> SUFFICES ASSUME NEW d \in 1 .. LastDay, Clean(a, d)'
               PROVE  \/ Exact(a, d)'
                      \/ d < today /\ Empty(a, d)'
                      \/ d < today /\ \E p \in Procs : Filling(p, a)' /\ job'[p].day = d
    BY DEF DaysKnown
  <2>1. CASE Exact(a, d)
    BY <2>1
  <2>2. CASE d < today /\ Empty(a, d)
    BY <2>2
  <2>3. ASSUME NEW p \in Procs, Filling(p, a), job[p].day = d, d < today
        PROVE  \/ d < today /\ Empty(a, d)'
               \/ d < today /\ \E q \in Procs : Filling(q, a)' /\ job'[q].day = d
    <3>1. CASE Filling(p, a)' /\ job'[p] = job[p]
      BY <2>3, <3>1
    <3>2. CASE Clean(a, d)' => Empty(a, d)'
      BY <2>3, <3>2
    <3>3. QED
      BY <2>3, <3>1, <3>2
  <2>4. Clean(a, d)
    OBVIOUS
  <2>5. QED
    BY <2>1, <2>2, <2>3, <2>4 DEF TableKnown, DaysKnown
<1>2. FillKnown(a)'
  <2> SUFFICES ASSUME NEW p \in Procs, Filling(p, a)'
               PROVE  /\ Clean(a, job[p].day)' => Half(p, a)'
                      /\ \A d \in job'[p].days : Clean(a, d)' => Empty(a, d)'
                      /\ \A d \in 1 .. LastDay :
                            Clean(a, d)' /\ d < today /\ InWindow(a, d)'
                            /\ d # job'[p].day /\ d \notin job'[p].days => Exact(a, d)'
    BY DEF FillKnown
  <2>1. Filling(p, a) /\ job'[p] = job[p]
    OBVIOUS
  <2>2. /\ Clean(a, job[p].day) => Half(p, a)
        /\ \A d \in job[p].days : Clean(a, d) => Empty(a, d)
        /\ \A d \in 1 .. LastDay :
              Clean(a, d) /\ d < today /\ InWindow(a, d)
              /\ d # job[p].day /\ d \notin job[p].days => Exact(a, d)
    BY <2>1 DEF TableKnown, FillKnown
  <2>3. /\ job[p].day \in 1 .. LastDay /\ job[p].days \subseteq 1 .. LastDay
        /\ \A d \in job[p].days : d < today
    BY <2>1
  <2>4. \A d : InWindow(a, d)' <=> InWindow(a, d)
    BY DEF InWindow
  <2>5. ASSUME Clean(a, job[p].day)' PROVE Half(p, a)'
    <3>1. PICK d \in 1 .. LastDay : d = job[p].day /\ d = job'[p].day
      BY <2>1, <2>3
    <3>2. Clean(a, d)'
      BY <2>5, <3>1 DEF Clean
    <3>3. Clean(a, d)
      BY <3>2
    <3>4. Clean(a, job[p].day)
      BY <3>1, <3>3
    <3>5. QED
      BY <2>1, <2>2, <3>1, <3>2, <3>4
  <2>6. ASSUME NEW d \in job'[p].days, Clean(a, d)' PROVE Empty(a, d)'
    BY <2>1, <2>2, <2>3, <2>6
  <2>7. ASSUME NEW d \in 1 .. LastDay, Clean(a, d)', d < today, InWindow(a, d)',
               d # job'[p].day, d \notin job'[p].days
        PROVE  Exact(a, d)'
    BY <2>1, <2>2, <2>4, <2>7
  <2>8. QED
    BY <2>5, <2>6, <2>7
<1>3. ReadyKnown(a)'
  <2>1. \A d : InWindow(a, d)' <=> InWindow(a, d)
    BY DEF InWindow
  <2>2. QED
    BY <2>1 DEF TableKnown, ReadyKnown
<1>4. QED
  BY <1>1, <1>2, <1>3 DEF TableKnown

\* The days of the jobs are days.
LEMMA FillingDays ==
    ASSUME JobTypes, JobDays, NEW p \in Procs, NEW a, Filling(p, a)
    PROVE  /\ job[p] \in InsertJobs
           /\ job[p].day \in 1 .. LastDay /\ job[p].days \in SUBSET (1 .. LastDay)
           /\ job[p].hour \in Hours
           /\ job[p].day < today /\ job[p].day \notin job[p].days
           /\ \A d \in job[p].days : d < today
<1>1. job[p].at = "insert"
  BY DEF Filling
<1>2. job[p] \in InsertJobs
  BY <1>1 DEF JobTypes, Places
<1>3. QED
  BY <1>1, <1>2 DEF InsertJobs, JobDays

\* A step that does not touch the rows or the counts of a table.
LEMMA SameCounts ==
    ASSUME NEW a \in Tables, TableKnown(a), RowTypes, JobTypes, JobDays, today' = today, born' = born,
           counted'[a] = counted[a], logs' \subseteq logs,
           spoilt \subseteq spoilt', torn \subseteq torn',
           \A p \in Procs : \/ job'[p] = job[p]
                            \/ ~Filling(p, a)'
                               /\ \A d \in 1 .. LastDay :
                                    Filling(p, a) /\ job[p].day = d /\ Clean(a, d)'
                                       => job[p].hour = Min(Hours),
           status'[a] = "ready" => status[a] = "ready"
    PROVE  TableKnown(a)'
<1>1. \A d : Clean(a, d)' => Clean(a, d)
  BY DEF Clean
<1>2. \A d : RowsOf(d)' \subseteq RowsOf(d)
  BY DEF RowsOf
<1>3. \A d : (Exact(a, d) => Exact(a, d)') /\ (Empty(a, d) => Empty(a, d)')
  BY <1>2 DEF Exact, Empty
<1>4. \A p \in Procs : job'[p] = job[p] => (Filling(p, a)' <=> Filling(p, a)) /\ (Half(p, a) => Half(p, a)')
  BY <1>2 DEF Filling, Half, Stage
<1>5. ASSUME NEW p \in Procs, NEW d \in 1 .. LastDay, Filling(p, a), job[p].day = d,
             job'[p] # job[p], Clean(a, d)'
      PROVE  Empty(a, d)'
  <2>1. job[p].hour = Min(Hours)
    BY <1>5
  <2>2. Half(p, a)
    BY <1>1, <1>5 DEF TableKnown, FillKnown
  <2>3. \A i \in RowsOf(d) : born[i][2] \in Hours
    BY DEF RowsOf, RowTypes
  <2>4. \A h \in Hours : ~ (h < Min(Hours))
    <3> SUFFICES ASSUME NEW h \in Hours PROVE ~ (h < Min(Hours))
      OBVIOUS
    <3>1. PICK m \in Hours : m = Min(Hours) /\ m <= h
      BY FirstHour
    <3>2. m \in Nat /\ h \in Nat
      BY AggAssumption
    <3>3. QED
      BY <3>1, <3>2
  <2>5. Empty(a, d)
    BY <1>5, <2>1, <2>2, <2>3, <2>4 DEF Half, Empty
  <2>6. QED
    BY <2>5, <1>3
<1>6. \A p \in Procs : Filling(p, a)' => Filling(p, a) /\ job'[p] = job[p]
  BY <1>4
<1>7. \A p \in Procs, d \in 1 .. LastDay : Filling(p, a) /\ job[p].day = d =>
              \/ /\ Filling(p, a)'
                 /\ job'[p] = job[p]
              \/ Clean(a, d)' => Empty(a, d)'
  BY <1>4, <1>5
<1>8. \A p \in Procs : Filling(p, a) =>
              /\ job[p].day \in 1 .. LastDay /\ job[p].days \subseteq 1 .. LastDay
              /\ job[p].day < today
              /\ \A d \in job[p].days : d < today
  BY FillingDays
<1>9. QED
  BY <1>1, <1>3, <1>4, <1>6, <1>7, <1>8, TableKept

\* Nothing is claimed of a table of which every day met a hazard.
LEMMA AllSpoilt ==
    ASSUME NEW a \in Tables, AllDays \subseteq spoilt', JobTypes'
    PROVE  TableKnown(a)'
<1>1. \A d \in 1 .. LastDay : ~ (Clean(a, d)')
  BY DEF Clean, AllDays
<1>2. \A p \in Procs : Filling(p, a)' => job'[p].day \in 1 .. LastDay /\ job'[p].days \subseteq 1 .. LastDay
  BY DEF Filling, JobTypes, Places, InsertJobs
<1>3. ASSUME NEW p \in Procs, Filling(p, a)'
      PROVE  ~ (Clean(a, job[p].day)')
  BY <1>2, <1>3 DEF Clean, AllDays
<1>4. DaysKnown(a)' /\ ReadyKnown(a)'
  BY <1>1 DEF DaysKnown, ReadyKnown
<1>5. FillKnown(a)'
  BY <1>1, <1>2, <1>3 DEF FillKnown
<1>6. QED
  BY <1>4, <1>5 DEF TableKnown

\* A day that no job fills is whole when the table has rows of it, and empty or
\* whole when it has none.
LEMMA MissingOrWhole ==
    ASSUME NEW a \in Tables, TableKnown(a), RowTypes, LostAreSpoilt,
           \A p \in Procs : ~Filling(p, a), NEW d \in 1 .. LastDay, Clean(a, d), d < today
    PROVE  /\ d \in missingClosedPartitionDays(a) => Empty(a, d)
           /\ d \notin missingClosedPartitionDays(a) /\ InWindow(a, d) => Exact(a, d)
<1>1. Exact(a, d) \/ Empty(a, d)
  BY DEF TableKnown, DaysKnown
<1>2. \A i \in DOMAIN born : counted[a][i] \in Nat
  BY DEF RowTypes
<1>3. \A i \in RowsOf(d) : i \in DOMAIN born /\ born[i][1] = d
  BY DEF RowsOf, RowTypes
<1>4. ASSUME d \in missingClosedPartitionDays(a) PROVE Empty(a, d)
  <2>1. d \notin Partitions(a)
    BY <1>4 DEF missingClosedPartitionDays
  <2>2. \A i \in RowsOf(d) : ~ (counted[a][i] > 0)
    BY <2>1, <1>3 DEF Partitions, Days
  <2>3. QED
    BY <2>2, <1>2, <1>3 DEF Empty
<1>5. ASSUME d \notin missingClosedPartitionDays(a), InWindow(a, d) PROVE Exact(a, d)
  <2>1. d \notin Days(logs) \/ d \in Partitions(a)
    BY <1>5 DEF missingClosedPartitionDays, InWindow
  <2>2. CASE d \notin Days(logs)
    BY <2>2 DEF Days, RowsOf, Exact
  <2>3. CASE d \in Partitions(a)
    <3>1. PICK i \in DOMAIN born : counted[a][i] > 0 /\ born[i][1] = d
      BY <2>3 DEF Partitions, Days
    <3>2. i \in logs
      BY <3>1 DEF LostAreSpoilt, Clean
    <3>3. i \in RowsOf(d)
      BY <3>1, <3>2 DEF RowsOf
    <3>4. counted[a][i] # 0
      BY <3>1
    <3>5. QED
      BY <1>1, <3>3, <3>4 DEF Empty
  <2>4. QED
    BY <2>1, <2>2, <2>3
<1>6. QED
  BY <1>4, <1>5

\* So a table that is caught up has every day.
LEMMA CaughtUpIsExact ==
    ASSUME NEW a \in Tables, TableKnown(a), RowTypes, LostAreSpoilt, CaughtUp(a),
           \A p \in Procs : ~Filling(p, a), NEW d \in 1 .. LastDay, Clean(a, d), d < today,
           InWindow(a, d)
    PROVE  Exact(a, d)
<1>1. CASE logs = {}
  BY <1>1 DEF Exact, RowsOf
<1>2. CASE missingClosedPartitionDays(a) = {}
  BY <1>2, MissingOrWhole
<1>3. QED
  BY <1>1, <1>2 DEF CaughtUp

\* A job that breaks off after its first hour leaves a torn day behind.
LEMMA BreaksOff ==
    ASSUME JobTypes, JobDays, NEW p \in Procs, NEW a, NEW d, Filling(p, a), job[p].day = d,
           TornBy(p) \subseteq torn', Clean(a, d)'
    PROVE  job[p].hour = Min(Hours)
<1>1. PICK m \in Hours : m = Min(Hours) /\ m <= job[p].hour
  BY FillingDays, FirstHour
<1>2. m \in Nat /\ job[p].hour \in Nat
  BY <1>1, FillingDays, AggAssumption
<1>3. <<a, d>> \notin TornBy(p)
  BY DEF Clean
<1>4. ~ (job[p].hour > m)
  BY <1>1, <1>3 DEF TornBy, Filling, Stage
<1>5. QED
  BY <1>1, <1>2, <1>4

\* Midnight closes a day that is whole.
LEMMA MidnightKeeps ==
    ASSUME RowTypes, JobTypes, JobDays, NEW a \in Tables, TableKnown(a), Midnight
    PROVE  TableKnown(a)'
<1>1. /\ UNCHANGED <<born, logs, counted, status, job, torn, spoilt>>
      /\ today' = today + 1 /\ today \in Int
  BY AggAssumption DEF Midnight, RowTypes
<1>2. \A d : /\ Clean(a, d)' <=> Clean(a, d)
             /\ Exact(a, d)' <=> Exact(a, d)
             /\ Empty(a, d)' <=> Empty(a, d)
  BY <1>1 DEF Clean, Exact, Empty, RowsOf
<1>3. \A p : (Filling(p, a)' <=> Filling(p, a)) /\ (Half(p, a)' <=> Half(p, a))
  BY <1>1 DEF Filling, Half, RowsOf, Stage
<1>4. \A d \in 1 .. LastDay : /\ d < today' <=> d < today \/ d = today
                              /\ InWindow(a, d)' => InWindow(a, d)
  BY <1>1, AggAssumption DEF InWindow
<1>5. \A d \in 1 .. LastDay : Clean(a, d) /\ d = today => Exact(a, d)
  BY <1>1 DEF TableKnown, DaysKnown
<1>6. DaysKnown(a)'
  <2> SUFFICES ASSUME NEW d \in 1 .. LastDay, Clean(a, d)'
               PROVE  \/ Exact(a, d)'
                      \/ d < today' /\ Empty(a, d)'
                      \/ d < today' /\ \E p \in Procs : Filling(p, a)' /\ job'[p].day = d
    BY DEF DaysKnown
  <2>1. \/ Exact(a, d)
        \/ d < today /\ Empty(a, d)
        \/ d < today /\ \E p \in Procs : Filling(p, a) /\ job[p].day = d
    BY <1>2 DEF TableKnown, DaysKnown
  <2>2. QED
    BY <1>1, <1>2, <1>3, <1>4, <2>1
<1>7. FillKnown(a)'
  <2> SUFFICES ASSUME NEW p \in Procs, Filling(p, a)'
               PROVE  /\ Clean(a, job[p].day)' => Half(p, a)'
                      /\ \A d \in job'[p].days : Clean(a, d)' => Empty(a, d)'
                      /\ \A d \in 1 .. LastDay :
                            Clean(a, d)' /\ d < today' /\ InWindow(a, d)'
                            /\ d # job'[p].day /\ d \notin job'[p].days => Exact(a, d)'
    BY DEF FillKnown
  <2>1. Filling(p, a) /\ job'[p] = job[p]
    BY <1>1, <1>3
  <2>2. /\ Clean(a, job[p].day) => Half(p, a)
        /\ \A d \in job[p].days : Clean(a, d) => Empty(a, d)
        /\ \A d \in 1 .. LastDay :
              Clean(a, d) /\ d < today /\ InWindow(a, d)
              /\ d # job[p].day /\ d \notin job[p].days => Exact(a, d)
    BY <2>1 DEF TableKnown, FillKnown
  <2>3. Clean(a, job[p].day)' => Clean(a, job[p].day)
    BY <1>1 DEF Clean
  <2>4. \A d \in job'[p].days : Clean(a, d)' => Empty(a, d)'
    BY <1>2, <2>1, <2>2
  <2>5. ASSUME NEW d \in 1 .. LastDay, Clean(a, d)', d < today', InWindow(a, d)',
               d # job'[p].day, d \notin job'[p].days
        PROVE  Exact(a, d)'
    BY <1>2, <1>4, <1>5, <2>1, <2>2, <2>5
  <2>6. QED
    BY <1>3, <2>2, <2>3, <2>4, <2>5
<1>8. ReadyKnown(a)'
  <2> SUFFICES ASSUME status'[a] = "ready", NEW d \in 1 .. LastDay, Clean(a, d)', d < today', InWindow(a, d)'
               PROVE  Exact(a, d)'
    BY DEF ReadyKnown
  <2>1. QED
    BY <1>1, <1>2, <1>4, <1>5 DEF TableKnown, ReadyKnown
<1>9. QED
  BY <1>6, <1>7, <1>8 DEF TableKnown

\* A row that arrives is of a day on which every table has one view and which is
\* not over, or the day counts as met by a hazard.
LEMMA ArrivalKeeps ==
    ASSUME RowTypes, JobTypes, JobDays, NEW a \in Tables, TableKnown(a),
           NEW d0 \in 1 .. LastDay, NEW h \in Hours, RowArrives(d0, h)
    PROVE  TableKnown(a)'
<1>1. PICK n : n = Len(born) + 1
  OBVIOUS
<1>2. /\ \A i \in DOMAIN born : born'[i] = born[i] /\ counted'[a][i] = counted[a][i]
      /\ born'[n] = <<d0, h>> /\ counted'[a][n] = views[a]
  BY <1>1, ArrivalTypes
<1>3. /\ logs' = logs \cup {n} /\ UNCHANGED <<today, job, status, torn>>
      /\ spoilt' = spoilt \cup {<<b, d0>> : b \in {c \in Tables : views[c] # 1 \/ d0 # today}}
  BY <1>1 DEF RowArrives
<1>4. \A d \in 1 .. LastDay : Clean(a, d)' => Clean(a, d)
  BY <1>3 DEF Clean
<1>5. Clean(a, d0)' => views[a] = 1 /\ d0 = today
  BY <1>3 DEF Clean
<1>6. logs \subseteq DOMAIN born
  BY DEF RowTypes
<1>7. \A d : \A i \in RowsOf(d)' : i \in RowsOf(d) \/ (i = n /\ d = d0)
  BY <1>2, <1>3, <1>6 DEF RowsOf
<1>8. \A d : \A i \in RowsOf(d) : i \in DOMAIN born
  BY <1>6 DEF RowsOf
<1>9. \A d \in 1 .. LastDay : Clean(a, d)' /\ Exact(a, d) => Exact(a, d)'
  <2> SUFFICES ASSUME NEW d \in 1 .. LastDay, Clean(a, d)', Exact(a, d), NEW i \in RowsOf(d)'
               PROVE  counted'[a][i] = 1
    BY DEF Exact
  <2>1. CASE i \in RowsOf(d)
    BY <2>1, <1>2, <1>8 DEF Exact
  <2>2. CASE i = n /\ d = d0
    BY <2>2, <1>2, <1>5
  <2>3. QED
    BY <1>7, <2>1, <2>2
<1>t. today \in Int
  BY AggAssumption DEF RowTypes
<1>10. \A d \in 1 .. LastDay : Clean(a, d)' /\ d < today => \A i \in RowsOf(d)' : i \in RowsOf(d)
  BY <1>5, <1>7, <1>t
<1>11. \A d \in 1 .. LastDay : Clean(a, d)' /\ d < today /\ Empty(a, d) => Empty(a, d)'
  BY <1>2, <1>8, <1>10 DEF Empty
<1>12. \A p : (Filling(p, a)' <=> Filling(p, a)) /\ job'[p] = job[p]
  BY <1>3 DEF Filling, Stage
<1>13. \A p \in Procs : Filling(p, a) =>
              /\ job[p].day \in 1 .. LastDay /\ job[p].days \subseteq 1 .. LastDay
              /\ job[p].day < today
              /\ \A d \in job[p].days : d < today
  BY FillingDays
<1>14. ASSUME NEW p \in Procs, NEW d \in 1 .. LastDay, Filling(p, a), job[p].day = d,
              Clean(a, d)', Half(p, a)
       PROVE  Half(p, a)'
  <2>1. d < today /\ job'[p].day = d /\ job'[p].hour = job[p].hour
    BY <1>12, <1>13, <1>14
  <2>2. \A i \in RowsOf(d)' : i \in RowsOf(d) /\ i \in DOMAIN born
    BY <1>8, <1>10, <1>14, <2>1
  <2>3. \A i \in RowsOf(d)' : counted'[a][i] = IF born'[i][2] < job'[p].hour THEN 1 ELSE 0
    BY <1>2, <1>14, <2>1, <2>2 DEF Half
  <2>4. RowsOf(job[p].day)' = RowsOf(d)'
    BY <2>1 DEF RowsOf
  <2>5. QED
    BY <2>3, <2>4 DEF Half
<1>15. QED
  BY <1>3, <1>4, <1>9, <1>11, <1>12, <1>13, <1>14, TableKept

\* While a job changes the schema of a table or looks what is ready, and while
\* start-up or maintenance begins to fill it, no job fills it.
LEMMA NobodyFills ==
    ASSUME JobTypes, JobOrder, NEW p \in Procs, job[p].n # 0, job[p].at # "insert",
           job["boot"].n # 0 => job["boot"].n < 12 \/ p = "maint", NEW a
    PROVE  AllDays \subseteq spoilt \/ \A q \in Procs : ~Filling(q, a)
<1>1. SUFFICES ASSUME NEW q \in Procs, Filling(q, a)
               PROVE  AllDays \subseteq spoilt
  OBVIOUS
<1>2. job[q].at = "insert" /\ q # p /\ job[q].n # 0
  BY <1>1 DEF Filling, JobTypes
<1>3. CASE p = "boot"
  BY <1>2, <1>3, OneAtWork
<1>4. CASE p = "maint"
  <2>1. q = "boot"
    BY <1>2, <1>4 DEF Procs
  <2>2. QED
    BY <1>2, <2>1, OneAtWork
<1>5. QED
  BY <1>3, <1>4 DEF Procs

\* A table that is replaced is empty, under a flag that is down.
LEMMA ReplaceKeeps ==
    ASSUME RowTypes, JobTypes, JobOrder, JobDays, SchemaIsDown, NEW a \in Tables, TableKnown(a),
           JobTypes', spoilt \subseteq spoilt', NEW p \in Procs, NEW b \in Tables, EnsureTable(p, b)
    PROVE  TableKnown(a)'
<1>1. /\ UNCHANGED <<today, born, logs, status, torn>>
      /\ At(p, "ensure", "table") /\ Stage(p)[2] = b /\ Goes(p, "view")
  BY DEF EnsureTable, Schema
<1>2. /\ \A c \in Tables \ {b} : counted'[c] = counted[c]
      /\ \/ counted' = counted /\ spoilt' = spoilt
         \/ (\A i \in DOMAIN born : counted'[b][i] = 0) /\ <<b, today>> \in spoilt'
  BY TableTypes
<1>3. p = "boot" /\ job["boot"].n \in {2, 5, 6, 7} /\ job[p].n # 0 /\ job[p].at = "table"
  BY <1>1, StageKinds
<1>4. job'[p].at = "view" /\ \A q \in Procs \ {p} : job'[q] = job[q]
  BY <1>1, <1>3, GoesTypes DEF Places
<1>5. CASE counted'[a] = counted[a]
  <2>1. \A q \in Procs : job'[q] = job[q] \/ (~Filling(q, a) /\ ~Filling(q, a)')
    BY <1>3, <1>4 DEF Filling
  <2>2. QED
    BY <1>1, <1>5, <2>1, SameCounts
<1>6. CASE AllDays \subseteq spoilt
  <2>1. AllDays \subseteq spoilt'
    BY <1>6
  <2>2. QED
    BY <2>1, AllSpoilt
<1>7. CASE /\ a = b /\ ~ (AllDays \subseteq spoilt)
           /\ \A i \in DOMAIN born : counted'[a][i] = 0
           /\ <<a, today>> \in spoilt'
  <2>x. job["boot"].n < 12 /\ job[p].at # "insert"
    BY <1>3
  <2>1. \A q \in Procs : ~Filling(q, a)
    BY <2>x, <1>3, <1>7, NobodyFills
  <2>2. \A q \in Procs : ~Filling(q, a)'
    BY <1>4, <2>1 DEF Filling, Stage
  <2>3. status'[a] # "ready"
    BY <1>1, <1>3, <1>7 DEF SchemaIsDown
  <2>4. \A d : \A i \in RowsOf(d)' : i \in DOMAIN born /\ born[i][1] = d
    BY <1>1 DEF RowsOf, RowTypes
  <2>5. \A d : Empty(a, d)'
    BY <1>7, <2>4 DEF Empty
  <2>6. DaysKnown(a)'
    <3> SUFFICES ASSUME NEW d \in 1 .. LastDay, Clean(a, d)'
                 PROVE  Exact(a, d)' \/ (d < today /\ Empty(a, d)')
      BY <1>1 DEF DaysKnown
    <3>1. d # today
      BY <1>7 DEF Clean
    <3>2. CASE d < today
      BY <3>2, <2>5
    <3>3. CASE d > today
      <4>1. \A i \in RowsOf(d)' : born[i][1] <= today /\ born[i][1] = d
        BY <2>4 DEF RowTypes
      <4>t. today \in Int
        BY AggAssumption DEF RowTypes
      <4>2. \A i \in RowsOf(d)' : FALSE
        BY <3>3, <4>1, <4>t
      <4>3. QED
        BY <4>2 DEF Exact
    <3>4. QED
      BY <3>1, <3>2, <3>3, AggAssumption DEF RowTypes
  <2>7. QED
    BY <2>2, <2>3, <2>6 DEF TableKnown, FillKnown, ReadyKnown
<1>8. QED
  BY <1>2, <1>5, <1>6, <1>7

\* The sequence that only looks what is ready finds the days whole.
LEMMA LooksKeeps ==
    ASSUME RowTypes, JobTypes, JobOrder, JobDays, LostAreSpoilt, NEW a \in Tables, TableKnown(a),
           JobTypes', NEW skip, Decide(skip)
    PROVE  TableKnown(a)'
<1>1. /\ UNCHANGED <<today, born, logs, counted, torn, spoilt>>
      /\ At("boot", "decide", "start")
      /\ Skips("boot", 4) \/ Skips("boot", 1)
  BY DEF Decide, FillOnly
<1>2. "boot" \in Procs /\ job["boot"].n # 0 /\ job["boot"].n < 12 /\ job["boot"].at = "start"
  <2>1. "boot" \in Procs
    BY DEF Procs
  <2>2. QED
    BY <1>1, <2>1, StageKinds
<1>3. job'["boot"].at = "start" /\ \A q \in Procs \ {"boot"} : job'[q] = job[q]
  BY <1>1, <1>2 DEF Skips, JobTypes
<1>4. \A q \in Procs : job'[q] = job[q] \/ (~Filling(q, a) /\ ~Filling(q, a)')
  BY <1>2, <1>3 DEF Filling
<1>5. CASE status'[a] = "ready" => status[a] = "ready"
  BY <1>1, <1>4, <1>5, SameCounts
<1>6. CASE AllDays \subseteq spoilt
  <2>1. AllDays \subseteq spoilt'
    BY <1>1, <1>6
  <2>2. QED
    BY <2>1, AllSpoilt
<1>7. CASE status'[a] = "ready" /\ status[a] # "ready" /\ ~ (AllDays \subseteq spoilt)
  <2>1. status' = [edges |-> RefreshEdgesAggReady, geo |-> RefreshGeoEdgesAggReady,
                   hourly |-> RefreshHourlyEdgesAggReady]
    BY <1>7 DEF Decide
  <2>2. CaughtUp(a)
    BY <1>7, <2>1 DEF Tables, RefreshEdgesAggReady, RefreshGeoEdgesAggReady,
       RefreshHourlyEdgesAggReady, edgesAggReady, geoEdgesAggReady, hourlyEdgesReady
  <2>3. \A q \in Procs : ~Filling(q, a)
    BY <1>2, <1>7, NobodyFills
  <2>4. \A d \in 1 .. LastDay : Clean(a, d) /\ d < today /\ InWindow(a, d) => Exact(a, d)
    BY <2>2, <2>3, CaughtUpIsExact
  <2>5. \A d : /\ Clean(a, d)' <=> Clean(a, d)
               /\ Exact(a, d)' <=> Exact(a, d)
               /\ Empty(a, d)' <=> Empty(a, d)
               /\ InWindow(a, d)' <=> InWindow(a, d)
    BY <1>1 DEF Clean, Exact, Empty, RowsOf, InWindow
  <2>6. \A q \in Procs : ~Filling(q, a)'
    BY <1>4, <2>3 DEF Filling, Stage
  <2>7. DaysKnown(a)'
    BY <1>1, <2>3, <2>5 DEF TableKnown, DaysKnown
  <2>8. ReadyKnown(a)'
    BY <1>1, <2>4, <2>5 DEF ReadyKnown
  <2>9. QED
    BY <2>6, <2>7, <2>8 DEF TableKnown, FillKnown
<1>8. QED
  BY <1>5, <1>6, <1>7

\* Before its first hour a day is empty.
LEMMA StartsEmpty ==
    ASSUME RowTypes', NEW p \in Procs, NEW a \in Tables, NEW d,
           job'[p].day = d, job'[p].hour = Min(Hours), Empty(a, d)'
    PROVE  Half(p, a)'
<1>1. \A i \in RowsOf(d)' : ~ (born'[i][2] < Min(Hours))
  <2> SUFFICES ASSUME NEW i \in RowsOf(d)'
               PROVE  ~ (born'[i][2] < Min(Hours))
    OBVIOUS
  <2>1. born'[i][2] \in Hours
    BY DEF RowsOf, RowTypes
  <2>2. PICK m \in Hours : m = Min(Hours) /\ m <= born'[i][2]
    BY <2>1, FirstHour
  <2>3. m \in Nat /\ born'[i][2] \in Nat
    BY <2>1, AggAssumption
  <2>4. QED
    BY <2>2, <2>3
<1>2. \A i \in RowsOf(d)' : counted'[a][i] = IF born'[i][2] < job'[p].hour THEN 1 ELSE 0
  BY <1>1 DEF Empty
<1>3. RowsOf(job[p].day)' = RowsOf(d)'
  BY DEF RowsOf
<1>4. QED
  BY <1>2, <1>3 DEF Half

\* A backfill begins with the days that are missing, or finds none.
LEMMA BeginsKeeps ==
    ASSUME RowTypes, JobTypes, JobOrder, JobDays, LostAreSpoilt, NEW a \in Tables, TableKnown(a),
           JobTypes', RowTypes', NEW p \in Procs, NEW b \in Tables,
           NEW flag \in {"running", status[b]},
           FillBegins(p, b, flag)
    PROVE  TableKnown(a)'
<1>1. /\ UNCHANGED <<today, born, logs, counted, torn, spoilt>>
      /\ At(p, "fill", "start") /\ Stage(p)[2] = b
      /\ status' = [status EXCEPT ![b] = "ready"] \/ status' = [status EXCEPT ![b] = flag]
  BY DEF FillBegins, FillOnly
<1>r. status \in [Tables -> Flags]
  BY DEF RowTypes
<1>2. /\ job[p].n # 0 /\ job[p].n \in 1 .. 12 /\ job[p].at = "start" /\ Stage(p)[1] = "fill"
      /\ job["boot"].n # 0 => job["boot"].n < 12 \/ p = "maint"
  BY <1>1, StageKinds DEF Procs
<1>3. CASE AllDays \subseteq spoilt
  <2>1. AllDays \subseteq spoilt'
    BY <1>1, <1>3
  <2>2. QED
    BY <2>1, AllSpoilt
<1>d. \A d : /\ Clean(a, d)' <=> Clean(a, d)
             /\ Exact(a, d)' <=> Exact(a, d)
             /\ Empty(a, d)' <=> Empty(a, d)
             /\ InWindow(a, d)' <=> InWindow(a, d)
  BY <1>1 DEF Clean, Exact, Empty, RowsOf, InWindow
<1>4. CASE CaughtUp(b) /\ ~ (AllDays \subseteq spoilt)
  <2>1. Skips(p, 1) /\ status' = [status EXCEPT ![b] = "ready"]
    BY <1>4 DEF FillBegins
  <2>2. job'[p].at = "start" /\ \A q \in Procs \ {p} : job'[q] = job[q]
    BY <2>1 DEF Skips, JobTypes
  <2>3. \A q \in Procs : job'[q] = job[q] \/ (~Filling(q, a) /\ ~Filling(q, a)')
    BY <1>2, <2>2 DEF Filling
  <2>4. CASE a # b
    <3>1. status'[a] = status[a]
      BY <2>1, <2>4, <1>r
    <3>2. QED
      BY <1>1, <2>3, <3>1, SameCounts
  <2>5. CASE a = b
    <3>1. \A q \in Procs : ~Filling(q, a)
      BY <1>2, <1>4, NobodyFills
    <3>2. \A d \in 1 .. LastDay : Clean(a, d) /\ d < today /\ InWindow(a, d) => Exact(a, d)
      BY <1>4, <2>5, <3>1, CaughtUpIsExact
    <3>3. \A q \in Procs : ~Filling(q, a)'
      BY <2>3, <3>1 DEF Filling, Stage
    <3>4. DaysKnown(a)'
      BY <1>1, <1>d, <3>1 DEF TableKnown, DaysKnown
    <3>5. ReadyKnown(a)'
      BY <1>1, <1>d, <3>2 DEF ReadyKnown
    <3>6. QED
      BY <3>3, <3>4, <3>5 DEF TableKnown, FillKnown
  <2>6. QED
    BY <2>4, <2>5
<1>5. CASE ~CaughtUp(b) /\ ~ (AllDays \subseteq spoilt)
  <2>1. InsertsLatest(p, missingClosedPartitionDays(b)) /\ status' = [status EXCEPT ![b] = flag]
    BY <1>5 DEF FillBegins
  <2>2. PICK M \in SUBSET (1 .. LastDay) : /\ M = missingClosedPartitionDays(b) /\ M # {}
                                           /\ \A d \in M : d < today
    BY <1>5, MissingDays
  <2>3. /\ job'[p] = [n |-> job[p].n, at |-> "insert", days |-> M \ {Max(M)}, day |-> Max(M), hour |-> Min(Hours)]
        /\ job'[p].n = job[p].n /\ Max(M) \in M
        /\ \A q \in Procs \ {p} : job'[q] = job[q]
    BY <1>2, <2>1, <2>2, LatestTypes
  <2>4. Stage(p)' = Stage(p) /\ \A q \in Procs \ {p} : Filling(q, a)' <=> Filling(q, a)
    BY <2>3 DEF Stage, Filling
  <2>5. CASE a # b
    <3>1. status'[a] = status[a]
      BY <2>1, <2>5, <1>r
    <3>2. ~Filling(p, a) /\ ~Filling(p, a)'
      BY <1>1, <2>4, <2>5 DEF Filling
    <3>3. QED
      BY <1>1, <2>3, <3>1, <3>2, SameCounts
  <2>6. CASE a = b
    <3>1. \A q \in Procs : ~Filling(q, a)
      BY <1>2, <1>5, NobodyFills
    <3>2. \A d \in 1 .. LastDay : Clean(a, d) /\ d < today =>
                /\ d \in M => Empty(a, d)
                /\ d \notin M /\ InWindow(a, d) => Exact(a, d)
      BY <2>2, <2>6, <3>1, MissingOrWhole
    <3>3. DaysKnown(a)'
      BY <1>1, <1>d, <3>1 DEF TableKnown, DaysKnown
    <3>4. ReadyKnown(a)'
      <4>1. status'[a] = flag
        BY <2>1, <2>6, <1>r
      <4>2. status'[a] = "ready" => status[a] = "ready"
        BY <4>1, <2>6
      <4>3. QED
        BY <1>1, <1>d, <4>2 DEF TableKnown, ReadyKnown
    <3>5. FillKnown(a)'
      <4> SUFFICES ASSUME NEW q \in Procs, Filling(q, a)'
                   PROVE  /\ Clean(a, job[q].day)' => Half(q, a)'
                          /\ \A d \in job'[q].days : Clean(a, d)' => Empty(a, d)'
                          /\ \A d \in 1 .. LastDay :
                                Clean(a, d)' /\ d < today' /\ InWindow(a, d)'
                                /\ d # job'[q].day /\ d \notin job'[q].days => Exact(a, d)'
        BY DEF FillKnown
      <4>1. q = p
        BY <2>4, <3>1
      <4>2. PICK D \in M : D = Max(M)
        BY <2>3
      <4>3. job'[q].day = D /\ job'[q].days = M \ {D} /\ job'[q].hour = Min(Hours)
        BY <2>3, <4>1, <4>2
      <4>4. Clean(a, job[q].day)' => Clean(a, D)
        BY <1>1, <4>3 DEF Clean
      <4>5. ASSUME Clean(a, D) PROVE Half(q, a)'
        <5>1. Empty(a, D)
          BY <2>2, <3>2, <4>2, <4>5
        <5>2. QED
          BY <1>d, <4>3, <5>1, StartsEmpty
      <4>6. \A d \in job'[q].days : Clean(a, d)' => Empty(a, d)'
        BY <1>d, <2>2, <3>2, <4>3
      <4>7. ASSUME NEW d \in 1 .. LastDay, Clean(a, d)', d < today', InWindow(a, d)',
                   d # job'[q].day, d \notin job'[q].days
            PROVE  Exact(a, d)'
        <5>1. d \notin M
          BY <4>3, <4>7
        <5>2. QED
          BY <1>1, <1>d, <3>2, <4>7, <5>1
      <4>8. QED
        BY <4>4, <4>5, <4>6, <4>7
    <3>6. QED
      BY <3>3, <3>4, <3>5 DEF TableKnown
  <2>7. QED
    BY <2>5, <2>6
<1>6. QED
  BY <1>3, <1>4, <1>5

\* An hour of a day is inserted; after the last one the day is whole, and after
\* the last day the table.
LEMMA InsertKeeps ==
    ASSUME RowTypes, JobTypes, JobOrder, JobDays, NEW a \in Tables, TableKnown(a),
           JobTypes', RowTypes', NEW p \in Procs, NEW T, InsertHour(p, T)
    PROVE  TableKnown(a)'
<1>1. /\ UNCHANGED <<today, born, logs, torn, spoilt>>
      /\ At(p, "fill", "insert")
  BY DEF InsertHour, FillOnly
<1>2. job[p].n # 0 /\ job[p].at = "insert" /\ Stage(p)[1] = "fill" /\ Stage(p)[2] \in Tables
  BY <1>1, StageKinds
<1>3. PICK b \in Tables : b = Stage(p)[2]
  BY <1>2
<1>4. /\ \A c \in Tables \ {b} : counted'[c] = counted[c] /\ status'[c] = status[c]
      /\ \A i \in DOMAIN born :
            counted'[b][i] = IF i \in RowsAt(job[p].day, job[p].hour)
                             THEN counted[b][i] + 1 ELSE counted[b][i]
  BY <1>3, HourTypes
<1> DEFINE later == {h \in Hours : h > job[p].hour}
<1>5. PICK D \in 1 .. LastDay, H \in Hours, M \in SUBSET (1 .. LastDay) :
         /\ D = job[p].day /\ H = job[p].hour /\ M = job[p].days
         /\ D < today /\ D \notin M
         /\ \A d \in M : d < today
  <2>1. Filling(p, b)
    BY <1>2, <1>3 DEF Filling
  <2>2. QED
    BY <2>1, FillingDays
<1>6. \/ /\ later # {}
         /\ Inserts(p, M, D, Min(later)) /\ status' = status
      \/ /\ later = {} /\ M # {}
         /\ InsertsLatest(p, M) /\ status' = status
      \/ /\ later = {} /\ M = {}
         /\ Skips(p, 1)
  BY <1>5 DEF InsertHour
<1> HIDE DEF later
<1>7. /\ later # {} => job'[p] = [n |-> job[p].n, at |-> "insert", days |-> M, day |-> D, hour |-> Min(later)]
      /\ later = {} /\ M # {} =>
            job'[p] = [n |-> job[p].n, at |-> "insert", days |-> M \ {Max(M)}, day |-> Max(M),
                       hour |-> Min(Hours)]
      /\ later = {} /\ M = {} => job'[p].at = "start"
      /\ \A q \in Procs \ {p} : job'[q] = job[q]
  <2> DEFINE Set(days, day, hour) ==
               [n |-> job[p].n, at |-> "insert", days |-> days, day |-> day, hour |-> hour]
  <2>1. ASSUME NEW days, NEW day, NEW hour, Inserts(p, days, day, hour)
        PROVE  job'[p] = Set(days, day, hour) /\ \A q \in Procs \ {p} : job'[q] = job[q]
    BY <2>1 DEF Inserts, JobTypes
  <2> HIDE DEF Set
  <2>2. CASE later # {}
    <3>1. Inserts(p, M, D, Min(later))
      BY <1>6, <2>2
    <3>2. QED
      BY <2>1, <2>2, <3>1 DEF Set
  <2>3. CASE later = {} /\ M # {}
    <3>1. Inserts(p, M \ {Max(M)}, Max(M), Min(Hours))
      BY <1>6, <2>3, Zenon DEF InsertsLatest
    <3>2. job'[p] = Set(M \ {Max(M)}, Max(M), Min(Hours)) /\ \A q \in Procs \ {p} : job'[q] = job[q]
      BY <2>1, <3>1, Zenon
    <3>3. QED
      BY <2>3, <3>2, Zenon DEF Set
  <2>4. CASE later = {} /\ M = {}
    <3>1. Skips(p, 1)
      BY <1>6, <2>4
    <3>2. QED
      BY <2>4, <3>1 DEF Skips, JobTypes
  <2>5. QED
    BY <2>2, <2>3, <2>4
<1>8. Filling(p, b)' <=> later # {} \/ M # {}
  BY <1>3, <1>7 DEF Filling, Stage
<1>9. CASE a # b
  <2>1. ~Filling(p, a) /\ ~Filling(p, a)'
    BY <1>3, <1>7, <1>9 DEF Filling, Stage
  <2>2. counted'[a] = counted[a] /\ status'[a] = status[a]
    BY <1>4, <1>9
  <2>3. QED
    BY <1>1, <1>7, <2>1, <2>2, SameCounts
<1>10. CASE AllDays \subseteq spoilt
  <2>1. AllDays \subseteq spoilt'
    BY <1>1, <1>10
  <2>2. QED
    BY <2>1, AllSpoilt
<1>11. CASE a = b /\ ~ (AllDays \subseteq spoilt)
  <2>1. \A q \in Procs \ {p} : ~Filling(q, a) /\ ~Filling(q, a)'
    <3> SUFFICES ASSUME NEW q \in Procs \ {p}
                 PROVE  ~Filling(q, a) /\ ~Filling(q, a)'
      OBVIOUS
    <3>1. job[q].at # "insert"
      <4> SUFFICES ASSUME job[q].at = "insert" PROVE FALSE
        OBVIOUS
      <4>1. job[q].n # 0
        BY DEF JobTypes
      <4>2. job["boot"].at = "insert"
        BY <1>2 DEF Procs
      <4>3. QED
        BY <1>2, <1>11, <4>1, <4>2, OneAtWork
    <3>2. QED
      BY <3>1, <1>7 DEF Filling
  <2>2. /\ Clean(a, D) => Half(p, a)
        /\ \A d \in M : Clean(a, d) => Empty(a, d)
        /\ \A d \in 1 .. LastDay :
              Clean(a, d) /\ d < today /\ InWindow(a, d) /\ d # D /\ d \notin M => Exact(a, d)
    <3>1. Filling(p, a)
      BY <1>2, <1>3, <1>11 DEF Filling
    <3>2. QED
      BY <3>1, <1>5 DEF TableKnown, FillKnown
  <2>3. \A d : /\ Clean(a, d)' <=> Clean(a, d)
               /\ InWindow(a, d)' <=> InWindow(a, d)
               /\ RowsOf(d)' = RowsOf(d)
    BY <1>1 DEF Clean, RowsOf, InWindow
  <2>4. ASSUME NEW d, NEW i \in RowsOf(d)
        PROVE  i \in DOMAIN born /\ born[i][1] = d /\ born[i][2] \in Hours
    <3>1. i \in DOMAIN born /\ born[i][1] = d
      BY DEF RowsOf, RowTypes
    <3>2. born[i] \in (1 .. LastDay) \X Hours
      BY <3>1 DEF RowTypes
    <3>3. QED
      BY <3>1, <3>2
  <2>5. \A d \in 1 .. LastDay : d # D => \A i \in RowsOf(d) : counted'[a][i] = counted[a][i]
    BY <1>4, <1>5, <1>11, <2>4 DEF RowsAt
  <2>6. \A d \in 1 .. LastDay : d # D => /\ Exact(a, d) => Exact(a, d)'
                                         /\ Empty(a, d) => Empty(a, d)'
    BY <2>3, <2>5 DEF Exact, Empty
  <2>7. ASSUME Clean(a, D), NEW i \in RowsOf(D)
        PROVE  counted'[a][i] = IF born[i][2] <= H THEN 1 ELSE 0
    <3>1. counted[a][i] = IF born[i][2] < H THEN 1 ELSE 0
      BY <1>5, <2>2, <2>7 DEF Half
    <3>2. i \in DOMAIN born /\ (i \in RowsAt(job[p].day, job[p].hour) <=> born[i][2] = H)
      BY <1>5, <2>4, <2>7 DEF RowsAt
    <3>3. counted'[a][i] = IF born[i][2] = H THEN counted[a][i] + 1 ELSE counted[a][i]
      BY <1>4, <1>11, <3>2
    <3>4. born[i][2] \in Nat /\ H \in Nat
      BY <2>4, <2>7, AggAssumption
    <3>5. QED
      BY <3>1, <3>3, <3>4
  <2>8. ASSUME Clean(a, D), later = {} PROVE Exact(a, D)'
    <3>1. \A i \in RowsOf(D) : born[i][2] \in Nat /\ H \in Nat /\ ~ (born[i][2] > H)
      BY <1>5, <2>4, <2>8, AggAssumption DEF later
    <3>2. \A i \in RowsOf(D) : counted'[a][i] = 1
      BY <2>7, <2>8, <3>1
    <3>3. QED
      BY <2>3, <3>2 DEF Exact
  <2>9. DaysKnown(a)'
    <3> SUFFICES ASSUME NEW d \in 1 .. LastDay, Clean(a, d)'
                 PROVE  \/ Exact(a, d)'
                        \/ d < today' /\ Empty(a, d)'
                        \/ d < today' /\ \E q \in Procs : Filling(q, a)' /\ job'[q].day = d
      BY DEF DaysKnown
    <3>1. CASE d = D /\ later # {}
      <4>1. Filling(p, a)' /\ job'[p].day = d /\ d < today'
        BY <1>1, <1>5, <1>7, <1>8, <1>11, <3>1
      <4>2. QED
        BY <4>1
    <3>2. CASE d = D /\ later = {}
      BY <2>3, <2>8, <3>2
    <3>3. CASE d # D
      <4>1. Exact(a, d) \/ (d < today /\ Empty(a, d))
        BY <1>5, <2>1, <2>3, <3>3 DEF TableKnown, DaysKnown
      <4>2. QED
        BY <1>1, <2>6, <3>3, <4>1
    <3>4. QED
      BY <3>1, <3>2, <3>3
  <2>10. ASSUME NEW d \in 1 .. LastDay, Clean(a, d)', d < today', InWindow(a, d)', d \notin M,
                d # D \/ later = {}
         PROVE  Exact(a, d)'
    BY <1>1, <2>2, <2>3, <2>6, <2>8, <2>10
  <2>11. FillKnown(a)'
    <3> SUFFICES ASSUME NEW q \in Procs, Filling(q, a)'
                 PROVE  /\ Clean(a, job[q].day)' => Half(q, a)'
                        /\ \A d \in job'[q].days : Clean(a, d)' => Empty(a, d)'
                        /\ \A d \in 1 .. LastDay :
                              Clean(a, d)' /\ d < today' /\ InWindow(a, d)'
                              /\ d # job'[q].day /\ d \notin job'[q].days => Exact(a, d)'
      BY DEF FillKnown
    <3>1. q = p /\ (later # {} \/ M # {})
      BY <1>8, <1>11, <2>1
    <3>2. CASE later # {}
      <4>1. PICK g : g = Min(later)
        OBVIOUS
      <4>2. job'[q].day = D /\ job'[q].days = M /\ job'[q].hour = g
        BY <1>7, <3>1, <3>2, <4>1
      <4>3. \A h \in Hours : h < g <=> h <= H
        BY <1>5, <3>2, <4>1, NextHour DEF later
      <4>4. ASSUME Clean(a, job[q].day)' PROVE Half(q, a)'
        <5>1. Clean(a, D)
          BY <1>1, <4>2, <4>4 DEF Clean
        <5>2. \A i \in RowsOf(D) : counted'[a][i] = IF born[i][2] < g THEN 1 ELSE 0
          BY <2>4, <2>7, <4>3, <5>1
        <5>3. RowsOf(job[q].day)' = RowsOf(D)
          BY <1>1, <4>2 DEF RowsOf
        <5>4. QED
          BY <1>1, <4>2, <5>2, <5>3 DEF Half
      <4>5. \A d \in job'[q].days : Clean(a, d)' => Empty(a, d)'
        BY <1>5, <2>2, <2>3, <2>6, <4>2
      <4>6. QED
        BY <2>10, <4>2, <4>4, <4>5
    <3>3. CASE later = {}
      <4>1. M # {}
        BY <3>1, <3>3
      <4>2. PICK E \in M : E = Max(M)
        BY <4>1, LatestDay
      <4>3. job'[q].day = E /\ job'[q].days = M \ {E} /\ job'[q].hour = Min(Hours)
        BY <1>7, <3>1, <3>3, <4>1, <4>2
      <4>4. ASSUME Clean(a, job[q].day)' PROVE Half(q, a)'
        <5>1. Clean(a, E)
          BY <1>1, <4>3, <4>4 DEF Clean
        <5>2. Empty(a, E)'
          BY <1>5, <2>2, <2>6, <4>2, <5>1
        <5>3. QED
          BY <4>3, <5>2, StartsEmpty
      <4>5. \A d \in job'[q].days : Clean(a, d)' => Empty(a, d)'
        BY <1>5, <2>2, <2>3, <2>6, <4>3
      <4>6. ASSUME NEW d \in 1 .. LastDay, Clean(a, d)', d < today', InWindow(a, d)',
                   d # job'[q].day, d \notin job'[q].days
            PROVE  Exact(a, d)'
        <5>1. d \notin M
          BY <4>3, <4>6
        <5>2. QED
          BY <2>10, <3>3, <4>6, <5>1
      <4>7. QED
        BY <4>4, <4>5, <4>6
    <3>4. QED
      BY <3>2, <3>3
  <2>12. ReadyKnown(a)'
    <3>1. CASE later = {} /\ M = {}
      BY <2>10, <3>1 DEF ReadyKnown
    <3>2. CASE ~ (later = {} /\ M = {})
      <4>1. status' = status
        BY <1>6, <3>2
      <4>2. status[a] = "ready" => \A d \in 1 .. LastDay :
                Clean(a, d) /\ d < today /\ InWindow(a, d) => Exact(a, d)
        BY DEF TableKnown, ReadyKnown
      <4>3. status[a] = "ready" /\ Clean(a, D) /\ InWindow(a, D) => Exact(a, D)'
        <5> SUFFICES ASSUME status[a] = "ready", Clean(a, D), InWindow(a, D) PROVE Exact(a, D)'
          OBVIOUS
        <5>1. Exact(a, D) /\ Half(p, a)
          BY <1>5, <2>2, <4>2
        <5>2. \A i \in RowsOf(D) : born[i][2] < H
          BY <1>5, <5>1 DEF Exact, Half
        <5>3. \A i \in RowsOf(D) : born[i][2] \in Nat /\ H \in Nat
          BY <2>4, AggAssumption
        <5>4. \A i \in RowsOf(D) : counted'[a][i] = 1
          BY <2>7, <5>2, <5>3
        <5>5. QED
          BY <2>3, <5>4 DEF Exact
      <4>4. QED
        BY <1>1, <2>3, <2>6, <4>1, <4>2, <4>3 DEF ReadyKnown
    <3>3. QED
      BY <3>1, <3>2
  <2>13. QED
    BY <2>9, <2>11, <2>12 DEF TableKnown
<1>12. QED
  BY <1>9, <1>10, <1>11

\* The steps of the other jobs leave the days as they are, or leave a torn day.
LEMMA TableStep ==
    ASSUME AggInv, RowTypes', JobTypes', NEW a \in Tables, AggStep
    PROVE  TableKnown(a)'
<1>i. /\ RowTypes /\ JobTypes /\ JobOrder /\ JobDays /\ LostAreSpoilt /\ SchemaIsDown
      /\ TableKnown(a)
  BY DEF AggInv
<1>g. spoilt \subseteq spoilt' /\ torn \subseteq torn'
  BY <1>i, SpoiltGrows
<1>r. status \in [Tables -> Flags]
  BY <1>i DEF RowTypes
<1>s. ASSUME UNCHANGED <<today, born, counted>>, logs' \subseteq logs,
             \A p \in Procs : job'[p] = job[p] \/ (job[p].at # "insert" /\ job'[p].at # "insert"),
             status'[a] = "ready" => status[a] = "ready"
      PROVE  TableKnown(a)'
  <2>1. \A p \in Procs : job'[p] = job[p] \/ (~Filling(p, a) /\ ~Filling(p, a)')
    BY <1>s DEF Filling
  <2>2. QED
    BY <1>i, <1>g, <1>s, <2>1, SameCounts
<1>k. ASSUME NEW p \in Procs, NEW place, place # "insert", NEW k, job[p].at # "insert",
             Goes(p, place) \/ Skips(p, k) \/ job' = [job EXCEPT ![p] = Off]
      PROVE  \A q \in Procs : job'[q] = job[q] \/ (job[q].at # "insert" /\ job'[q].at # "insert")
  BY <1>i, <1>k DEF Goes, Skips, JobTypes, Off
<1>1. ASSUME NEW d \in 1 .. LastDay, NEW h \in Hours, RowArrives(d, h)
      PROVE  TableKnown(a)'
  BY <1>i, <1>1, ArrivalKeeps
<1>2. CASE Midnight
  BY <1>i, <1>2, MidnightKeeps
<1>3. CASE Restart
  <2>1. /\ UNCHANGED <<today, born, logs, counted, spoilt>>
        /\ status' = [b \in Tables |-> "pending"] /\ job' = [p \in Procs |-> Off]
        /\ torn' = torn \cup TornBy("boot") \cup TornBy("maint")
    BY <1>3 DEF Restart
  <2>2. \A p \in Procs : ~Filling(p, a)' /\ TornBy(p) \subseteq torn'
    BY <2>1 DEF Filling, Off, Procs
  <2>3. \A p \in Procs : ~Filling(p, a)'
           /\ \A d \in 1 .. LastDay : Filling(p, a) /\ job[p].day = d /\ Clean(a, d)'
                                         => job[p].hour = Min(Hours)
    BY <1>i, <2>2, BreaksOff
  <2>4. status'[a] # "ready"
    BY <2>1
  <2>5. QED
    BY <1>i, <1>g, <2>1, <2>3, <2>4, SameCounts
<1>4. CASE Boot \/ IngestStarts \/ MaintenanceBegins
  <2>1. /\ UNCHANGED <<today, born, logs, counted, status>>
        /\ \A p \in Procs : job'[p] = job[p] \/ (job[p].at # "insert" /\ job'[p].at # "insert")
    BY <1>4, <1>i DEF Boot, IngestStarts, MaintenanceBegins, Skips, Off, JobTypes, At
  <2>2. QED
    BY <2>1, <1>s
<1>5. ASSUME NEW skip, Decide(skip)
      PROVE  TableKnown(a)'
  BY <1>i, <1>5, LooksKeeps
<1>6. ASSUME NEW p \in Procs, Ends(p) \/ LayoutCurrent(p) \/ LayoutCopies(p) \/ LayoutSwaps(p)
                               \/ LayoutRecorded(p)
      PROVE  TableKnown(a)'
  <2>1. /\ UNCHANGED <<today, born, counted, status>>
        /\ logs' = logs \/ logs' = copy
        /\ \/ Skips(p, 1) \/ Goes(p, "swap") \/ Goes(p, "start")
           \/ job' = [job EXCEPT ![p] = Off]
        /\ job[p].at \in {"start", "swap"}
    BY <1>6 DEF Ends, LayoutCurrent, LayoutCopies, LayoutSwaps, LayoutRecorded, Schema, At
  <2>2. logs' \subseteq logs
    BY <2>1, <1>i DEF RowTypes
  <2>3. \A q \in Procs : job'[q] = job[q] \/ (job[q].at # "insert" /\ job'[q].at # "insert")
    BY <2>1, <1>k
  <2>4. QED
    BY <2>1, <2>2, <2>3, <1>s
<1>7. ASSUME NEW p \in Procs, EnsureFails(p)
      PROVE  TableKnown(a)'
  <2>1. /\ UNCHANGED <<today, born, counted, logs>>
        /\ Skips(p, 1) \/ Skips(p, 2)
        /\ Stage(p)[1] \in {"logs", "ensure"}
        /\ \/ status' = status
           \/ \E b : status' = [status EXCEPT ![b] = IF b = "edges" THEN "error" ELSE "pending"]
    BY <1>7 DEF EnsureFails, At
  <2>2. job[p].at # "insert"
    BY <2>1, <1>i DEF JobTypes
  <2>3. \A q \in Procs : job'[q] = job[q] \/ (job[q].at # "insert" /\ job'[q].at # "insert")
    BY <2>1, <2>2, <1>k
  <2>4. status'[a] = "ready" => status[a] = "ready"
    BY <2>1, <1>r
  <2>5. QED
    BY <2>1, <2>3, <2>4, <1>s
<1>8. ASSUME NEW p \in Procs, NEW b \in Tables, NEW flag \in {"running", "pending"}, EnsureBegins(p, b, flag)
      PROVE  TableKnown(a)'
  <2>1. /\ UNCHANGED <<today, born, counted, logs>>
        /\ Skips(p, 1) \/ Goes(p, "table")
        /\ job[p].at = "start"
        /\ status' = [status EXCEPT ![b] = IF needsSchemaDDL(b) THEN flag ELSE "pending"]
    BY <1>8 DEF EnsureBegins, At, Schema
  <2>2. \A q \in Procs : job'[q] = job[q] \/ (job[q].at # "insert" /\ job'[q].at # "insert")
    BY <2>1, <1>k
  <2>3. status'[a] = "ready" => status[a] = "ready"
    BY <2>1, <1>r
  <2>4. QED
    BY <2>1, <2>2, <2>3, <1>s
<1>9. ASSUME NEW p \in Procs, NEW b \in Tables, EnsureTable(p, b)
      PROVE  TableKnown(a)'
  BY <1>i, <1>g, <1>9, ReplaceKeeps
<1>10. ASSUME NEW p \in Procs, NEW ok, replaceMaterializedView(p) \/ EnsureVersion(p) \/ EnsureDrop(p, ok)
       PROVE  TableKnown(a)'
  <2>1. /\ UNCHANGED <<today, born, counted, logs>>
        /\ Skips(p, 1) \/ Goes(p, "version") \/ Goes(p, "drop")
        /\ job[p].at # "insert"
        /\ status' = status \/ \E b : status' = [status EXCEPT ![b] = "pending"]
    BY <1>10 DEF replaceMaterializedView, EnsureVersion, EnsureDrop, At, Schema
  <2>2. \A q \in Procs : job'[q] = job[q] \/ (job[q].at # "insert" /\ job'[q].at # "insert")
    BY <2>1, <1>k
  <2>3. status'[a] = "ready" => status[a] = "ready"
    BY <2>1, <1>r
  <2>4. QED
    BY <2>1, <2>2, <2>3, <1>s
<1>11. ASSUME NEW p \in Procs, NEW b \in Tables, NEW flag \in {"running", status[b]}, FillBegins(p, b, flag)
       PROVE  TableKnown(a)'
  BY <1>i, <1>11, BeginsKeeps
<1>12. ASSUME NEW p \in Procs, NEW T, InsertHour(p, T)
       PROVE  TableKnown(a)'
  BY <1>i, <1>12, InsertKeeps
<1>13. ASSUME NEW p \in Procs, FillStops(p)
       PROVE  TableKnown(a)'
  <2>1. /\ UNCHANGED <<today, born, counted, logs, spoilt>>
        /\ torn' = torn \cup TornBy(p)
        /\ (\E k : Skips(p, k)) \/ job' = [job EXCEPT ![p] = Off]
    BY <1>13 DEF FillStops, FillOnly
  <2>2. status'[a] = "ready" => status[a] = "ready"
    BY <1>13 DEF FillStops
  <2>3. job'[p].at # "insert" /\ \A q \in Procs \ {p} : job'[q] = job[q]
    BY <2>1, <1>i DEF Skips, Off, JobTypes
  <2>4. ~Filling(p, a)'
        /\ \A d \in 1 .. LastDay : Filling(p, a) /\ job[p].day = d /\ Clean(a, d)'
                                         => job[p].hour = Min(Hours)
    <3>1. ~Filling(p, a)'
      BY <2>3 DEF Filling
    <3>2. TornBy(p) \subseteq torn'
      BY <2>1
    <3>3. QED
      BY <1>i, <3>1, <3>2, BreaksOff
  <2>5. QED
    BY <1>i, <1>g, <2>1, <2>2, <2>3, <2>4, SameCounts
<1>14. QED
  BY StepCases, <1>1, <1>2, <1>3, <1>4, <1>5, <1>6, <1>7, <1>8, <1>9, <1>10, <1>11, <1>12, <1>13

-----------------------------------------------------------------------------
(* The theorem *)

LEMMA AggInvariant == AggInv /\ [AggStep]_aggVars => AggInv'
<1> SUFFICES ASSUME AggInv, [AggStep]_aggVars
             PROVE  AggInv'
  OBVIOUS
<1>1. CASE UNCHANGED aggVars
  <2>1. /\ RowTypes' <=> RowTypes
        /\ JobTypes' <=> JobTypes
        /\ JobOrder' <=> JobOrder
        /\ JobDays' <=> JobDays
        /\ LostAreSpoilt' <=> LostAreSpoilt
        /\ SchemaIsDown' <=> SchemaIsDown
    BY <1>1, Zenon DEF aggVars, RowTypes, JobTypes, JobOrder, JobDays, LostAreSpoilt, SchemaIsDown,
       Stage
  <2>2. ASSUME NEW a \in Tables PROVE TableKnown(a)'
    <3>1. \A p \in Procs : job'[p] = job[p]
      BY <1>1 DEF aggVars
    <3>2. QED
      BY <1>1, <3>1, SameCounts DEF aggVars, AggInv
  <2>3. QED
    BY <2>1, <2>2 DEF AggInv
<1>2. CASE AggStep
  <2>1. RowTypes /\ JobTypes /\ JobOrder /\ JobDays /\ LostAreSpoilt /\ SchemaIsDown
    BY DEF AggInv
  <2>2. JobTypes' /\ JobOrder'
    BY <1>2, <2>1, JobStep
  <2>3. RowTypes'
    BY <1>2, <2>1, RowStep
  <2>4. JobDays' /\ LostAreSpoilt' /\ SchemaIsDown'
    BY <1>2, <2>1, <2>2, JobDaysStep, LostStep, SchemaStep
  <2>5. \A a \in Tables : TableKnown(a)'
    BY <1>2, <2>2, <2>3, TableStep
  <2>6. QED
    BY <2>2, <2>3, <2>4, <2>5 DEF AggInv
<1>3. QED
  BY <1>1, <1>2

\* A table whose flag is up counts every row of a closed day exactly once, unless
\* the day met one of the named hazards: whatever the rows, failures, restarts
\* and migrations were.  The jobs fill it in any number of hours.
THEOREM ReadyTablesAreExact == AggSpec => []ReadyIsExact
<1>1. AggInv => ReadyIsExact
  <2> SUFFICES ASSUME AggInv, NEW a \in Tables, NEW i \in logs, status[a] = "ready",
                      born[i][1] < today,
                      a = "hourly" => born[i][1] >= today - HourlyLookback,
                      <<a, born[i][1]>> \notin torn \cup spoilt
               PROVE  counted[a][i] = 1
    BY DEF ReadyIsExact
  <2>1. PICK d : d = born[i][1]
    OBVIOUS
  <2>2. d \in 1 .. LastDay
    BY <2>1 DEF AggInv, RowTypes
  <2>3. Exact(a, d)
    BY <2>1, <2>2 DEF AggInv, TableKnown, ReadyKnown, Clean, InWindow
  <2>4. QED
    BY <2>1, <2>3 DEF Exact, RowsOf
<1>2. QED
  BY InitAggInv, AggInvariant, <1>1, PTL DEF AggSpec
-----------------------------------------------------------------------------
(* Induction *)

\* What holds of zero and of the next of every number it holds of, holds of all.
LEMMA NatInd ==
    ASSUME NEW S, 0 \in S, \A n \in Nat : n \in S => n + 1 \in S
    PROVE  Nat \subseteq S
<1> SUFFICES ASSUME NEW n \in Nat, n \notin S
             PROVE  FALSE
  OBVIOUS
<1> DEFINE T == {k \in Nat : k \notin S}
<1>1. Min(T) \in T /\ \A k \in T : Min(T) <= k
  BY MinOfNats
<1>2. PICK m \in Nat : m \notin S /\ \A k \in T : m <= k
  BY <1>1
<1>3. m - 1 \in Nat /\ (m - 1) + 1 = m
  BY <1>2
<1>4. m - 1 \in S
  BY <1>2, <1>3
<1>5. QED
  BY <1>2, <1>3, <1>4

\* A function over 0 .. n that is defined by what it was one before exists.
StaysIn(n, S, F) == \A i \in 1 .. n, v \in S : F[<<i, v>>] \in S
Recursive(g, n, base, F) == \A i \in 0 .. n : g[i] = IF i = 0 THEN base ELSE F[<<i, g[i - 1]>>]

LEMMA RecursionExists ==
    ASSUME NEW n \in Nat, NEW S, NEW base \in S, NEW F, StaysIn(n, S, F)
    PROVE  \E g \in [0 .. n -> S] : Recursive(g, n, base, F)
<1>1. \A i \in 1 .. n, v \in S : F[<<i, v>>] \in S
  BY DEF StaysIn
<1> DEFINE Upto(k) == \E g \in [0 .. k -> S] : \A i \in 0 .. k : g[i] = IF i = 0 THEN base ELSE F[<<i, g[i - 1]>>]
           T == {k \in Nat : k <= n => Upto(k)}
<1>2. 0 \in T
  <2> DEFINE g == [i \in 0 .. 0 |-> base]
  <2>1. g \in [0 .. 0 -> S] /\ \A i \in 0 .. 0 : g[i] = IF i = 0 THEN base ELSE F[<<i, g[i - 1]>>]
    OBVIOUS
  <2>2. QED
    BY <2>1
<1>3. ASSUME NEW k \in Nat, k \in T
      PROVE  k + 1 \in T
  <2> SUFFICES ASSUME k + 1 <= n
               PROVE  Upto(k + 1)
    OBVIOUS
  <2>1. PICK g \in [0 .. k -> S] : \A i \in 0 .. k : g[i] = IF i = 0 THEN base ELSE F[<<i, g[i - 1]>>]
    BY <1>3
  <2> DEFINE h == [i \in 0 .. k + 1 |-> IF i = k + 1 THEN F[<<k + 1, g[k]>>] ELSE g[i]]
  <2>2. F[<<k + 1, g[k]>>] \in S
    BY <1>1
  <2>3. h \in [0 .. k + 1 -> S]
    BY <2>2
  <2>4. ASSUME NEW i \in 0 .. k + 1
        PROVE  h[i] = IF i = 0 THEN base ELSE F[<<i, h[i - 1]>>]
    <3>1. CASE i = k + 1
      <4>1. h[i] = F[<<i, g[k]>>] /\ h[i - 1] = g[k] /\ i # 0
        BY <3>1
      <4>2. QED
        BY <4>1
    <3>2. CASE i \in 0 .. k
      <4>1. h[i] = g[i] /\ (i # 0 => i - 1 \in 0 .. k /\ h[i - 1] = g[i - 1])
        BY <3>2
      <4>2. g[i] = IF i = 0 THEN base ELSE F[<<i, g[i - 1]>>]
        BY <2>1, <3>2
      <4> HIDE DEF h
      <4>3. CASE i = 0
        BY <4>1, <4>2, <4>3
      <4>4. CASE i # 0
        BY <4>1, <4>2, <4>4
      <4>5. QED
        BY <4>3, <4>4
    <3>3. QED
      BY <3>1, <3>2
  <2>5. QED
    BY <2>3, <2>4
<1>4. Nat \subseteq T
  <2> HIDE DEF T
  <2> QED
    BY <1>2, <1>3, NatInd
<1>5. QED
  BY <1>4 DEF Recursive

-----------------------------------------------------------------------------
(* Ranges: powers and search *)

\* The powers of two, and those of natural numbers only.
LEMMA PowersAre ==
    /\ Power[0] = 1
    /\ \A n \in 1 .. Width : Power[n] = 2 * Power[n - 1]
    /\ \A n \in 0 .. Width : Power[n] \in Nat \ {0}
<1> DEFINE F == [x \in (1 .. Width) \X (Nat \ {0}) |-> 2 * x[2]]
           Is(h) == h = [n \in 0 .. Width |-> IF n = 0 THEN 1 ELSE 2 * h[n - 1]]
<1>1. Width \in Nat
  BY WidthAssumption
<1>2. \A i \in 1 .. Width, v \in Nat \ {0} : F[<<i, v>>] = 2 * v /\ 2 * v \in Nat \ {0}
  OBVIOUS
<1> HIDE DEF F
<1>3. PICK g \in [0 .. Width -> Nat \ {0}] : Recursive(g, Width, 1, F)
  <2>1. StaysIn(Width, Nat \ {0}, F)
    BY <1>2 DEF StaysIn
  <2>2. 1 \in Nat \ {0}
    OBVIOUS
  <2>3. QED
    BY <1>1, <2>1, <2>2, RecursionExists
<1>4. \A n \in 0 .. Width : g[n] = IF n = 0 THEN 1 ELSE 2 * g[n - 1]
  <2> SUFFICES ASSUME NEW n \in 0 .. Width, n # 0
               PROVE  g[n] = 2 * g[n - 1]
    BY <1>3 DEF Recursive
  <2>1. n \in 1 .. Width /\ n - 1 \in 0 .. Width
    BY <1>1
  <2>2. g[n] = F[<<n, g[n - 1]>>]
    BY <1>3 DEF Recursive
  <2>3. QED
    BY <1>2, <2>1, <2>2
<1>5. Is(g)
  BY <1>4
<1>6. Is(Power)
  <2>1. Power = CHOOSE h : Is(h)
    BY Zenon DEF Power
  <2> HIDE DEF Is
  <2>2. QED
    BY <1>5, <2>1, Zenon
<1>7. Power[0] = 1 /\ \A n \in 1 .. Width : Power[n] = 2 * Power[n - 1]
  <2>1. PICK f : f = Power /\ Is(f)
    BY <1>6
  <2>2. \A n \in 0 .. Width : f[n] = IF n = 0 THEN 1 ELSE 2 * f[n - 1]
    BY <2>1
  <2> HIDE DEF Is
  <2>3. f[0] = 1 /\ \A n \in 1 .. Width : f[n] = 2 * f[n - 1]
    BY <1>1, <2>2
  <2>4. QED
    BY <2>1, <2>3
<1> DEFINE T == {n \in Nat : n <= Width => Power[n] \in Nat \ {0}}
<1>8. 0 \in T
  BY <1>7
<1>9. ASSUME NEW n \in Nat, n \in T
      PROVE  n + 1 \in T
  <2> SUFFICES ASSUME n + 1 <= Width
               PROVE  Power[n + 1] \in Nat \ {0}
    OBVIOUS
  <2>1. Power[n] \in Nat \ {0} /\ n + 1 \in 1 .. Width /\ (n + 1) - 1 = n
    BY <1>1, <1>9
  <2>2. Power[n + 1] = 2 * Power[n]
    BY <1>7, <2>1
  <2>3. QED
    BY <2>1, <2>2
<1>10. Nat \subseteq T
  <2> HIDE DEF T
  <2> QED
    BY <1>8, <1>9, NatInd
<1>11. QED
  BY <1>1, <1>7, <1>10

\* What a round of the search knows: before low no place is in S, behind high all are.
Between(b, n, S) ==
    /\ b \in [low : 0 .. n, high : 0 .. n] /\ b.low <= b.high
    /\ \A m \in 1 .. b.low : m \notin S
    /\ \A m \in b.high + 1 .. n : m \in S

\* A round keeps it and comes closer to the end.
LEMMA HalvedBetween ==
    ASSUME NEW n \in Nat, NEW S \in SUBSET (1 .. n), \A k \in S : \A m \in k .. n : m \in S,
           NEW b, Between(b, n, S)
    PROVE  /\ Between(Halved(b, S), n, S)
           /\ Halved(b, S).high - Halved(b, S).low <= b.high - b.low
           /\ b.low < b.high => Halved(b, S).high - Halved(b, S).low < b.high - b.low
<1>1. b \in [low : 0 .. n, high : 0 .. n] /\ b.low <= b.high
  BY DEF Between
<1>2. PICK i \in 0 .. n, j \in 0 .. n : i = b.low /\ j = b.high
  BY <1>1
<1>3. b = [low |-> i, high |-> j]
  BY <1>1, <1>2
<1>4. CASE i >= j
  <2>1. Halved(b, S) = b
    BY <1>2, <1>4 DEF Halved
  <2>2. QED
    BY <1>1, <1>2, <1>4, <2>1
<1>5. CASE i < j
  <2>1. PICK h \in i .. j - 1 : h = (i + j) \div 2
    BY <1>5
  <2>2. CASE h + 1 \in S
    <3>1. Halved(b, S) = [low |-> i, high |-> h]
      BY <1>2, <1>3, <1>5, <2>1, <2>2 DEF Halved
    <3>2. \A m \in h + 1 .. n : m \in S
      BY <2>2
    <3>3. QED
      BY <1>2, <1>5, <2>1, <3>1, <3>2 DEF Between
  <2>3. CASE h + 1 \notin S
    <3>1. Halved(b, S) = [low |-> h + 1, high |-> j]
      BY <1>2, <1>3, <1>5, <2>1, <2>3 DEF Halved
    <3>2. \A m \in 1 .. h + 1 : m \notin S
      <4> SUFFICES ASSUME NEW m \in 1 .. h + 1, m \in S
                   PROVE  FALSE
        OBVIOUS
      <4>1. h + 1 \in m .. n
        BY <2>1
      <4>2. QED
        BY <2>3, <4>1
    <3>3. QED
      BY <1>2, <1>5, <2>1, <3>1, <3>2 DEF Between
  <2>4. QED
    BY <2>2, <2>3
<1>6. QED
  BY <1>4, <1>5

\* What Rounds says, round by round.
LEMMA RoundsAre ==
    ASSUME NEW n \in Nat, NEW S \in SUBSET (1 .. n), \A k \in S : \A m \in k .. n : m \in S
    PROVE  /\ Rounds(n, S)[0] = [low |-> 0, high |-> n]
           /\ \A k \in 1 .. n : Rounds(n, S)[k] = Halved(Rounds(n, S)[k - 1], S)
<1> DEFINE base == [low |-> 0, high |-> n]
           B == {b \in [low : 0 .. n, high : 0 .. n] : Between(b, n, S)}
           F == [x \in (1 .. n) \X B |-> Halved(x[2], S)]
           Is(h) == h = [k \in 0 .. n |-> IF k = 0 THEN base ELSE Halved(h[k - 1], S)]
<1>1. base \in B
  BY DEF Between
<1>2. \A k \in 1 .. n, b \in B : F[<<k, b>>] = Halved(b, S) /\ Halved(b, S) \in B
  <2> SUFFICES ASSUME NEW k \in 1 .. n, NEW b \in B
               PROVE  F[<<k, b>>] = Halved(b, S) /\ Halved(b, S) \in B
    OBVIOUS
  <2>1. Between(Halved(b, S), n, S)
    BY HalvedBetween
  <2>2. Halved(b, S) \in B
    BY <2>1 DEF Between
  <2>3. QED
    BY <2>2
<1> HIDE DEF F, B, base
<1>3. PICK g \in [0 .. n -> B] : Recursive(g, n, base, F)
  <2>1. StaysIn(n, B, F)
    BY <1>2 DEF StaysIn
  <2>2. QED
    BY <1>1, <2>1, RecursionExists
<1>4. ASSUME NEW k \in 0 .. n
      PROVE  g[k] = IF k = 0 THEN base ELSE Halved(g[k - 1], S)
  <2> SUFFICES ASSUME k # 0
               PROVE  g[k] = Halved(g[k - 1], S)
    BY <1>3 DEF Recursive
  <2>1. k \in 1 .. n /\ k - 1 \in 0 .. n
    OBVIOUS
  <2>2. g[k] = F[<<k, g[k - 1]>>]
    BY <1>3 DEF Recursive
  <2>3. QED
    BY <1>2, <2>1, <2>2
<1>5. Is(g)
  BY <1>4
<1>6. Is(Rounds(n, S))
  <2>1. Rounds(n, S) = CHOOSE h : Is(h)
    BY Zenon DEF Rounds, base
  <2> HIDE DEF Is
  <2>2. QED
    BY <1>5, <2>1, Zenon
<1>7. PICK f : f = Rounds(n, S) /\ Is(f)
  BY <1>6
<1>8. f[0] = base /\ \A k \in 1 .. n : f[k] = Halved(f[k - 1], S)
  <2>1. \A k \in 0 .. n : f[k] = IF k = 0 THEN base ELSE Halved(f[k - 1], S)
    BY <1>7
  <2> HIDE DEF Is
  <2>2. QED
    BY <2>1
<1>9. QED
  BY <1>7, <1>8 DEF base

\* sort.Search: the places in S are those behind the one it finds.
LEMMA SearchFinds ==
    ASSUME NEW n \in Nat, NEW S \in SUBSET (1 .. n), \A k \in S : \A m \in k .. n : m \in S
    PROVE  Search(n, S) \in 0 .. n /\ \A m \in 1 .. n : m \in S <=> m > Search(n, S)
<1> DEFINE r == Rounds(n, S)
           Near(k) == Between(r[k], n, S) /\ r[k].high - r[k].low <= n - k
           T == {k \in Nat : k <= n => Near(k)}
<1>1. r[0] = [low |-> 0, high |-> n] /\ \A k \in 1 .. n : r[k] = Halved(r[k - 1], S)
  BY RoundsAre
<1> HIDE DEF r
<1>2. 0 \in T
  BY <1>1 DEF Between
<1>3. ASSUME NEW k \in Nat, k \in T
      PROVE  k + 1 \in T
  <2> SUFFICES ASSUME k + 1 <= n
               PROVE  Near(k + 1)
    OBVIOUS
  <2>1. k + 1 \in 1 .. n /\ (k + 1) - 1 = k
    OBVIOUS
  <2>2. r[k + 1] = Halved(r[k], S)
    BY <1>1, <2>1
  <2>3. Near(k)
    BY <1>3
  <2>4. /\ Between(r[k + 1], n, S)
        /\ r[k + 1].high - r[k + 1].low <= r[k].high - r[k].low
        /\ r[k].low < r[k].high => r[k + 1].high - r[k + 1].low < r[k].high - r[k].low
    BY <2>2, <2>3, HalvedBetween
  <2>5. PICK i \in 0 .. n, j \in 0 .. n : i = r[k].low /\ j = r[k].high /\ i <= j
    BY <2>3 DEF Between
  <2>6. PICK a \in 0 .. n, b \in 0 .. n : a = r[k + 1].low /\ b = r[k + 1].high /\ a <= b
    BY <2>4 DEF Between
  <2>7. j - i <= n - k /\ b - a <= j - i /\ (i < j => b - a < j - i)
    BY <2>3, <2>4, <2>5, <2>6
  <2>8. b - a <= n - (k + 1)
    BY <2>5, <2>7
  <2>9. QED
    BY <2>4, <2>6, <2>8
<1>4. Nat \subseteq T
  <2> HIDE DEF T
  <2> QED
    BY <1>2, <1>3, NatInd
<1>5. Near(n)
  BY <1>4
<1>6. PICK i \in 0 .. n, j \in 0 .. n : i = r[n].low /\ j = r[n].high /\ i <= j
  BY <1>5 DEF Between
<1>7. i = j
  BY <1>5, <1>6
<1>8. Search(n, S) = i
  BY <1>6 DEF Search, r
<1>9. (\A m \in 1 .. i : m \notin S) /\ \A m \in i + 1 .. n : m \in S
  BY <1>5, <1>6, <1>7 DEF Between
<1>10. QED
  BY <1>8, <1>9

-----------------------------------------------------------------------------
(* Ranges: what the index answers *)

\* The names a table holds.
Words == STRING

Around(s, ip) == {r \in Range(s) : Covers(r, ip)}
PlacesAround(s, ip) == {k \in DOMAIN s : Covers(s[k], ip)}

\* A range of a table has numbers for its ends.
LEMMA RangeTyped ==
    ASSUME NEW s \in Seq(GeoRanges)
    PROVE  /\ Len(s) \in Nat /\ DOMAIN s = 1 .. Len(s)
           /\ \A i \in DOMAIN s : s[i] \in GeoRanges /\ s[i].start \in Nat /\ s[i].end \in Nat
<1>1. Len(s) \in Nat /\ DOMAIN s = 1 .. Len(s)
  OBVIOUS
<1>2. \A i \in DOMAIN s : s[i] \in GeoRanges
  OBVIOUS
<1>3. \A r \in GeoRanges : r.start \in Nat /\ r.end \in Nat
  BY DEF GeoRanges, Words
<1>4. QED
  BY <1>1, <1>2, <1>3

\* Of ranges apart one at most is around an address.
LEMMA AtMostOne ==
    ASSUME NEW s \in Seq(GeoRanges), InOrder(s), NEW ip \in Nat,
           NEW i \in DOMAIN s, NEW j \in DOMAIN s, Covers(s[i], ip), Covers(s[j], ip)
    PROVE  i = j
<1>1. s[i].start \in Nat /\ s[i].end \in Nat /\ s[j].start \in Nat /\ s[j].end \in Nat
  BY RangeTyped
<1>2. s[i].start <= ip /\ ip <= s[i].end /\ s[j].start <= ip /\ ip <= s[j].end
  BY DEF Covers
<1>3. (i < j => s[i].end < s[j].start) /\ (j < i => s[j].end < s[i].start)
  BY DEF InOrder
<1>4. i \in Nat /\ j \in Nat
  BY RangeTyped
<1>5. ~(i < j) /\ ~(j < i)
  BY <1>1, <1>2, <1>3
<1>6. QED
  BY <1>4, <1>5

\* FindGeoRangeByIP: where ranges are apart, the last one that starts before the
\* address is the only one around it.
LEMMA TableAnswers ==
    ASSUME NEW s \in Seq(GeoRanges), InOrder(s), NEW ip \in Nat
    PROVE  FindGeoRangeByIP(s, ip) = Around(s, ip)
<1>1. ASSUME NEW r \in Around(s, ip), NEW o \in Around(s, ip)
      PROVE  o.start <= r.start
  <2>1. PICK i \in DOMAIN s : s[i] = r
    BY DEF Around, Range
  <2>2. PICK j \in DOMAIN s : s[j] = o
    BY DEF Around, Range
  <2>3. i = j
    BY <2>1, <2>2, AtMostOne DEF Around
  <2>4. r.start \in Nat
    BY <2>1, RangeTyped
  <2>5. QED
    BY <2>1, <2>2, <2>3, <2>4
<1>2. QED
  BY <1>1 DEF FindGeoRangeByIP, Around

\* A snapshot that says row for row what ranges say.
Snapshots ==
    [rows : Seq([start : Nat, end : Nat, country : Nat, city : Nat]), countries : Seq(Words), cities : Seq(Words)]

SaysOf(snap, row, r) ==
    /\ row.start = r.start /\ row.end = r.end
    /\ row.country \in DOMAIN snap.countries /\ snap.countries[row.country] = r.country
    /\ row.city \in DOMAIN snap.cities /\ snap.cities[row.city] = r.city

Mirrors(snap, s) ==
    /\ snap \in Snapshots /\ Len(snap.rows) = Len(s)
    /\ \A k \in 1 .. Len(s) : SaysOf(snap, snap.rows[k], s[k])

\* findContainingRow: the row of the range around the address.
LEMMA RowFound ==
    ASSUME NEW s \in Seq(GeoRanges), InOrder(s), NEW snap, Mirrors(snap, s), NEW ip \in Nat
    PROVE  findContainingRow(snap.rows, ip) = {snap.rows[k] : k \in PlacesAround(s, ip)}
<1> DEFINE n == Len(s)
           S == {k \in DOMAIN snap.rows : snap.rows[k].start > ip}
           pos == Search(n, S)
<1>1. n \in Nat /\ DOMAIN s = 1 .. n /\ \A k \in 1 .. n : s[k].start \in Nat /\ s[k].end \in Nat
  BY RangeTyped
<1>2. Len(snap.rows) = n /\ DOMAIN snap.rows = 1 .. n
  <2>1. snap.rows \in Seq([start : Nat, end : Nat, country : Nat, city : Nat])
    BY DEF Mirrors, Snapshots
  <2>2. QED
    BY <2>1 DEF Mirrors
<1>3. \A k \in 1 .. n : snap.rows[k].start = s[k].start /\ snap.rows[k].end = s[k].end
  BY DEF Mirrors, SaysOf
<1>4. S \in SUBSET (1 .. n) /\ \A k \in 1 .. n : k \in S <=> s[k].start > ip
  BY <1>2, <1>3
<1> HIDE DEF n, S
<1>5. ASSUME NEW k \in S, NEW m \in k .. n
      PROVE  m \in S
  <2>1. k \in 1 .. n /\ m \in 1 .. n /\ s[k].start > ip
    BY <1>1, <1>4
  <2>2. CASE m = k
    BY <2>2
  <2>3. CASE m > k
    <3>1. s[k].start <= s[k].end /\ s[k].end < s[m].start
      BY <1>1, <2>1, <2>3 DEF InOrder
    <3>2. s[m].start > ip
      BY <1>1, <2>1, <3>1
    <3>3. QED
      BY <1>4, <2>1, <3>2
  <2>4. QED
    BY <2>1, <2>2, <2>3
<1>6. pos \in 0 .. n /\ \A m \in 1 .. n : m \in S <=> m > pos
  <2> HIDE DEF pos
  <2> QED
    BY <1>1, <1>4, <1>5, SearchFinds DEF pos
<1>7. findContainingRow(snap.rows, ip)
        = IF pos > 0 /\ Covers(snap.rows[pos], ip) THEN {snap.rows[pos]} ELSE {}
  BY <1>2 DEF findContainingRow, S
<1> HIDE DEF pos
<1>8. \A k \in 1 .. n : Covers(snap.rows[k], ip) <=> Covers(s[k], ip)
  BY <1>3 DEF Covers
<1>9. ASSUME NEW k \in 1 .. n, Covers(s[k], ip)
      PROVE  k = pos
  <2>1. s[k].start <= ip /\ ip <= s[k].end
    BY <1>9 DEF Covers
  <2>2. k \notin S
    BY <1>1, <1>4, <2>1
  <2>3. k <= pos /\ pos \in 1 .. n /\ pos \notin S
    BY <1>1, <1>6, <2>2
  <2>4. ~(s[pos].start > ip)
    BY <1>4, <2>3
  <2>5. k < pos => s[k].end < s[pos].start
    BY <1>1, <2>3 DEF InOrder
  <2>6. s[pos].start \in Nat /\ s[k].end \in Nat
    BY <1>1, <2>3
  <2>7. ~(k < pos)
    BY <2>1, <2>4, <2>5, <2>6
  <2>8. QED
    BY <2>3, <2>7
<1>10. CASE pos > 0 /\ Covers(snap.rows[pos], ip)
  <2>1. pos \in 1 .. n /\ Covers(s[pos], ip)
    BY <1>6, <1>8, <1>10
  <2>2. PlacesAround(s, ip) = {pos}
    BY <1>1, <1>9, <2>1 DEF PlacesAround
  <2>3. QED
    BY <1>7, <1>10, <2>2
<1>11. CASE ~(pos > 0 /\ Covers(snap.rows[pos], ip))
  <2>1. \A k \in 1 .. n : ~Covers(s[k], ip)
    BY <1>8, <1>9, <1>11
  <2>2. PlacesAround(s, ip) = {}
    BY <1>1, <2>1 DEF PlacesAround
  <2>3. QED
    BY <1>7, <1>11, <2>2
<1>12. QED
  BY <1>10, <1>11

\* LookupRange and Lookup answer with the range around the address.
LEMMA MirrorAnswers ==
    ASSUME NEW s \in Seq(GeoRanges), InOrder(s), NEW snap, Mirrors(snap, s), NEW ip \in Nat
    PROVE  /\ LookupRange(snap, ip) = Around(s, ip)
           /\ IndexLookup(snap, ip) = {[country |-> r.country, city |-> r.city] : r \in Around(s, ip)}
<1> DEFINE K == PlacesAround(s, ip)
<1>1. findContainingRow(snap.rows, ip) = {snap.rows[k] : k \in K}
  BY RowFound
<1>2. ASSUME NEW k \in K
      PROVE  /\ toGeoRange(snap, snap.rows[k]) = s[k]
             /\ snap.countries[snap.rows[k].country] = s[k].country
             /\ snap.cities[snap.rows[k].city] = s[k].city
  <2>1. k \in 1 .. Len(s) /\ s[k] \in GeoRanges
    BY RangeTyped DEF PlacesAround
  <2>2. SaysOf(snap, snap.rows[k], s[k])
    BY <2>1 DEF Mirrors
  <2>3. s[k] = [start |-> s[k].start, end |-> s[k].end, country |-> s[k].country, city |-> s[k].city]
    BY <2>1 DEF GeoRanges, Words
  <2>4. QED
    BY <2>2, <2>3 DEF SaysOf, toGeoRange
<1>3. Around(s, ip) = {s[k] : k \in K}
  BY DEF Around, PlacesAround, Range
<1> HIDE DEF K
<1>4. LookupRange(snap, ip) = {toGeoRange(snap, snap.rows[k]) : k \in K}
  BY <1>1 DEF LookupRange
<1>5. IndexLookup(snap, ip)
        = {[country |-> snap.countries[snap.rows[k].country], city |-> snap.cities[snap.rows[k].city]] : k \in K}
  BY <1>1 DEF IndexLookup
<1>6. {[country |-> r.country, city |-> r.city] : r \in Around(s, ip)}
        = {[country |-> s[k].country, city |-> s[k].city] : k \in K}
  BY <1>3
<1>7. QED
  BY <1>2, <1>3, <1>4, <1>5, <1>6

-----------------------------------------------------------------------------
(* Ranges: what is kept *)

\* A sequence with one element more.
LEMMA Appended ==
    ASSUME NEW S, NEW q \in Seq(S), NEW x \in S, NEW p, p = Append(q, x)
    PROVE  /\ p \in Seq(S) /\ Len(p) = Len(q) + 1
           /\ DOMAIN p = 1 .. Len(q) + 1 /\ p[Len(q) + 1] = x
           /\ \A i \in 1 .. Len(q) : p[i] = q[i]
           /\ Range(q) \subseteq Range(p) /\ x \in Range(p)
<1>1. Len(q) \in Nat /\ DOMAIN q = 1 .. Len(q)
  OBVIOUS
<1>2. p \in Seq(S) /\ Len(p) = Len(q) + 1
  OBVIOUS
<1>3. DOMAIN p = 1 .. Len(q) + 1
  BY <1>2
<1>4. p[Len(q) + 1] = x /\ \A i \in 1 .. Len(q) : p[i] = q[i]
  OBVIOUS
<1>5. \A i \in 1 .. Len(q) : i \in 1 .. Len(q) + 1
  BY <1>1
<1>6. Len(q) + 1 \in 1 .. Len(q) + 1
  BY <1>1
<1>7. Range(q) \subseteq Range(p) /\ x \in Range(p)
  BY <1>1, <1>3, <1>4, <1>5, <1>6, Zenon DEF Range
<1>8. QED
  BY <1>2, <1>3, <1>4, <1>7

\* Keep leaves ranges apart and in order.
LEMMA KeepInOrder ==
    ASSUME NEW kept \in Seq(GeoRanges), NEW r \in GeoRanges
    PROVE  /\ Keep(kept, r) \in Seq(GeoRanges)
           /\ InOrder(kept) => InOrder(Keep(kept, r))
<1>1. /\ Len(kept) \in Nat /\ DOMAIN kept = 1 .. Len(kept)
      /\ \A i \in 1 .. Len(kept) : kept[i].start \in Nat /\ kept[i].end \in Nat
  BY RangeTyped
<1>2. r.start \in Nat /\ r.end \in Nat
  BY DEF GeoRanges, Words
<1>3. CASE ~Fits(kept, r)
  BY <1>3 DEF Keep
<1>4. CASE Fits(kept, r)
  <2>1. PICK new \in Seq(GeoRanges) : new = Append(kept, r) /\ new = Keep(kept, r)
    <3>1. Keep(kept, r) = Append(kept, r)
      BY <1>4, Zenon DEF Keep
    <3>2. Append(kept, r) \in Seq(GeoRanges)
      OBVIOUS
    <3>3. QED
      BY <3>1, <3>2, Zenon
  <2>2. /\ DOMAIN new = 1 .. Len(kept) + 1 /\ new[Len(kept) + 1] = r
        /\ \A i \in 1 .. Len(kept) : new[i] = kept[i]
    <3>0. new = Append(kept, r)
      BY <2>1
    <3>1. Len(new) = Len(kept) + 1 /\ new[Len(kept) + 1] = r /\ \A i \in 1 .. Len(kept) : new[i] = kept[i]
      BY <3>0
    <3>2. QED
      BY <2>1, <3>1
  <2>3. SUFFICES ASSUME InOrder(kept)
                 PROVE  InOrder(new)
    BY <2>1
  <2>4. r.start <= r.end /\ (Len(kept) > 0 => r.start > kept[Len(kept)].end)
    BY <1>1, <1>4 DEF Fits, Last
  <2>5. ASSUME NEW i \in 1 .. Len(kept)
        PROVE  kept[i].end < r.start
    <3>1. PICK m \in Nat : m = Len(kept) /\ i \in 1 .. m /\ m \in DOMAIN kept /\ i \in DOMAIN kept
      <4>1. PICK m \in Nat : m = Len(kept) /\ DOMAIN kept = 1 .. m
        BY <1>1
      <4>2. i \in 1 .. m
        BY <4>1
      <4>3. m \in 1 .. m
        BY <4>2
      <4>4. QED
        BY <4>1, <4>2, <4>3
    <3>2. kept[i].end \in Nat /\ kept[m].start \in Nat /\ kept[m].end \in Nat
      BY <1>1, <3>1
    <3>3. r.start > kept[m].end
      BY <2>4, <3>1
    <3>4. CASE i = m
      BY <1>2, <3>2, <3>3, <3>4
    <3>5. CASE i # m
      <4>1. i < m
        BY <3>1, <3>5
      <4>2. kept[i].end < kept[m].start /\ kept[m].start <= kept[m].end
        BY <2>3, <3>1, <4>1 DEF InOrder
      <4>3. QED
        BY <1>2, <3>2, <3>3, <4>2
    <3>6. QED
      BY <3>4, <3>5
  <2>6. ASSUME NEW i \in DOMAIN new
        PROVE  new[i].start <= new[i].end
    <3>1. i = Len(kept) + 1 \/ i \in 1 .. Len(kept)
      BY <1>1, <2>2
    <3>2. i \in 1 .. Len(kept) => kept[i].start <= kept[i].end
      BY <1>1, <2>3 DEF InOrder
    <3>3. QED
      BY <2>2, <2>4, <3>1, <3>2
  <2>7. ASSUME NEW i \in DOMAIN new, NEW j \in DOMAIN new, i < j
        PROVE  new[i].end < new[j].start
    <3>1. i \in 1 .. Len(kept) /\ (j = Len(kept) + 1 \/ j \in 1 .. Len(kept))
      BY <1>1, <2>2, <2>7
    <3>2. j \in 1 .. Len(kept) => kept[i].end < kept[j].start
      BY <1>1, <2>3, <2>7, <3>1 DEF InOrder
    <3>3. QED
      BY <2>2, <2>5, <3>1, <3>2
  <2>8. QED
    BY <2>6, <2>7 DEF InOrder
<1>5. QED
  BY <1>3, <1>4

\* What KeptOf says, range by range.
LEMMA KeptIs ==
    ASSUME NEW s \in Seq(GeoRanges)
    PROVE  /\ KeptOf(s)[0] = <<>>
           /\ \A i \in 1 .. Len(s) : KeptOf(s)[i] = Keep(KeptOf(s)[i - 1], s[i])
<1> DEFINE n == Len(s)
           F == [x \in (1 .. n) \X Seq(GeoRanges) |-> Keep(x[2], s[x[1]])]
           Is(h) == h = [i \in 0 .. n |-> IF i = 0 THEN <<>> ELSE Keep(h[i - 1], s[i])]
<1>1. n \in Nat /\ \A i \in 1 .. n : s[i] \in GeoRanges
  OBVIOUS
<1>2. \A i \in 1 .. n, v \in Seq(GeoRanges) : F[<<i, v>>] = Keep(v, s[i]) /\ Keep(v, s[i]) \in Seq(GeoRanges)
  BY <1>1, KeepInOrder
<1> HIDE DEF F, n
<1>3. PICK g \in [0 .. n -> Seq(GeoRanges)] : Recursive(g, n, <<>>, F)
  <2>1. StaysIn(n, Seq(GeoRanges), F)
    BY <1>2 DEF StaysIn
  <2>2. <<>> \in Seq(GeoRanges)
    OBVIOUS
  <2>3. QED
    BY <1>1, <2>1, <2>2, RecursionExists
<1>4. ASSUME NEW i \in 0 .. n
      PROVE  g[i] = IF i = 0 THEN <<>> ELSE Keep(g[i - 1], s[i])
  <2> SUFFICES ASSUME i # 0
               PROVE  g[i] = Keep(g[i - 1], s[i])
    BY <1>3 DEF Recursive
  <2>1. i \in 1 .. n /\ i - 1 \in 0 .. n
    BY <1>1
  <2>2. g[i] = F[<<i, g[i - 1]>>]
    BY <1>3 DEF Recursive
  <2>3. QED
    BY <1>2, <2>1, <2>2
<1>5. Is(g)
  BY <1>4
<1>6. Is(KeptOf(s))
  <2>1. KeptOf(s) = CHOOSE h : Is(h)
    BY Zenon DEF KeptOf, n
  <2> HIDE DEF Is
  <2>2. QED
    BY <1>5, <2>1, Zenon
<1>7. PICK f : f = KeptOf(s) /\ Is(f)
  BY <1>6
<1>8. f[0] = <<>> /\ \A i \in 1 .. n : f[i] = Keep(f[i - 1], s[i])
  <2>1. \A i \in 0 .. n : f[i] = IF i = 0 THEN <<>> ELSE Keep(f[i - 1], s[i])
    BY <1>7
  <2> HIDE DEF Is
  <2>2. QED
    BY <1>1, <2>1
<1>9. QED
  BY <1>7, <1>8 DEF n

\* Of the first i ranges some are kept, and each of the others is empty or meets one
\* that is kept.
LeftOut(r, kept) ==
    r.start > r.end \/ \E k \in Range(kept) : r.start <= k.end /\ k.start <= r.end

KeepsOf(s, i, kept) ==
    /\ kept \in Seq(GeoRanges) /\ InOrder(kept) /\ Len(kept) <= i
    /\ \A k \in DOMAIN kept : \E m \in 1 .. i : kept[k] = s[m]
    /\ \A m \in 1 .. i : s[m] \in Range(kept) \/ LeftOut(s[m], kept)
    /\ Len(kept) = i => \A m \in 1 .. i : kept[m] = s[m]

LEMMA KeepsOneMore ==
    ASSUME NEW s \in Seq(GeoRanges), \A i, j \in DOMAIN s : i < j => s[i].start <= s[j].start,
           NEW i \in 0 .. Len(s) - 1, NEW kept, KeepsOf(s, i, kept)
    PROVE  KeepsOf(s, i + 1, Keep(kept, s[i + 1]))
<1> DEFINE r == s[i + 1]
<1>1. /\ Len(s) \in Nat /\ i \in Nat /\ i + 1 \in 1 .. Len(s) /\ r \in GeoRanges
      /\ \A m \in 1 .. Len(s) : s[m].start \in Nat /\ s[m].end \in Nat
  BY RangeTyped
<1>2. kept \in Seq(GeoRanges) /\ Len(kept) \in Nat /\ Len(kept) <= i /\ InOrder(kept)
  BY DEF KeepsOf
<1>3. PICK new \in Seq(GeoRanges) : new = Keep(kept, r) /\ InOrder(new)
  BY <1>1, <1>2, KeepInOrder
<1>4. CASE Fits(kept, r)
  <2> HIDE DEF r
  <2>1. /\ Len(new) = Len(kept) + 1 /\ new[Len(kept) + 1] = r
        /\ \A k \in 1 .. Len(kept) : new[k] = kept[k]
        /\ Range(kept) \subseteq Range(new) /\ r \in Range(new)
    <3>1. new = Append(kept, r)
      BY <1>3, <1>4, Zenon DEF Keep
    <3>2. r \in GeoRanges
      BY <1>1 DEF r
    <3>3. Len(new) = Len(kept) + 1 /\ new[Len(kept) + 1] = r /\ \A k \in 1 .. Len(kept) : new[k] = kept[k]
      BY <1>2, <3>1, <3>2
    <3>4. DOMAIN kept = 1 .. Len(kept) /\ DOMAIN new = 1 .. Len(kept) + 1
      BY <1>2, <3>3
    <3>5. Range(kept) \subseteq Range(new) /\ r \in Range(new)
      BY <1>2, <3>3, <3>4 DEF Range
    <3>6. QED
      BY <3>3, <3>5
  <2> USE DEF r
  <2>2. Range(kept) \subseteq Range(new) /\ r \in Range(new)
    BY <2>1
  <2>3. ASSUME NEW k \in DOMAIN new
        PROVE  \E m \in 1 .. i + 1 : new[k] = s[m]
    <3>1. k = Len(kept) + 1 \/ k \in DOMAIN kept
      BY <1>2, <2>1
    <3>2. CASE k = Len(kept) + 1
      BY <1>1, <2>1, <3>2
    <3>3. CASE k \in DOMAIN kept
      <4>1. PICK m \in 1 .. i : kept[k] = s[m]
        BY <3>3 DEF KeepsOf
      <4>2. new[k] = kept[k] /\ m \in 1 .. i + 1
        BY <1>1, <1>2, <2>1, <3>3
      <4>3. QED
        BY <4>1, <4>2
    <3>4. QED
      BY <3>1, <3>2, <3>3
  <2>4. ASSUME NEW m \in 1 .. i + 1
        PROVE  s[m] \in Range(new) \/ LeftOut(s[m], new)
    <3>1. CASE m = i + 1
      BY <2>2, <3>1
    <3>2. CASE m \in 1 .. i
      <4>1. s[m] \in Range(kept) \/ LeftOut(s[m], kept)
        BY <3>2 DEF KeepsOf
      <4>2. QED
        BY <2>2, <4>1 DEF LeftOut
    <3>3. QED
      BY <1>1, <3>1, <3>2
  <2>5. ASSUME Len(new) = i + 1, NEW m \in 1 .. i + 1
        PROVE  new[m] = s[m]
    <3>1. Len(kept) = i
      BY <1>1, <1>2, <2>1, <2>5
    <3>2. CASE m = i + 1
      BY <2>1, <3>1, <3>2
    <3>3. CASE m \in 1 .. i
      <4>1. kept[m] = s[m]
        BY <3>1, <3>3 DEF KeepsOf
      <4>2. QED
        BY <2>1, <3>1, <3>3, <4>1
    <3>4. QED
      BY <1>1, <3>2, <3>3
  <2>6. Len(new) <= i + 1
    BY <1>1, <1>2, <2>1
  <2>7. KeepsOf(s, i + 1, new)
    BY <1>3, <2>3, <2>4, <2>5, <2>6 DEF KeepsOf
  <2>8. QED
    BY <1>3, <2>7
<1>5. CASE ~Fits(kept, r)
  <2>1. new = kept
    BY <1>3, <1>5 DEF Keep
  <2>2. LeftOut(r, kept)
    <3>1. CASE r.start > r.end
      BY <3>1 DEF LeftOut
    <3>2. CASE ~(r.start > r.end)
      <4>1. r.start <= r.end /\ Len(kept) > 0 /\ ~(r.start > kept[Len(kept)].end)
        BY <1>1, <1>2, <1>5, <3>2 DEF Fits, Last
      <4>2. Len(kept) \in DOMAIN kept /\ kept[Len(kept)] \in Range(kept)
        BY <1>2, <4>1 DEF Range
      <4>3. PICK m \in 1 .. i : kept[Len(kept)] = s[m]
        BY <4>2 DEF KeepsOf
      <4>4. s[m].start <= r.start
        BY <1>1, <4>3
      <4>5. r.start <= s[m].end /\ s[m].start <= r.end
        BY <1>1, <4>1, <4>3, <4>4
      <4>6. QED
        BY <4>2, <4>3, <4>5 DEF LeftOut
    <3>3. QED
      BY <3>1, <3>2
  <2>3. \A m \in 1 .. i + 1 : s[m] \in Range(kept) \/ LeftOut(s[m], kept)
    <3>1. \A m \in 1 .. i : s[m] \in Range(kept) \/ LeftOut(s[m], kept)
      BY DEF KeepsOf
    <3>2. \A m \in 1 .. i + 1 : m \in 1 .. i \/ m = i + 1
      BY <1>1
    <3> QED
      BY <2>2, <3>1, <3>2
  <2>4. \A k \in DOMAIN kept : \E m \in 1 .. i + 1 : kept[k] = s[m]
    <3>1. \A k \in DOMAIN kept : \E m \in 1 .. i : kept[k] = s[m]
      BY DEF KeepsOf
    <3>2. \A m \in 1 .. i : m \in 1 .. i + 1
      BY <1>1
    <3>3. QED
      BY <3>1, <3>2
  <2>5. Len(kept) <= i + 1 /\ Len(kept) # i + 1
    BY <1>1, <1>2
  <2>6. KeepsOf(s, i + 1, kept)
    BY <1>2, <2>3, <2>4, <2>5 DEF KeepsOf
  <2>7. QED
    BY <1>3, <2>1, <2>6
<1>6. QED
  BY <1>4, <1>5

\* NormalizeRanges, after i ranges.
LEMMA KeptKnown ==
    ASSUME NEW s \in Seq(GeoRanges), \A i, j \in DOMAIN s : i < j => s[i].start <= s[j].start
    PROVE  \A i \in 0 .. Len(s) : KeepsOf(s, i, KeptOf(s)[i])
<1> DEFINE n == Len(s)
           kept == KeptOf(s)
           T == {i \in Nat : i <= n => KeepsOf(s, i, kept[i])}
<1>1. n \in Nat
  OBVIOUS
<1>2. kept[0] = <<>> /\ \A i \in 1 .. n : kept[i] = Keep(kept[i - 1], s[i])
  BY KeptIs
<1> HIDE DEF kept
<1>3. 0 \in T
  <2>1. KeepsOf(s, 0, <<>>)
    BY DEF KeepsOf, InOrder
  <2>2. KeepsOf(s, 0, kept[0])
    BY <1>2, <2>1, Zenon
  <2>3. QED
    BY <2>2
<1>4. ASSUME NEW i \in Nat, i \in T
      PROVE  i + 1 \in T
  <2> SUFFICES ASSUME i + 1 <= n
               PROVE  KeepsOf(s, i + 1, kept[i + 1])
    OBVIOUS
  <2>1. i + 1 \in 1 .. n /\ (i + 1) - 1 = i /\ i \in 0 .. n - 1
    BY <1>1
  <2>2. KeepsOf(s, i, kept[i]) /\ kept[i + 1] = Keep(kept[i], s[i + 1])
    BY <1>1, <1>2, <1>4, <2>1
  <2>3. QED
    BY <2>1, <2>2, KeepsOneMore
<1>5. Nat \subseteq T
  <2> HIDE DEF T
  <2> QED
    BY <1>3, <1>4, NatInd
<1>6. QED
  BY <1>5 DEF kept

\* Ranges that are apart and in order are all kept.
LEMMA AllKept ==
    ASSUME NEW s \in Seq(GeoRanges), InOrder(s)
    PROVE  \A i \in 0 .. Len(s) : KeptOf(s)[i] = SubSeq(s, 1, i)
<1> DEFINE n == Len(s)
           kept == KeptOf(s)
           T == {i \in Nat : i <= n => kept[i] = SubSeq(s, 1, i)}
<1>1. n \in Nat /\ DOMAIN s = 1 .. n /\ \A i \in 1 .. n : s[i] \in GeoRanges
  OBVIOUS
<1>2. kept[0] = <<>> /\ \A i \in 1 .. n : kept[i] = Keep(kept[i - 1], s[i])
  BY KeptIs
<1> HIDE DEF kept
<1>3. 0 \in T
  <2>1. SubSeq(s, 1, 0) = <<>>
    BY <1>1
  <2>2. kept[0] = SubSeq(s, 1, 0)
    BY <1>2, <2>1, Zenon
  <2>3. QED
    BY <2>2
<1>4. ASSUME NEW i \in Nat, i \in T
      PROVE  i + 1 \in T
  <2> SUFFICES ASSUME i + 1 <= n
               PROVE  kept[i + 1] = SubSeq(s, 1, i + 1)
    OBVIOUS
  <2>1. i + 1 \in 1 .. n /\ (i + 1) - 1 = i
    BY <1>1
  <2>2. PICK k \in Seq(GeoRanges) : k = SubSeq(s, 1, i) /\ kept[i] = k /\ Len(k) = i
    BY <1>1, <1>4, <2>1
  <2>3. Fits(k, s[i + 1])
    <3>1. s[i + 1].start <= s[i + 1].end
      BY <1>1, <2>1 DEF InOrder
    <3>2. CASE i = 0
      BY <2>2, <3>1, <3>2 DEF Fits
    <3>3. CASE i > 0
      <4>1. k[Len(k)] = s[i]
        BY <1>1, <2>1, <2>2, <3>3
      <4>2. s[i].end < s[i + 1].start
        BY <1>1, <2>1, <3>3 DEF InOrder
      <4>3. s[i].end \in Nat /\ s[i + 1].start \in Nat
        BY <1>1, <2>1, <3>3, RangeTyped
      <4>4. QED
        BY <3>1, <4>1, <4>2, <4>3 DEF Fits, Last
    <3>4. QED
      BY <3>2, <3>3
  <2>4. kept[i + 1] = Append(k, s[i + 1])
    BY <1>2, <2>1, <2>2, <2>3 DEF Keep
  <2>5. Append(SubSeq(s, 1, i), s[i + 1]) = SubSeq(s, 1, i + 1)
    BY <1>1, <2>1
  <2>6. QED
    BY <2>2, <2>4, <2>5
<1>5. Nat \subseteq T
  <2> HIDE DEF T
  <2> QED
    BY <1>3, <1>4, NatInd
<1>6. QED
  BY <1>5 DEF kept

-----------------------------------------------------------------------------
(* Ranges: the index that is built *)

\* dictionaryBuilder: names keep their places, and the new one has one.
LEMMA WithNameIs ==
    ASSUME NEW names \in Seq(Words), NEW v \in Words
    PROVE  \E new \in Seq(Words) :
              /\ new = WithName(names, v)
              /\ \A i \in DOMAIN names : i \in DOMAIN new /\ new[i] = names[i]
              /\ \E i \in DOMAIN new : new[i] = v
<1>1. Len(names) \in Nat /\ DOMAIN names = 1 .. Len(names)
  OBVIOUS
<1>2. CASE Contains(names, v)
  <2>1. WithName(names, v) = names
    BY <1>2 DEF WithName
  <2>2. \E i \in DOMAIN names : names[i] = v
    BY <1>1, <1>2 DEF Contains
  <2>3. QED
    BY <2>1, <2>2, Zenon
<1>3. CASE ~Contains(names, v)
  <2>1. PICK new : new = Append(names, v)
    OBVIOUS
  <2>2. /\ new \in Seq(Words) /\ Len(new) = Len(names) + 1 /\ new[Len(names) + 1] = v
        /\ \A i \in 1 .. Len(names) : new[i] = names[i]
    BY <2>1
  <2>3. DOMAIN new = 1 .. Len(names) + 1
    BY <2>2
  <2>4. new = WithName(names, v)
    BY <1>3, <2>1, Zenon DEF WithName
  <2>5. \A i \in DOMAIN names : i \in DOMAIN new /\ new[i] = names[i]
    BY <1>1, <2>2, <2>3
  <2>6. Len(names) + 1 \in DOMAIN new
    BY <1>1, <2>3
  <2>7. QED
    BY <2>2, <2>4, <2>5, <2>6, Zenon
<1>4. QED
  BY <1>2, <1>3, Zenon

\* The place of a name that is stored.
LEMMA IDIs ==
    ASSUME NEW names, NEW v, NEW i \in DOMAIN names, names[i] = v
    PROVE  ID(names, v) \in DOMAIN names /\ names[ID(names, v)] = v
BY Zenon DEF ID

\* Fits asks the last end only.
LEMMA FitsAlike ==
    ASSUME NEW s \in Seq(GeoRanges), NEW snap, Mirrors(snap, s), NEW r \in GeoRanges
    PROVE  Fits(snap.rows, r) <=> Fits(s, r)
<1>1. PICK rows \in Seq([start : Nat, end : Nat, country : Nat, city : Nat]) : rows = snap.rows /\ Len(rows) = Len(s)
  BY DEF Mirrors, Snapshots
<1>2. Len(s) \in Nat /\ (s = <<>> <=> Len(s) = 0) /\ (rows = <<>> <=> Len(s) = 0)
  BY <1>1
<1>3. CASE Len(s) = 0
  BY <1>1, <1>2, <1>3 DEF Fits
<1>4. CASE Len(s) # 0
  <2>1. Len(s) \in 1 .. Len(s)
    BY <1>2, <1>4
  <2>2. SaysOf(snap, rows[Len(s)], s[Len(s)])
    BY <1>1, <2>1 DEF Mirrors
  <2>3. Last(rows).end = Last(s).end
    BY <1>1, <2>2 DEF Last, SaysOf
  <2>4. QED
    BY <1>1, <1>2, <1>4, <2>3 DEF Fits
<1>5. QED
  BY <1>3, <1>4

Rows == [start : Nat, end : Nat, country : Nat, city : Nat]

\* What AddRange does with a range that fits.
LEMMA AddRangeIs ==
    ASSUME NEW b \in Snapshots, NEW r \in GeoRanges, Fits(b.rows, r)
    PROVE  \E rows \in Seq(Rows), countries \in Seq(Words), cities \in Seq(Words), row \in Rows :
              /\ AddRange(b, r) = [rows |-> rows, countries |-> countries, cities |-> cities]
              /\ rows = Append(b.rows, row)
              /\ \A i \in DOMAIN b.countries : i \in DOMAIN countries /\ countries[i] = b.countries[i]
              /\ \A i \in DOMAIN b.cities : i \in DOMAIN cities /\ cities[i] = b.cities[i]
              /\ row.start = r.start /\ row.end = r.end
              /\ row.country \in DOMAIN countries /\ countries[row.country] = r.country
              /\ row.city \in DOMAIN cities /\ cities[row.city] = r.city
<1>1. /\ b.rows \in Seq(Rows) /\ b.countries \in Seq(Words) /\ b.cities \in Seq(Words)
      /\ r.country \in Words /\ r.city \in Words /\ r.start \in Nat /\ r.end \in Nat
  BY DEF Snapshots, GeoRanges, Rows, Words
<1>2. PICK countries \in Seq(Words) :
          /\ countries = WithName(b.countries, r.country)
          /\ \A i \in DOMAIN b.countries : i \in DOMAIN countries /\ countries[i] = b.countries[i]
          /\ \E i \in DOMAIN countries : countries[i] = r.country
  BY <1>1, WithNameIs
<1>3. PICK cities \in Seq(Words) :
          /\ cities = WithName(b.cities, r.city)
          /\ \A i \in DOMAIN b.cities : i \in DOMAIN cities /\ cities[i] = b.cities[i]
          /\ \E i \in DOMAIN cities : cities[i] = r.city
  BY <1>1, WithNameIs
<1>4. PICK k : k = ID(countries, r.country) /\ k \in DOMAIN countries /\ countries[k] = r.country
  BY <1>2, IDIs
<1>5. PICK l : l = ID(cities, r.city) /\ l \in DOMAIN cities /\ cities[l] = r.city
  BY <1>3, IDIs
<1> DEFINE row == [start |-> r.start, end |-> r.end, country |-> k, city |-> l]
<1>6. k \in Nat /\ l \in Nat
  <2>1. \A q \in Seq(Words) : DOMAIN q \subseteq Nat
    OBVIOUS
  <2>2. QED
    BY <1>4, <1>5, <2>1
<1>7. row \in Rows
  BY <1>1, <1>6 DEF Rows
<1>8. Append(b.rows, row) \in Seq(Rows)
  BY <1>1, <1>7
<1>9. AddRange(b, r) = [rows |-> Append(b.rows, row), countries |-> countries, cities |-> cities]
  BY <1>2, <1>3, <1>4, <1>5, Zenon DEF AddRange
<1>10. row.start = r.start /\ row.end = r.end /\ row.country = k /\ row.city = l
  OBVIOUS
<1> HIDE DEF row
<1>11. PICK rows \in Seq(Rows) : rows = Append(b.rows, row)
  BY <1>8
<1>12. WITNESS rows \in Seq(Rows), countries \in Seq(Words), cities \in Seq(Words), row \in Rows
<1>13. AddRange(b, r) = [rows |-> rows, countries |-> countries, cities |-> cities]
  BY <1>9, <1>11, Zenon
<1>14. QED
  BY <1>2, <1>3, <1>4, <1>5, <1>10, <1>11, <1>13, Zenon

\* AddRange stays in the snapshots.
LEMMA AddRangeTyped ==
    ASSUME NEW b \in Snapshots, NEW r \in GeoRanges
    PROVE  AddRange(b, r) \in Snapshots
<1>1. CASE Fits(b.rows, r)
  <2>1. PICK rows \in Seq(Rows), countries \in Seq(Words), cities \in Seq(Words) :
            AddRange(b, r) = [rows |-> rows, countries |-> countries, cities |-> cities]
    BY <1>1, AddRangeIs
  <2>2. QED
    BY <2>1 DEF Snapshots, Rows
<1>2. CASE ~Fits(b.rows, r)
  BY <1>2 DEF AddRange
<1>3. QED
  BY <1>1, <1>2

\* CompactBuilder keeps what NormalizeRanges keeps.
LEMMA AddRangeMirrors ==
    ASSUME NEW kept \in Seq(GeoRanges), NEW b, Mirrors(b, kept), NEW r \in GeoRanges
    PROVE  Mirrors(AddRange(b, r), Keep(kept, r))
<1>1. b \in Snapshots /\ Len(b.rows) = Len(kept) /\ Len(kept) \in Nat /\ b.rows \in Seq(Rows)
  BY DEF Mirrors, Snapshots, Rows
<1>2. CASE ~Fits(kept, r)
  BY <1>2, FitsAlike, Zenon DEF AddRange, Keep
<1>3. CASE Fits(kept, r)
  <2>1. Fits(b.rows, r)
    BY <1>3, FitsAlike
  <2>2. PICK rows \in Seq(Rows), countries \in Seq(Words), cities \in Seq(Words), row \in Rows :
              /\ AddRange(b, r) = [rows |-> rows, countries |-> countries, cities |-> cities]
              /\ rows = Append(b.rows, row)
              /\ \A i \in DOMAIN b.countries : i \in DOMAIN countries /\ countries[i] = b.countries[i]
              /\ \A i \in DOMAIN b.cities : i \in DOMAIN cities /\ cities[i] = b.cities[i]
              /\ row.start = r.start /\ row.end = r.end
              /\ row.country \in DOMAIN countries /\ countries[row.country] = r.country
              /\ row.city \in DOMAIN cities /\ cities[row.city] = r.city
    BY <1>1, <2>1, AddRangeIs
  <2>3. PICK new \in Seq(GeoRanges) : new = Append(kept, r) /\ new = Keep(kept, r)
    <3>1. Keep(kept, r) = Append(kept, r)
      BY <1>3, Zenon DEF Keep
    <3>2. Append(kept, r) \in Seq(GeoRanges)
      OBVIOUS
    <3>3. QED
      BY <3>1, <3>2, Zenon
  <2>4. new = Append(kept, r)
    BY <2>3
  <2>5. Len(new) = Len(kept) + 1 /\ new[Len(kept) + 1] = r /\ \A i \in 1 .. Len(kept) : new[i] = kept[i]
    BY <2>4
  <2>6. rows = Append(b.rows, row)
    BY <2>2
  <2>7. Len(rows) = Len(b.rows) + 1 /\ rows[Len(b.rows) + 1] = row /\ \A i \in 1 .. Len(b.rows) : rows[i] = b.rows[i]
    BY <1>1, <2>6
  <2>8. PICK snap \in Snapshots : snap = AddRange(b, r) /\ snap.rows = rows /\ snap.countries = countries /\ snap.cities = cities
    <3> DEFINE snap == [rows |-> rows, countries |-> countries, cities |-> cities]
    <3>1. snap \in Snapshots /\ snap.rows = rows /\ snap.countries = countries /\ snap.cities = cities
      BY DEF Snapshots, Rows
    <3>2. snap = AddRange(b, r)
      BY <2>2, Zenon
    <3> HIDE DEF snap
    <3>3. QED
      BY <3>1, <3>2, Zenon
  <2>9. Len(snap.rows) = Len(new)
    BY <1>1, <2>5, <2>7, <2>8
  <2>10. ASSUME NEW i \in 1 .. Len(new)
         PROVE  SaysOf(snap, rows[i], new[i])
    <3>1. i = Len(kept) + 1 \/ i \in 1 .. Len(kept)
      BY <1>1, <2>5
    <3>2. CASE i = Len(kept) + 1
      <4>1. rows[i] = row /\ new[i] = r
        BY <1>1, <2>5, <2>7, <3>2
      <4>2. QED
        BY <2>2, <2>8, <4>1 DEF SaysOf
    <3>3. CASE i \in 1 .. Len(kept)
      <4>1. rows[i] = b.rows[i] /\ new[i] = kept[i]
        BY <1>1, <2>5, <2>7, <3>3
      <4>2. SaysOf(b, b.rows[i], kept[i])
        BY <3>3 DEF Mirrors
      <4>3. QED
        BY <2>2, <2>8, <4>1, <4>2 DEF SaysOf
    <3>4. QED
      BY <3>1, <3>2, <3>3
  <2>11. Mirrors(snap, new)
    BY <2>8, <2>9, <2>10 DEF Mirrors
  <2>12. QED
    BY <2>3, <2>8, <2>11
<1>4. QED
  BY <1>2, <1>3

\* What BuiltOf says, range by range.
LEMMA BuiltIs ==
    ASSUME NEW s \in Seq(GeoRanges)
    PROVE  /\ BuiltOf(s)[0] = EmptySnapshot
           /\ \A i \in 1 .. Len(s) : BuiltOf(s)[i] = AddRange(BuiltOf(s)[i - 1], s[i])
<1> DEFINE n == Len(s)
           F == [x \in (1 .. n) \X Snapshots |-> AddRange(x[2], s[x[1]])]
           Is(h) == h = [i \in 0 .. n |-> IF i = 0 THEN EmptySnapshot ELSE AddRange(h[i - 1], s[i])]
<1>1. n \in Nat /\ \A i \in 1 .. n : s[i] \in GeoRanges
  OBVIOUS
<1>2. \A i \in 1 .. n, v \in Snapshots : F[<<i, v>>] = AddRange(v, s[i]) /\ AddRange(v, s[i]) \in Snapshots
  BY <1>1, AddRangeTyped
<1> HIDE DEF F, n
<1>3. PICK g \in [0 .. n -> Snapshots] : Recursive(g, n, EmptySnapshot, F)
  <2>1. StaysIn(n, Snapshots, F)
    BY <1>2 DEF StaysIn
  <2>2. EmptySnapshot \in Snapshots
    BY DEF EmptySnapshot, Snapshots
  <2>3. QED
    BY <1>1, <2>1, <2>2, RecursionExists
<1>4. ASSUME NEW i \in 0 .. n
      PROVE  g[i] = IF i = 0 THEN EmptySnapshot ELSE AddRange(g[i - 1], s[i])
  <2> SUFFICES ASSUME i # 0
               PROVE  g[i] = AddRange(g[i - 1], s[i])
    BY <1>3 DEF Recursive
  <2>1. i \in 1 .. n /\ i - 1 \in 0 .. n
    BY <1>1
  <2>2. g[i] = F[<<i, g[i - 1]>>]
    BY <1>3 DEF Recursive
  <2>3. QED
    BY <1>2, <2>1, <2>2
<1>5. Is(g)
  BY <1>4
<1>6. Is(BuiltOf(s))
  <2>1. BuiltOf(s) = CHOOSE h : Is(h)
    BY Zenon DEF BuiltOf, n
  <2> HIDE DEF Is
  <2>2. QED
    BY <1>5, <2>1, Zenon
<1>7. PICK f : f = BuiltOf(s) /\ Is(f)
  BY <1>6
<1>8. f[0] = EmptySnapshot /\ \A i \in 1 .. n : f[i] = AddRange(f[i - 1], s[i])
  <2>1. \A i \in 0 .. n : f[i] = IF i = 0 THEN EmptySnapshot ELSE AddRange(f[i - 1], s[i])
    BY <1>7
  <2> HIDE DEF Is
  <2>2. QED
    BY <1>1, <2>1
<1>9. QED
  BY <1>7, <1>8 DEF n

\* The snapshot says what is kept.
LEMMA BuiltMirrors ==
    ASSUME NEW s \in Seq(GeoRanges)
    PROVE  \A i \in 0 .. Len(s) : KeptOf(s)[i] \in Seq(GeoRanges) /\ Mirrors(BuiltOf(s)[i], KeptOf(s)[i])
<1> DEFINE n == Len(s)
           kept == KeptOf(s)
           built == BuiltOf(s)
           T == {i \in Nat : i <= n => kept[i] \in Seq(GeoRanges) /\ Mirrors(built[i], kept[i])}
<1>1. n \in Nat /\ \A i \in 1 .. n : s[i] \in GeoRanges
  OBVIOUS
<1>2. kept[0] = <<>> /\ \A i \in 1 .. n : kept[i] = Keep(kept[i - 1], s[i])
  BY KeptIs
<1>3. built[0] = EmptySnapshot /\ \A i \in 1 .. n : built[i] = AddRange(built[i - 1], s[i])
  BY BuiltIs
<1> HIDE DEF kept, built
<1>4. 0 \in T
  <2>1. Mirrors(EmptySnapshot, <<>>)
    BY DEF Mirrors, EmptySnapshot, Snapshots
  <2>2. Mirrors(built[0], kept[0])
    BY <1>2, <1>3, <2>1, Zenon
  <2>3. kept[0] \in Seq(GeoRanges)
    BY <1>2
  <2>4. QED
    BY <2>2, <2>3
<1>5. ASSUME NEW i \in Nat, i \in T
      PROVE  i + 1 \in T
  <2> SUFFICES ASSUME i + 1 <= n
               PROVE  kept[i + 1] \in Seq(GeoRanges) /\ Mirrors(built[i + 1], kept[i + 1])
    OBVIOUS
  <2>1. i + 1 \in 1 .. n /\ (i + 1) - 1 = i
    BY <1>1
  <2>2. kept[i] \in Seq(GeoRanges) /\ Mirrors(built[i], kept[i])
    BY <1>1, <1>5, <2>1
  <2>3. kept[i + 1] = Keep(kept[i], s[i + 1]) /\ built[i + 1] = AddRange(built[i], s[i + 1])
    BY <1>2, <1>3, <2>1
  <2>4. s[i + 1] \in GeoRanges
    BY <1>1, <2>1
  <2>5. QED
    BY <2>2, <2>3, <2>4, AddRangeMirrors, KeepInOrder
<1>6. Nat \subseteq T
  <2> HIDE DEF T
  <2> QED
    BY <1>4, <1>5, NatInd
<1>7. QED
  BY <1>6 DEF kept, built

\* What NamesIn says, name by name.
LEMMA NamesInIs ==
    ASSUME NEW column \in Seq(Words)
    PROVE  /\ NamesIn(column)[0] = <<>>
           /\ \A i \in 1 .. Len(column) :
                 NamesIn(column)[i - 1] \in Seq(Words) /\ NamesIn(column)[i] = WithName(NamesIn(column)[i - 1], column[i])
<1> DEFINE n == Len(column)
           F == [x \in (1 .. n) \X Seq(Words) |-> WithName(x[2], column[x[1]])]
           Is(h) == h = [i \in 0 .. n |-> IF i = 0 THEN <<>> ELSE WithName(h[i - 1], column[i])]
<1>1. n \in Nat /\ \A i \in 1 .. n : column[i] \in Words
  OBVIOUS
<1>2. \A i \in 1 .. n, v \in Seq(Words) : F[<<i, v>>] = WithName(v, column[i]) /\ WithName(v, column[i]) \in Seq(Words)
  BY <1>1, WithNameIs
<1> HIDE DEF F, n
<1>3. PICK g \in [0 .. n -> Seq(Words)] : Recursive(g, n, <<>>, F)
  <2>1. StaysIn(n, Seq(Words), F)
    BY <1>2 DEF StaysIn
  <2>2. <<>> \in Seq(Words)
    OBVIOUS
  <2>3. QED
    BY <1>1, <2>1, <2>2, RecursionExists
<1>4. ASSUME NEW i \in 0 .. n
      PROVE  g[i] = IF i = 0 THEN <<>> ELSE WithName(g[i - 1], column[i])
  <2> SUFFICES ASSUME i # 0
               PROVE  g[i] = WithName(g[i - 1], column[i])
    BY <1>3 DEF Recursive
  <2>1. i \in 1 .. n /\ i - 1 \in 0 .. n
    BY <1>1
  <2>2. g[i] = F[<<i, g[i - 1]>>]
    BY <1>3 DEF Recursive
  <2>3. QED
    BY <1>2, <2>1, <2>2
<1>5. Is(g)
  BY <1>4
<1>6. Is(NamesIn(column))
  <2>1. NamesIn(column) = CHOOSE h : Is(h)
    BY Zenon DEF NamesIn, n
  <2> HIDE DEF Is
  <2>2. QED
    BY <1>5, <2>1, Zenon
<1>7. PICK f : f = NamesIn(column) /\ Is(f)
  BY <1>6
<1>8. f[0] = <<>> /\ \A i \in 1 .. n : f[i] = WithName(f[i - 1], column[i])
  <2>1. \A i \in 0 .. n : f[i] = IF i = 0 THEN <<>> ELSE WithName(f[i - 1], column[i])
    BY <1>7
  <2> HIDE DEF Is
  <2>2. QED
    BY <1>1, <2>1
<1> HIDE DEF Is
<1> DEFINE T == {i \in Nat : i <= n => f[i] \in Seq(Words)}
<1>9. 0 \in T
  <2>1. <<>> \in Seq(Words)
    OBVIOUS
  <2>2. f[0] \in Seq(Words)
    BY <1>8, <2>1, Zenon
  <2>3. QED
    BY <2>2
<1>10. ASSUME NEW i \in Nat, i \in T
       PROVE  i + 1 \in T
  <2> SUFFICES ASSUME i + 1 <= n
               PROVE  f[i + 1] \in Seq(Words)
    OBVIOUS
  <2>1. i + 1 \in 1 .. n /\ (i + 1) - 1 = i
    BY <1>1
  <2>2. f[i] \in Seq(Words) /\ f[i + 1] = WithName(f[i], column[i + 1]) /\ column[i + 1] \in Words
    BY <1>1, <1>8, <1>10, <2>1
  <2>3. PICK old \in Seq(Words), v \in Words : old = f[i] /\ v = column[i + 1]
    BY <2>2
  <2>4. WithName(old, v) \in Seq(Words)
    BY WithNameIs
  <2>5. QED
    BY <2>2, <2>3, <2>4
<1>11. Nat \subseteq T
  <2> HIDE DEF T
  <2> QED
    BY <1>9, <1>10, NatInd
<1>12. \A i \in 1 .. n : f[i - 1] \in Seq(Words)
  BY <1>1, <1>11
<1> HIDE DEF T
<1>13. QED
  BY <1>7, <1>8, <1>12 DEF n

\* Every name of a column is among the names.
LEMMA NamesAre ==
    ASSUME NEW column \in Seq(Words)
    PROVE  \E names \in Seq(Words) :
              /\ names = NamesIn(column)[Len(column)]
              /\ \A m \in 1 .. Len(column) : \E k \in DOMAIN names : names[k] = column[m]
<1> DEFINE n == Len(column)
           f == NamesIn(column)
           Holds(i) == f[i] \in Seq(Words) /\ \A m \in 1 .. i : \E k \in DOMAIN f[i] : f[i][k] = column[m]
           T == {i \in Nat : i <= n => Holds(i)}
<1>1. n \in Nat /\ \A i \in 1 .. n : column[i] \in Words
  OBVIOUS
<1>2. f[0] = <<>> /\ \A i \in 1 .. n : f[i - 1] \in Seq(Words) /\ f[i] = WithName(f[i - 1], column[i])
  BY NamesInIs
<1> HIDE DEF f
<1>3. 0 \in T
  BY <1>2
<1>4. ASSUME NEW i \in Nat, i \in T
      PROVE  i + 1 \in T
  <2> SUFFICES ASSUME i + 1 <= n
               PROVE  Holds(i + 1)
    OBVIOUS
  <2>1. i + 1 \in 1 .. n /\ (i + 1) - 1 = i
    BY <1>1
  <2>2. Holds(i) /\ f[i + 1] = WithName(f[i], column[i + 1]) /\ column[i + 1] \in Words
    BY <1>1, <1>2, <1>4, <2>1
  <2>3. PICK old \in Seq(Words) : old = f[i]
    BY <2>2
  <2>4. PICK new \in Seq(Words) :
            /\ new = f[i + 1]
            /\ \A k \in DOMAIN old : k \in DOMAIN new /\ new[k] = old[k]
            /\ \E k \in DOMAIN new : new[k] = column[i + 1]
    <3>1. PICK v \in Words : v = column[i + 1]
      BY <2>2
    <3>2. PICK new \in Seq(Words) :
              /\ new = WithName(old, v)
              /\ \A k \in DOMAIN old : k \in DOMAIN new /\ new[k] = old[k]
              /\ \E k \in DOMAIN new : new[k] = v
      BY WithNameIs
    <3>3. new = f[i + 1]
      BY <2>2, <2>3, <3>1, <3>2
    <3>4. QED
      BY <3>1, <3>2, <3>3, Zenon
  <2>5. ASSUME NEW m \in 1 .. i + 1
        PROVE  \E k \in DOMAIN new : new[k] = column[m]
    <3>1. CASE m = i + 1
      BY <2>4, <3>1
    <3>2. CASE m \in 1 .. i
      <4>1. PICK k \in DOMAIN old : old[k] = column[m]
        BY <2>2, <2>3, <3>2
      <4>2. QED
        BY <2>4, <4>1
    <3>3. QED
      BY <3>1, <3>2
  <2>6. QED
    BY <2>4, <2>5
<1>5. Nat \subseteq T
  <2> HIDE DEF T
  <2> QED
    BY <1>3, <1>4, NatInd
<1>6. Holds(n)
  BY <1>1, <1>5
<1>7. QED
  BY <1>6 DEF f

\* buildSnapshot: a row for each range.
LEMMA RowsMirror ==
    ASSUME NEW s \in Seq(GeoRanges)
    PROVE  Mirrors(buildSnapshot(s), s)
<1> DEFINE col == [i \in DOMAIN s |-> s[i].country]
           cit == [i \in DOMAIN s |-> s[i].city]
<1>1. /\ Len(s) \in Nat /\ DOMAIN s = 1 .. Len(s)
      /\ \A i \in DOMAIN s : s[i].start \in Nat /\ s[i].end \in Nat /\ s[i].country \in Words /\ s[i].city \in Words
  BY RangeTyped DEF GeoRanges, Words
<1>2. col \in Seq(Words) /\ Len(col) = Len(s) /\ \A i \in 1 .. Len(s) : col[i] = s[i].country
  BY <1>1
<1>3. cit \in Seq(Words) /\ Len(cit) = Len(s) /\ \A i \in 1 .. Len(s) : cit[i] = s[i].city
  BY <1>1
<1> HIDE DEF col, cit
<1>4. PICK countries \in Seq(Words) :
          /\ countries = NamesIn(col)[Len(s)]
          /\ \A m \in 1 .. Len(s) : \E k \in DOMAIN countries : countries[k] = s[m].country
  <2>1. PICK names \in Seq(Words) :
            /\ names = NamesIn(col)[Len(col)]
            /\ \A m \in 1 .. Len(col) : \E k \in DOMAIN names : names[k] = col[m]
    BY <1>2, NamesAre
  <2>2. names = NamesIn(col)[Len(s)]
    BY <1>2, <2>1
  <2>3. \A m \in 1 .. Len(s) : \E k \in DOMAIN names : names[k] = s[m].country
    BY <1>2, <2>1
  <2>4. QED
    BY <2>2, <2>3, Zenon
<1>5. PICK cities \in Seq(Words) :
          /\ cities = NamesIn(cit)[Len(s)]
          /\ \A m \in 1 .. Len(s) : \E k \in DOMAIN cities : cities[k] = s[m].city
  <2>1. PICK names \in Seq(Words) :
            /\ names = NamesIn(cit)[Len(cit)]
            /\ \A m \in 1 .. Len(cit) : \E k \in DOMAIN names : names[k] = cit[m]
    BY <1>3, NamesAre
  <2>2. names = NamesIn(cit)[Len(s)]
    BY <1>3, <2>1
  <2>3. \A m \in 1 .. Len(s) : \E k \in DOMAIN names : names[k] = s[m].city
    BY <1>3, <2>1
  <2>4. QED
    BY <2>2, <2>3, Zenon
<1> DEFINE row(i) == [start |-> s[i].start, end |-> s[i].end, country |-> ID(countries, s[i].country),
                      city |-> ID(cities, s[i].city)]
           rows == [i \in DOMAIN s |-> row(i)]
           snap == [rows |-> rows, countries |-> countries, cities |-> cities]
<1>6. buildSnapshot(s) = snap
  BY <1>4, <1>5, Zenon DEF buildSnapshot, col, cit
<1>7. ASSUME NEW i \in 1 .. Len(s)
      PROVE  /\ ID(countries, s[i].country) \in DOMAIN countries /\ countries[ID(countries, s[i].country)] = s[i].country
             /\ ID(cities, s[i].city) \in DOMAIN cities /\ cities[ID(cities, s[i].city)] = s[i].city
  <2>1. PICK k \in DOMAIN countries : countries[k] = s[i].country
    BY <1>4
  <2>2. PICK l \in DOMAIN cities : cities[l] = s[i].city
    BY <1>5
  <2>3. QED
    BY <2>1, <2>2, IDIs
<1>8. \A i \in 1 .. Len(s) : row(i) \in Rows
  <2>1. \A q \in Seq(Words) : DOMAIN q \subseteq Nat
    OBVIOUS
  <2>2. QED
    BY <1>1, <1>7, <2>1 DEF Rows
<1>9. rows \in Seq(Rows) /\ Len(rows) = Len(s) /\ \A i \in 1 .. Len(s) : rows[i] = row(i)
  <2> HIDE DEF row
  <2> QED
    BY <1>1, <1>8
<1>10. snap \in Snapshots
  <2> HIDE DEF rows
  <2> QED
    BY <1>9 DEF Snapshots, Rows
<1>11. snap.rows = rows /\ snap.countries = countries /\ snap.cities = cities
  OBVIOUS
<1>12. ASSUME NEW i \in 1 .. Len(s)
       PROVE  SaysOf(snap, rows[i], s[i])
  <2>1. rows[i] = row(i)
    BY <1>9
  <2> HIDE DEF rows
  <2>2. rows[i].start = s[i].start /\ rows[i].end = s[i].end
        /\ rows[i].country = ID(countries, s[i].country) /\ rows[i].city = ID(cities, s[i].city)
    BY <2>1
  <2> HIDE DEF row, snap
  <2>3. QED
    BY <1>7, <1>11, <2>2 DEF SaysOf
<1>13. QED
  <2> HIDE DEF rows, snap
  <2> QED
    BY <1>6, <1>9, <1>10, <1>11, <1>12 DEF Mirrors

-----------------------------------------------------------------------------
(* Ranges: in order *)

\* sort.Slice: a place for each range, and starts that do not fall.
LEMMA SortedIs ==
    ASSUME NEW P, IsFiniteSet(P), NEW ranges \in [P -> GeoRanges], NEW s \in Sorted(ranges)
    PROVE  /\ s \in Seq(GeoRanges) /\ Len(s) = Cardinality(P) /\ Cardinality(P) \in Nat
           /\ \E p \in [1 .. Len(s) -> P] :
                 /\ \A i \in 1 .. Len(s) : s[i] = ranges[p[i]]
                 /\ \A i, j \in 1 .. Len(s) : i # j => p[i] # p[j]
                 /\ \A m \in P : \E i \in 1 .. Len(s) : p[i] = m
           /\ \A i, j \in DOMAIN s : i < j => s[i].start <= s[j].start
<1> DEFINE n == Cardinality(P)
<1>1. n \in Nat /\ DOMAIN ranges = P
  BY FS_CardinalityType
<1> HIDE DEF n
<1>2. PICK p \in [1 .. n -> P] :
          /\ \A i, j \in 1 .. n : i # j => p[i] # p[j]
          /\ \A i, j \in 1 .. n : i < j => ~Before(ranges[p[j]], ranges[p[i]])
          /\ s = [i \in 1 .. n |-> ranges[p[i]]]
  BY <1>1 DEF Sorted, n
<1>3. s \in Seq(GeoRanges) /\ Len(s) = n /\ DOMAIN s = 1 .. n /\ \A i \in 1 .. n : s[i] = ranges[p[i]]
  BY <1>1, <1>2
<1>4. \A m \in P : \E i \in 1 .. n : p[i] = m
  <2>1. p \in Injection(1 .. n, P)
    BY <1>2 DEF Injection, IsInjective
  <2>2. IsFiniteSet(1 .. n) /\ Cardinality(1 .. n) = n
    BY <1>1, FS_Interval
  <2>3. p \in Surjection(1 .. n, P)
    BY <2>1, <2>2, FS_Injection DEF n
  <2>4. QED
    BY <2>3 DEF Surjection
<1>5. ASSUME NEW i \in DOMAIN s, NEW j \in DOMAIN s, i < j
      PROVE  s[i].start <= s[j].start
  <2>1. ~Before(s[j], s[i])
    BY <1>2, <1>3, <1>5
  <2>2. s[i].start \in Nat /\ s[j].start \in Nat
    BY <1>3, RangeTyped
  <2>3. QED
    BY <2>1, <2>2 DEF Before
<1>6. QED
  BY <1>1, <1>2, <1>3, <1>4, <1>5 DEF n

\* NormalizeRanges, and the two ways to build the index of what is kept.
LEMMA NormalizedIs ==
    ASSUME NEW s \in Seq(GeoRanges), \A i, j \in DOMAIN s : i < j => s[i].start <= s[j].start
    PROVE  \E kept \in Seq(GeoRanges) :
              /\ kept = NormalizeRanges(s) /\ InOrder(kept)
              /\ Mirrors(buildGeoSnapshot(s), kept) /\ Mirrors(buildSnapshot(kept), kept)
              /\ \A m \in DOMAIN s : s[m] \in Range(kept) \/ LeftOut(s[m], kept)
              /\ \A k \in DOMAIN kept : \E m \in DOMAIN s : kept[k] = s[m]
              /\ Len(kept) = Len(s) => kept = s
<1>1. Len(s) \in Nat /\ DOMAIN s = 1 .. Len(s)
  OBVIOUS
<1>2. PICK kept \in Seq(GeoRanges) : kept = KeptOf(s)[Len(s)] /\ KeepsOf(s, Len(s), kept)
  <2>1. KeepsOf(s, Len(s), KeptOf(s)[Len(s)])
    BY <1>1, KeptKnown
  <2>2. KeptOf(s)[Len(s)] \in Seq(GeoRanges)
    BY <2>1 DEF KeepsOf
  <2>3. QED
    BY <2>1, <2>2, Zenon
<1>3. Mirrors(BuiltOf(s)[Len(s)], kept)
  BY <1>1, <1>2, BuiltMirrors
<1>4. Mirrors(buildSnapshot(kept), kept)
  BY RowsMirror
<1>5. ASSUME Len(kept) = Len(s)
      PROVE  kept = s
  <2>1. \A m \in 1 .. Len(s) : kept[m] = s[m]
    BY <1>2, <1>5 DEF KeepsOf
  <2>2. QED
    BY <1>1, <1>5, <2>1
<1>6. kept = NormalizeRanges(s)
  BY <1>2 DEF NormalizeRanges
<1>7. buildGeoSnapshot(s) = BuiltOf(s)[Len(s)]
  BY DEF buildGeoSnapshot
<1>8. InOrder(kept) /\ (\A m \in DOMAIN s : s[m] \in Range(kept) \/ LeftOut(s[m], kept))
      /\ (\A k \in DOMAIN kept : \E m \in DOMAIN s : kept[k] = s[m])
  BY <1>1, <1>2 DEF KeepsOf
<1>9. QED
  BY <1>3, <1>4, <1>5, <1>6, <1>7, <1>8

\* Whatever ranges a table holds, in whatever order ranges with the same ends are
\* sorted: the index that CompactBuilder builds and the one that is built from the
\* ranges NormalizeRanges keeps place every address alike, by the one range kept
\* around it or by none; the table gives the same answer when nothing was left out;
\* and a range that is left out is empty or meets one that is kept (Table.Rebuild,
\* Lookup, LookupRange, FindGeoRangeByIP).
THEOREM IndexAnswers ==
    ASSUME NEW ranges \in Seq(GeoRanges)
    PROVE  IndexExact(ranges)
<1>1. Len(ranges) \in Nat /\ ranges \in [1 .. Len(ranges) -> GeoRanges] /\ IsFiniteSet(1 .. Len(ranges))
  BY FS_Interval
<1>2. \A ip \in Addr : ip \in Nat
  BY DEF Addr
<1> SUFFICES ASSUME NEW sorted \in Sorted(ranges)
             PROVE  LET kept == NormalizeRanges(sorted)
                        built == buildGeoSnapshot(sorted)
                    IN  /\ \A ip \in Addr : LET answer == {r \in Range(kept) : Covers(r, ip)}
                                            IN  /\ LookupRange(built, ip) = answer
                                                /\ IndexLookup(built, ip) = {[country |-> r.country, city |-> r.city] : r \in answer}
                                                /\ LookupRange(buildSnapshot(kept), ip) = answer
                                                /\ CheckNonOverlapping(sorted) /\ Len(kept) = Len(sorted)
                                                      => FindGeoRangeByIP(sorted, ip) = answer
                        /\ \A r \in Range(sorted) \ Range(kept) :
                               r.start > r.end \/ \E k \in Range(kept) : r.start <= k.end /\ k.start <= r.end
  BY Zenon DEF IndexExact
<1>3. sorted \in Seq(GeoRanges) /\ \A i, j \in DOMAIN sorted : i < j => sorted[i].start <= sorted[j].start
  BY <1>1, SortedIs
<1>4. PICK kept \in Seq(GeoRanges) :
          /\ kept = NormalizeRanges(sorted) /\ InOrder(kept)
          /\ Mirrors(buildGeoSnapshot(sorted), kept) /\ Mirrors(buildSnapshot(kept), kept)
          /\ \A m \in DOMAIN sorted : sorted[m] \in Range(kept) \/ LeftOut(sorted[m], kept)
          /\ Len(kept) = Len(sorted) => kept = sorted
  BY <1>3, NormalizedIs
<1>5. ASSUME NEW ip \in Addr
      PROVE  /\ LookupRange(buildGeoSnapshot(sorted), ip) = Around(kept, ip)
             /\ IndexLookup(buildGeoSnapshot(sorted), ip) = {[country |-> r.country, city |-> r.city] : r \in Around(kept, ip)}
             /\ LookupRange(buildSnapshot(kept), ip) = Around(kept, ip)
             /\ Len(kept) = Len(sorted) => FindGeoRangeByIP(sorted, ip) = Around(kept, ip)
  <2>1. ip \in Nat
    BY <1>2
  <2>2. LookupRange(buildGeoSnapshot(sorted), ip) = Around(kept, ip)
    BY <1>4, <2>1, MirrorAnswers, Zenon
  <2>3. IndexLookup(buildGeoSnapshot(sorted), ip) = {[country |-> r.country, city |-> r.city] : r \in Around(kept, ip)}
    BY <1>4, <2>1, MirrorAnswers, Zenon
  <2>4. LookupRange(buildSnapshot(kept), ip) = Around(kept, ip)
    BY <1>4, <2>1, MirrorAnswers, Zenon
  <2>5. ASSUME Len(kept) = Len(sorted)
        PROVE  FindGeoRangeByIP(sorted, ip) = Around(kept, ip)
    <3>1. kept = sorted
      BY <1>4, <2>5
    <3>2. FindGeoRangeByIP(kept, ip) = Around(kept, ip)
      BY <1>4, <2>1, TableAnswers
    <3>3. QED
      BY <3>1, <3>2, Zenon
  <2>6. QED
    BY <2>2, <2>3, <2>4, <2>5, Zenon
<1>6. ASSUME NEW r \in Range(sorted) \ Range(kept)
      PROVE  r.start > r.end \/ \E k \in Range(kept) : r.start <= k.end /\ k.start <= r.end
  <2>1. PICK m \in DOMAIN sorted : sorted[m] = r
    BY DEF Range
  <2>2. LeftOut(r, kept)
    BY <1>4, <2>1
  <2>3. QED
    BY <2>2 DEF LeftOut
<1>7. \A ip : Around(kept, ip) = {r \in Range(kept) : Covers(r, ip)}
  BY DEF Around
<1>8. QED
  BY <1>4, <1>5, <1>6, <1>7, Zenon

\* Numbers and the interval that a division puts them in.
LEMMA Divided ==
    ASSUME NEW a \in Nat, NEW b \in Nat \ {0}
    PROVE  a \div b \in Nat /\ (a \div b) * b \in Nat /\ (a \div b) * b <= a /\ a <= (a \div b) * b + b - 1
<1>1. a \div b \in Nat
  OBVIOUS
<1>2. a = b * (a \div b) + (a % b) /\ a % b \in 0 .. b - 1
  OBVIOUS
<1>3. PICK q \in Nat, m \in 0 .. b - 1 : q = a \div b /\ a = b * q + m
  BY <1>1, <1>2
<1>4. q * b \in Nat /\ q * b = b * q
  BY <1>1
<1>5. q * b <= a /\ a <= q * b + b - 1
  BY <1>3, <1>4
<1>6. QED
  BY <1>3, <1>4, <1>5

LEMMA QuotientIs ==
    ASSUME NEW a \in Nat, NEW b \in Nat \ {0}, NEW q \in Nat, q * b <= a, a <= q * b + b - 1
    PROVE  a \div b = q
<1>1. PICK k \in Nat : k = a \div b
  BY Divided
<1>2. k * b \in Nat /\ k * b <= a /\ a <= k * b + b - 1
  BY <1>1, Divided
<1>3. CASE k < q
  <2>1. PICK d \in Nat : q = k + 1 + d
    <3>1. q - k - 1 \in Nat /\ q = k + 1 + (q - k - 1)
      BY <1>3
    <3>2. QED
      BY <3>1
  <2>2. q * b = k * b + b + d * b /\ d * b \in Nat
    BY <2>1
  <2>3. QED
    BY <1>2, <2>2
<1>4. CASE q < k
  <2>1. PICK d \in Nat : k = q + 1 + d
    <3>1. k - q - 1 \in Nat /\ k = q + 1 + (k - q - 1)
      BY <1>4
    <3>2. QED
      BY <3>1
  <2>2. k * b = q * b + b + d * b /\ d * b \in Nat
    BY <2>1
  <2>3. q * b \in Nat
    OBVIOUS
  <2>4. QED
    BY <1>2, <2>2, <2>3
<1>5. QED
  BY <1>1, <1>3, <1>4

\* A text that can be read names the addresses between two ends.
LEMMA ParsedNet ==
    ASSUME NEW text \in Texts
    PROVE  \/ text = Unreadable /\ ~ParseNetworkField(text).ok
           \/ \E start, end \in Nat : /\ ParseNetworkField(text) = Network(start, end) /\ start <= end
                                      /\ \A ip \in Addr : Names(text, ip) <=> start <= ip /\ ip <= end
<1>1. Addr \subseteq Nat
  BY DEF Addr
<1>2. CASE text = Unreadable
  BY <1>2 DEF Unreadable, ParseNetworkField
<1>3. ASSUME NEW a \in Addr, text = Single(a)
      PROVE  \E start, end \in Nat : /\ ParseNetworkField(text) = Network(start, end) /\ start <= end
                                     /\ \A ip \in Addr : Names(text, ip) <=> start <= ip /\ ip <= end
  <2>1. ParseNetworkField(text) = Network(a, a)
    BY <1>3 DEF Single, ParseNetworkField
  <2>2. \A ip \in Addr : Names(text, ip) <=> ip = a
    BY <1>3 DEF Single, Names
  <2>3. a \in Nat /\ \A ip \in Addr : ip = a <=> a <= ip /\ ip <= a
    BY <1>1
  <2>4. QED
    BY <2>1, <2>2, <2>3
<1>4. ASSUME NEW a \in Addr, NEW b \in Addr, text = FromTo(a, b)
      PROVE  \E start, end \in Nat : /\ ParseNetworkField(text) = Network(start, end) /\ start <= end
                                     /\ \A ip \in Addr : Names(text, ip) <=> start <= ip /\ ip <= end
  <2>1. ParseNetworkField(text) = IF a > b THEN Network(b, a) ELSE Network(a, b)
    BY <1>4 DEF FromTo, ParseNetworkField
  <2>2. \A ip \in Addr : Names(text, ip) <=> (a <= ip /\ ip <= b) \/ (b <= ip /\ ip <= a)
    BY <1>4 DEF FromTo, Names
  <2>3. a \in Nat /\ b \in Nat
    BY <1>1
  <2>4. CASE a > b
    <3>1. b <= a /\ \A ip \in Addr : Names(text, ip) <=> b <= ip /\ ip <= a
      BY <1>1, <2>2, <2>3, <2>4
    <3>2. QED
      BY <2>1, <2>3, <2>4, <3>1
  <2>5. CASE ~(a > b)
    <3>1. a <= b /\ \A ip \in Addr : Names(text, ip) <=> a <= ip /\ ip <= b
      BY <1>1, <2>2, <2>3, <2>5
    <3>2. QED
      BY <2>1, <2>3, <2>5, <3>1
  <2>6. QED
    BY <2>4, <2>5
<1>5. ASSUME NEW a \in Addr, NEW len \in 0 .. Width, text = Prefix(a, len)
      PROVE  \E start, end \in Nat : /\ ParseNetworkField(text) = Network(start, end) /\ start <= end
                                     /\ \A ip \in Addr : Names(text, ip) <=> start <= ip /\ ip <= end
  <2>1. PICK size \in Nat \ {0} : size = Power[Width - len]
    <3>1. Width - len \in 0 .. Width
      BY WidthAssumption
    <3>2. QED
      BY <3>1, PowersAre
  <2>2. a \in Nat
    BY <1>1
  <2>3. PICK q \in Nat : q = a \div size /\ q * size \in Nat
    BY <2>2, Divided
  <2>4. PICK start \in Nat, end \in Nat : start = q * size /\ end = start + size - 1 /\ start <= end
    <3>1. q * size + size - 1 \in Nat /\ q * size <= q * size + size - 1
      BY <2>3
    <3>2. QED
      BY <2>3, <3>1
  <2>5. ParseNetworkField(text) = Network(start, end)
    BY <1>5, <2>1, <2>3, <2>4 DEF Prefix, ParseNetworkField
  <2>6. ASSUME NEW ip \in Addr
        PROVE  Names(text, ip) <=> start <= ip /\ ip <= end
    <3>1. Names(text, ip) <=> ip \div size = q
      BY <1>5, <2>1, <2>3 DEF Prefix, Names
    <3>2. ip \in Nat
      BY <1>1
    <3>3. ASSUME ip \div size = q
          PROVE  start <= ip /\ ip <= end
      BY <2>4, <3>2, <3>3, Divided
    <3>4. ASSUME start <= ip, ip <= end
          PROVE  ip \div size = q
      BY <2>4, <3>2, <3>4, QuotientIs
    <3>5. QED
      BY <3>1, <3>3, <3>4
  <2>7. QED
    BY <2>4, <2>5, <2>6
<1>6. QED
  BY <1>2, <1>3, <1>4, <1>5 DEF Texts

\* CheckNonOverlapping asks of neighbours what then holds of any two.
LEMMA CheckedInOrder ==
    ASSUME NEW s \in Seq(GeoRanges), \A i, j \in DOMAIN s : i < j => s[i].start <= s[j].start,
           \A i \in DOMAIN s : s[i].start <= s[i].end, CheckNonOverlapping(s)
    PROVE  InOrder(s)
<1>1. Len(s) \in Nat /\ DOMAIN s = 1 .. Len(s) /\ \A i \in DOMAIN s : s[i].start \in Nat /\ s[i].end \in Nat
  BY RangeTyped
<1>2. ASSUME NEW i \in DOMAIN s, NEW j \in DOMAIN s, i < j
      PROVE  s[i].end < s[j].start
  <2>1. i + 1 \in 2 .. Len(s) /\ i + 1 \in DOMAIN s /\ (i + 1) - 1 = i
    BY <1>1, <1>2
  <2>2. s[i + 1].start > s[i].end
    BY <2>1 DEF CheckNonOverlapping
  <2>3. i + 1 = j \/ i + 1 < j
    BY <1>1, <1>2
  <2>4. s[i + 1].start <= s[j].start
    BY <1>1, <2>1, <2>3
  <2>5. QED
    BY <1>1, <2>1, <2>2, <2>4
<1>3. QED
  BY <1>2 DEF InOrder

\* Ranges that are in order are kept as they are.
LEMMA NormalizedAsIs ==
    ASSUME NEW s \in Seq(GeoRanges), InOrder(s)
    PROVE  NormalizeRanges(s) = s
<1>1. Len(s) \in 0 .. Len(s)
  OBVIOUS
<1>2. KeptOf(s)[Len(s)] = SubSeq(s, 1, Len(s))
  BY <1>1, AllKept
<1>3. SubSeq(s, 1, Len(s)) = s
  OBVIOUS
<1>4. QED
  BY <1>2, <1>3, Zenon DEF NormalizeRanges

\* Ranges from some places that are in order answer for those places.
Holding(ranges, P, ip) == {k \in P : Covers(ranges[k], ip)}

LEMMA PlacesAnswer ==
    ASSUME NEW P, IsFiniteSet(P), NEW ranges \in [P -> GeoRanges], \A k \in P : ranges[k].start <= ranges[k].end,
           NEW s \in Sorted(ranges), CheckNonOverlapping(s)
    PROVE  /\ s \in Seq(GeoRanges) /\ InOrder(s) /\ NormalizeRanges(s) = s /\ Len(s) = Cardinality(P)
           /\ \A ip \in Nat : /\ Around(s, ip) = {ranges[k] : k \in Holding(ranges, P, ip)}
                              /\ \A k, l \in Holding(ranges, P, ip) : k = l
<1>1. /\ s \in Seq(GeoRanges) /\ Len(s) \in Nat /\ DOMAIN s = 1 .. Len(s) /\ Len(s) = Cardinality(P)
      /\ \A i, j \in DOMAIN s : i < j => s[i].start <= s[j].start
  BY SortedIs
<1>2. PICK p \in [1 .. Len(s) -> P] :
          /\ \A i \in 1 .. Len(s) : s[i] = ranges[p[i]]
          /\ \A i, j \in 1 .. Len(s) : i # j => p[i] # p[j]
          /\ \A m \in P : \E i \in 1 .. Len(s) : p[i] = m
  BY SortedIs
<1>3. \A i \in DOMAIN s : s[i].start <= s[i].end
  BY <1>1, <1>2
<1>4. InOrder(s)
  BY <1>1, <1>3, CheckedInOrder
<1>5. ASSUME NEW ip \in Nat, NEW k \in Holding(ranges, P, ip), NEW l \in Holding(ranges, P, ip)
      PROVE  k = l
  <2>1. PICK i \in DOMAIN s : p[i] = k
    BY <1>1, <1>2 DEF Holding
  <2>2. PICK j \in DOMAIN s : p[j] = l
    BY <1>1, <1>2 DEF Holding
  <2>3. Covers(s[i], ip) /\ Covers(s[j], ip)
    BY <1>1, <1>2, <2>1, <2>2 DEF Holding
  <2>4. i = j
    BY <1>1, <1>4, <2>3, AtMostOne
  <2>5. QED
    BY <2>1, <2>2, <2>4
<1>6. ASSUME NEW ip \in Nat
      PROVE  Around(s, ip) = {ranges[k] : k \in Holding(ranges, P, ip)}
  <2>1. ASSUME NEW r \in Around(s, ip)
        PROVE  \E k \in Holding(ranges, P, ip) : r = ranges[k]
    <3>1. PICK i \in DOMAIN s : s[i] = r /\ Covers(r, ip)
      BY DEF Around, Range
    <3>2. p[i] \in P /\ r = ranges[p[i]]
      BY <1>1, <1>2, <3>1
    <3>3. p[i] \in Holding(ranges, P, ip)
      BY <3>1, <3>2 DEF Holding
    <3>4. QED
      BY <3>2, <3>3
  <2>2. ASSUME NEW k \in Holding(ranges, P, ip)
        PROVE  ranges[k] \in Around(s, ip)
    <3>1. PICK i \in DOMAIN s : p[i] = k
      BY <1>1, <1>2 DEF Holding
    <3>2. s[i] = ranges[k] /\ Covers(s[i], ip)
      BY <1>1, <1>2, <3>1 DEF Holding
    <3>3. QED
      BY <3>2 DEF Around, Range
  <2>3. QED
    BY <2>1, <2>2
<1>7. NormalizeRanges(s) = s
  BY <1>1, <1>4, NormalizedAsIs
<1>8. QED
  BY <1>1, <1>4, <1>5, <1>6, <1>7

-----------------------------------------------------------------------------
(* Ranges: edits *)

\* persistRanges: the table and the index hold the ranges of those places.
LEMMA Persisted ==
    ASSUME NEW P, IsFiniteSet(P), NEW ranges \in [P -> GeoRanges], \A k \in P : ranges[k].start <= ranges[k].end,
           NEW result \in persistRanges(ranges), result.ok
    PROVE  /\ result.ranges \in Seq(GeoRanges) /\ InOrder(result.ranges)
           /\ \A ip \in Nat : /\ FindGeoRangeByIP(result.ranges, ip) = LookupRange(result.built, ip)
                              /\ LookupRange(result.built, ip) = {ranges[k] : k \in Holding(ranges, P, ip)}
                              /\ \A k, l \in Holding(ranges, P, ip) : k = l
<1>1. PICK s \in Sorted(ranges) :
          result = IF ~CheckNonOverlapping(s) THEN [ok |-> FALSE]
                   ELSE [ok |-> NormalizeRanges(s) # <<>>, ranges |-> NormalizeRanges(s),
                         built |-> buildSnapshot(NormalizeRanges(s))]
  BY Zenon DEF persistRanges
<1>2. CheckNonOverlapping(s)
  BY <1>1
<1>3. /\ s \in Seq(GeoRanges) /\ InOrder(s) /\ NormalizeRanges(s) = s
      /\ \A ip \in Nat : /\ Around(s, ip) = {ranges[k] : k \in Holding(ranges, P, ip)}
                         /\ \A k, l \in Holding(ranges, P, ip) : k = l
  BY <1>2, PlacesAnswer
<1>4. result.ranges = s /\ result.built = buildSnapshot(s)
  BY <1>1, <1>2, <1>3
<1>5. Mirrors(result.built, s)
  BY <1>3, <1>4, RowsMirror
<1>6. ASSUME NEW ip \in Nat
      PROVE  FindGeoRangeByIP(s, ip) = Around(s, ip) /\ LookupRange(result.built, ip) = Around(s, ip)
  BY <1>3, <1>5, TableAnswers, MirrorAnswers
<1>7. QED
  BY <1>3, <1>4, <1>6

\* ParseRangeEntry: a readable network with a country and a city, or nothing.
LEMMA EntryParsed ==
    ASSUME NEW text \in Texts, NEW country \in Words, NEW city \in Words
    PROVE  \/ ParseRangeEntry(text, country, city) = <<>>
           \/ \E e \in GeoRanges : /\ ParseRangeEntry(text, country, city) = <<e>> /\ e.start <= e.end
                                   /\ e = Entry(ParseNetworkField(text), country, city)
<1>1. CASE ~ParseNetworkField(text).ok \/ country = "" \/ city = ""
  BY <1>1, Zenon DEF ParseRangeEntry
<1>2. CASE ParseNetworkField(text).ok /\ country # "" /\ city # ""
  <2>1. PICK start \in Nat, end \in Nat : ParseNetworkField(text) = Network(start, end) /\ start <= end
    BY <1>2, ParsedNet
  <2>2. PICK net : net = ParseNetworkField(text) /\ net.start = start /\ net.end = end
    BY <2>1 DEF Network
  <2>3. PICK e \in GeoRanges : e = Entry(net, country, city) /\ e.start = start /\ e.end = end
    <3>1. Entry(net, country, city) = [start |-> start, end |-> end, country |-> country, city |-> city]
      BY <2>2 DEF Entry
    <3>2. [start |-> start, end |-> end, country |-> country, city |-> city] \in GeoRanges
      BY DEF GeoRanges, Words
    <3>3. QED
      BY <3>1, <3>2
  <2>4. ParseRangeEntry(text, country, city) = <<e>>
    BY <1>2, <2>2, <2>3, Zenon DEF ParseRangeEntry
  <2>5. QED
    BY <2>1, <2>2, <2>3, <2>4
<1>3. QED
  BY <1>1, <1>2

\* A table that is in order, with some of its places left out and one range more.
LEMMA EditedIs ==
    ASSUME NEW existing \in Seq(GeoRanges), InOrder(existing), NEW kept \in SUBSET DOMAIN existing,
           NEW e \in GeoRanges, e.start <= e.end, NEW removed,
           \A i \in DOMAIN existing : i \in kept <=> existing[i] \notin removed,
           NEW merged \in [kept \cup {Len(existing) + 1} -> GeoRanges],
           merged[Len(existing) + 1] = e, \A i \in kept : merged[i] = existing[i],
           NEW result \in persistRanges(merged)
    PROVE  EditExact(existing, result, {e}, removed)
<1> DEFINE n == Len(existing)
           P == kept \cup {n + 1}
<1>1. n \in Nat /\ DOMAIN existing = 1 .. n /\ n + 1 \notin kept
  OBVIOUS
<1>2. IsFiniteSet(P)
  <2>1. IsFiniteSet(1 .. n + 1)
    BY <1>1, FS_Interval
  <2>2. P \in SUBSET (1 .. n + 1)
    BY <1>1
  <2>3. QED
    BY <2>1, <2>2, FS_Subset
<1>3. \A k \in P : merged[k].start <= merged[k].end
  BY <1>1 DEF InOrder
<1> SUFFICES ASSUME result.ok
             PROVE  EditExact(existing, result, {e}, removed)
  BY Zenon DEF EditExact
<1>4. /\ result.ranges \in Seq(GeoRanges) /\ InOrder(result.ranges)
      /\ \A ip \in Nat : /\ FindGeoRangeByIP(result.ranges, ip) = LookupRange(result.built, ip)
                         /\ LookupRange(result.built, ip) = {merged[k] : k \in Holding(merged, P, ip)}
                         /\ \A k, l \in Holding(merged, P, ip) : k = l
  BY <1>2, <1>3, Persisted
<1>5. ASSUME NEW ip \in Nat
      PROVE  LET new == {r \in {e} : Covers(r, ip)}
             IN  LookupRange(result.built, ip)
                   = IF new # {} THEN new ELSE FindGeoRangeByIP(existing, ip) \ removed
  <2> DEFINE H == Holding(merged, P, ip)
             new == {r \in {e} : Covers(r, ip)}
  <2>1. CASE Covers(e, ip)
    <3>1. n + 1 \in H
      BY <2>1 DEF Holding
    <3>2. H = {n + 1}
      BY <1>4, <3>1
    <3>3. {merged[k] : k \in H} = {e}
      BY <3>2
    <3>4. new = {e}
      BY <2>1
    <3>5. QED
      BY <1>4, <3>3, <3>4
  <2>2. CASE ~Covers(e, ip)
    <3>1. FindGeoRangeByIP(existing, ip) = Around(existing, ip)
      BY TableAnswers
    <3>2. ASSUME NEW k \in H
          PROVE  merged[k] \in Around(existing, ip) /\ merged[k] \notin removed
      <4>1. k \in kept /\ k \in DOMAIN existing /\ merged[k] = existing[k] /\ Covers(existing[k], ip)
        BY <2>2 DEF Holding
      <4>2. QED
        BY <4>1 DEF Around, Range
    <3>3. ASSUME NEW r \in Around(existing, ip), r \notin removed
          PROVE  \E k \in H : r = merged[k]
      <4>1. PICK k \in DOMAIN existing : existing[k] = r /\ Covers(r, ip)
        BY DEF Around, Range
      <4>2. k \in kept
        BY <3>3, <4>1
      <4>3. QED
        BY <4>1, <4>2 DEF Holding
    <3>4. {merged[k] : k \in H} = Around(existing, ip) \ removed
      <4> HIDE DEF H
      <4>1. QED
        BY <3>2, <3>3
    <3>5. new = {}
      BY <2>2
    <3>6. QED
      BY <1>4, <3>1, <3>4, <3>5
  <2>3. QED
    BY <2>1, <2>2
<1>6. \A ip \in Addr : ip \in Nat
  BY DEF Addr
<1>7. {e} # {}
  OBVIOUS
<1>8. QED
  BY <1>4, <1>5, <1>6, <1>7, Zenon DEF EditExact

\* A range added to a table that is in order: accepted, its addresses have its place
\* and all others the place they had, in the table as in the index, and the table is
\* in order again (AppendRange).
THEOREM AppendedAsAsked ==
    ASSUME NEW existing \in Seq(GeoRanges), InOrder(existing), NEW text \in Texts,
           NEW country \in Words, NEW city \in Words, NEW result \in AppendRange(existing, text, country, city)
    PROVE  EditExact(existing, result, AddedBy(text, country, city), {})
<1>1. CASE ParseRangeEntry(text, country, city) = <<>>
  <2>1. result = [ok |-> FALSE]
    BY <1>1 DEF AppendRange
  <2>2. QED
    BY <2>1 DEF EditExact
<1>2. ASSUME NEW e \in GeoRanges, ParseRangeEntry(text, country, city) = <<e>>, e.start <= e.end
      PROVE  EditExact(existing, result, AddedBy(text, country, city), {})
  <2>1. Len(existing) \in Nat /\ DOMAIN existing = 1 .. Len(existing)
    OBVIOUS
  <2>2. PICK merged : merged = existing \o <<e>>
    OBVIOUS
  <2>3. /\ merged \in Seq(GeoRanges) /\ Len(merged) = Len(existing) + 1 /\ merged[Len(existing) + 1] = e
        /\ \A i \in 1 .. Len(existing) : merged[i] = existing[i]
    BY <2>2
  <2>4. DOMAIN existing \cup {Len(existing) + 1} = 1 .. Len(existing) + 1
    BY <2>1
  <2>5. merged \in [DOMAIN existing \cup {Len(existing) + 1} -> GeoRanges]
    BY <2>3, <2>4
  <2>6. result \in persistRanges(merged)
    <3>1. <<e>> # <<>>
      OBVIOUS
    <3>2. QED
      BY <1>2, <2>2, <3>1, Zenon DEF AppendRange
  <2>7. EditExact(existing, result, {e}, {})
    BY <1>2, <2>1, <2>3, <2>5, <2>6, EditedIs
  <2>8. AddedBy(text, country, city) = {e}
    BY <1>2 DEF AddedBy, Range
  <2>9. QED
    BY <2>7, <2>8
<1>3. QED
  BY <1>1, <1>2, EntryParsed

\* A range of such a table replaced: accepted, the addresses of the new one have its
\* place, those of the old one outside it none, and all others the place they had;
\* an update that names no range of the table is refused (UpdateRange).
THEOREM UpdatedAsAsked ==
    ASSUME NEW existing \in Seq(GeoRanges), InOrder(existing), NEW original \in Texts, NEW text \in Texts,
           NEW country \in Words, NEW city \in Words,
           NEW result \in UpdateRange(existing, original, text, country, city)
    PROVE  /\ EditExact(existing, result, AddedBy(text, country, city), ReplacedBy(existing, original))
           /\ result.ok => ReplacedBy(existing, original) # {}
<1> DEFINE orig == ParseNetworkField(original)
           removed == ReplacedBy(existing, original)
           kept == {i \in DOMAIN existing : existing[i].start # orig.start \/ existing[i].end # orig.end}
           new == ParseRangeEntry(text, country, city)
           both == existing \o new
           merged == [i \in kept \cup {Len(both)} |-> both[i]]
<1>1. SUFFICES ASSUME result.ok
               PROVE  EditExact(existing, result, AddedBy(text, country, city), removed) /\ removed # {}
  BY Zenon DEF EditExact
<1>2. result \in IF ~orig.ok \/ new = <<>> \/ kept = DOMAIN existing THEN {[ok |-> FALSE]} ELSE persistRanges(merged)
  BY Zenon DEF UpdateRange
<1>3. orig.ok /\ new # <<>> /\ kept # DOMAIN existing /\ result \in persistRanges(merged)
  <2> HIDE DEF orig, new, kept, merged
  <2> QED
    BY <1>1, <1>2
<1>4. PICK e \in GeoRanges : new = <<e>> /\ e.start <= e.end
  BY <1>3, EntryParsed
<1>5. PICK k \in DOMAIN existing : existing[k].start = orig.start /\ existing[k].end = orig.end
  BY <1>3
<1>6. Len(existing) \in Nat /\ DOMAIN existing = 1 .. Len(existing)
  OBVIOUS
<1>7. both = existing \o <<e>>
  BY <1>4
<1>8. /\ both \in Seq(GeoRanges) /\ Len(both) = Len(existing) + 1 /\ both[Len(existing) + 1] = e
      /\ \A i \in 1 .. Len(existing) : both[i] = existing[i]
  <2> HIDE DEF both
  <2> QED
    BY <1>7
<1>9. kept \in SUBSET DOMAIN existing
  OBVIOUS
<1>10. \A i \in DOMAIN existing : i \in kept <=> existing[i].start # orig.start \/ existing[i].end # orig.end
  OBVIOUS
<1>11. \A r : r \in removed <=> r \in Range(existing) /\ r.start = orig.start /\ r.end = orig.end
  BY <1>3 DEF ReplacedBy
<1>12. AddedBy(text, country, city) = {e}
  BY <1>4 DEF AddedBy, Range
<1>13. /\ merged \in [kept \cup {Len(existing) + 1} -> GeoRanges]
       /\ merged[Len(existing) + 1] = e /\ \A i \in kept : merged[i] = existing[i]
  <2> HIDE DEF both, kept
  <2>1. \A i \in kept \cup {Len(existing) + 1} : both[i] \in GeoRanges
    BY <1>6, <1>8, <1>9
  <2>2. merged = [i \in kept \cup {Len(existing) + 1} |-> both[i]]
    BY <1>8
  <2> HIDE DEF merged
  <2>3. \A i \in kept : merged[i] = existing[i]
    BY <1>6, <1>8, <1>9, <2>2
  <2>4. QED
    BY <1>8, <2>1, <2>2, <2>3
<1> HIDE DEF orig, new, both, kept, removed, merged
<1>14. \A i \in DOMAIN existing : existing[i] \in Range(existing)
  BY DEF Range
<1>15. \A i \in DOMAIN existing : i \in kept <=> existing[i] \notin removed
  BY <1>10, <1>11, <1>14
<1>16. EditExact(existing, result, {e}, removed)
  BY <1>3, <1>4, <1>9, <1>13, <1>15, EditedIs
<1>17. existing[k] \in removed
  BY <1>5, <1>11, <1>14
<1>18. QED
  BY <1>12, <1>16, <1>17

-----------------------------------------------------------------------------
(* Ranges: files *)

\* parseCSVRow: what a row that can be read says.
LEMMA RowParsed ==
    ASSUME NEW row \in FileRows
    PROVE  \/ parseCSVRow(row) = <<>> /\ \A ip \in Addr : ~(row.coords /\ Names(row.net, ip))
           \/ \E e \in GeoRanges : /\ parseCSVRow(row) = <<e>> /\ e.start <= e.end /\ row.coords
                                   /\ e.country = row.country /\ e.city = row.city
                                   /\ \A ip \in Addr : Names(row.net, ip) <=> Covers(e, ip)
<1>1. row.net \in Texts /\ row.country \in Words /\ row.city \in Words /\ row.coords \in BOOLEAN
  BY DEF FileRows, Words
<1>2. CASE ~ParseNetworkField(row.net).ok
  <2>1. row.net = Unreadable
    BY <1>1, <1>2, ParsedNet DEF Network
  <2>2. parseCSVRow(row) = <<>>
    BY <1>2, Zenon DEF parseCSVRow
  <2>3. \A ip \in Addr : ~Names(row.net, ip)
    BY <2>1 DEF Unreadable, Names
  <2>4. QED
    BY <2>2, <2>3
<1>3. CASE ~row.coords
  <2>1. parseCSVRow(row) = <<>>
    BY <1>3, Zenon DEF parseCSVRow
  <2>2. QED
    BY <1>3, <2>1
<1>4. CASE ParseNetworkField(row.net).ok /\ row.coords
  <2>1. PICK start \in Nat, end \in Nat :
            /\ ParseNetworkField(row.net) = Network(start, end) /\ start <= end
            /\ \A ip \in Addr : Names(row.net, ip) <=> start <= ip /\ ip <= end
    BY <1>1, <1>4, ParsedNet
  <2>2. PICK net : net = ParseNetworkField(row.net) /\ net.start = start /\ net.end = end
    BY <2>1 DEF Network
  <2>3. PICK e \in GeoRanges : e = Entry(net, row.country, row.city) /\ e.start = start /\ e.end = end
                               /\ e.country = row.country /\ e.city = row.city
    <3>1. Entry(net, row.country, row.city) = [start |-> start, end |-> end, country |-> row.country, city |-> row.city]
      BY <2>2 DEF Entry
    <3>2. [start |-> start, end |-> end, country |-> row.country, city |-> row.city] \in GeoRanges
      BY <1>1 DEF GeoRanges, Words
    <3>3. QED
      BY <3>1, <3>2
  <2>4. parseCSVRow(row) = <<e>>
    BY <1>4, <2>2, <2>3, Zenon DEF parseCSVRow
  <2>5. \A ip \in Addr : Names(row.net, ip) <=> Covers(e, ip)
    BY <2>1, <2>3 DEF Covers
  <2>6. QED
    BY <1>4, <2>1, <2>3, <2>4, <2>5
<1>5. QED
  BY <1>2, <1>3, <1>4

\* Two elements of a set with more than one.
LEMMA TwoOfMany ==
    ASSUME NEW S, IsFiniteSet(S), Cardinality(S) > 1
    PROVE  \E x, y \in S : x # y
<1> SUFFICES ASSUME \A x, y \in S : x = y
             PROVE  FALSE
  OBVIOUS
<1>1. S # {}
  BY FS_EmptySet
<1>2. PICK x : S = {x}
  BY <1>1
<1>3. Cardinality({x}) = 1
  BY FS_Singleton
<1>4. QED
  BY <1>2, <1>3

\* A file that is read: the ranges of the rows that can be read, in order.
LEMMA FileRead ==
    ASSUME NEW rows \in Seq(FileRows), NEW read \in ReadCSVSnapshot(rows)
    PROVE  LET good == {i \in DOMAIN rows : parseCSVRow(rows[i]) # <<>>}
               ranges == [i \in good |-> Head(parseCSVRow(rows[i]))]
           IN  /\ IsFiniteSet(good) /\ ranges \in [good -> GeoRanges]
               /\ \A i \in good : ranges[i].start <= ranges[i].end
               /\ \E s \in Sorted(ranges) :
                     read = IF good # {} /\ CheckNonOverlapping(s)
                            THEN [ok |-> TRUE, ranges |-> s, built |-> buildGeoSnapshot(s)] ELSE [ok |-> FALSE]
<1> DEFINE good == {i \in DOMAIN rows : parseCSVRow(rows[i]) # <<>>}
           ranges == [i \in good |-> Head(parseCSVRow(rows[i]))]
<1>1. Len(rows) \in Nat /\ DOMAIN rows = 1 .. Len(rows)
  OBVIOUS
<1>2. IsFiniteSet(good)
  <2>1. IsFiniteSet(1 .. Len(rows))
    BY <1>1, FS_Interval
  <2>2. good \in SUBSET (1 .. Len(rows))
    BY <1>1
  <2>3. QED
    BY <2>1, <2>2, FS_Subset
<1>3. ASSUME NEW i \in good
      PROVE  ranges[i] \in GeoRanges /\ ranges[i].start <= ranges[i].end
  <2>1. rows[i] \in FileRows
    OBVIOUS
  <2>2. PICK e \in GeoRanges : parseCSVRow(rows[i]) = <<e>> /\ e.start <= e.end
    BY <2>1, RowParsed
  <2>3. Head(parseCSVRow(rows[i])) = e
    BY <2>2
  <2>4. QED
    BY <2>2, <2>3
<1>4. ranges \in [good -> GeoRanges]
  BY <1>3
<1>5. \E s \in Sorted(ranges) :
         read = IF good # {} /\ CheckNonOverlapping(s)
                THEN [ok |-> TRUE, ranges |-> s, built |-> buildGeoSnapshot(s)] ELSE [ok |-> FALSE]
  BY Zenon DEF ReadCSVSnapshot
<1>6. QED
  BY <1>2, <1>3, <1>4, <1>5, Zenon

\* Whatever rows a file holds: one that is accepted places every address that one of
\* its rows names where that row says, and no other; one with an address that two
\* rows name is refused; and the table it gives is in order (ReadCSVSnapshot,
\* parseCSVRow, ParseNetworkField, CheckNonOverlapping).
THEOREM FilesReadAsWritten ==
    ASSUME NEW rows \in Seq(FileRows), NEW read \in ReadCSVSnapshot(rows)
    PROVE  FileExact(rows, read)
<1> DEFINE good == {i \in DOMAIN rows : parseCSVRow(rows[i]) # <<>>}
           ranges == [i \in good |-> Head(parseCSVRow(rows[i]))]
           naming(ip) == {i \in {i \in DOMAIN rows : rows[i].coords} : Names(rows[i].net, ip)}
<1>1. Len(rows) \in Nat /\ DOMAIN rows = 1 .. Len(rows) /\ \A i \in DOMAIN rows : rows[i] \in FileRows
  OBVIOUS
<1>2. /\ IsFiniteSet(good) /\ ranges \in [good -> GeoRanges]
      /\ \A i \in good : ranges[i].start <= ranges[i].end
      /\ \E s \in Sorted(ranges) :
            read = IF good # {} /\ CheckNonOverlapping(s)
                   THEN [ok |-> TRUE, ranges |-> s, built |-> buildGeoSnapshot(s)] ELSE [ok |-> FALSE]
  BY FileRead, Zenon
<1>3. ASSUME NEW ip \in Addr, NEW i \in DOMAIN rows
      PROVE  /\ i \in naming(ip) <=> i \in Holding(ranges, good, ip)
             /\ i \in naming(ip) => ranges[i].country = rows[i].country /\ ranges[i].city = rows[i].city
  <2>1. CASE parseCSVRow(rows[i]) = <<>>
    <3>1. ~(rows[i].coords /\ Names(rows[i].net, ip))
      <4>1. \A e : <<e>> # <<>>
        OBVIOUS
      <4>2. rows[i] \in FileRows
        BY <1>1
      <4>3. QED
        BY <2>1, <4>1, <4>2, RowParsed, Zenon
    <3>2. i \notin good
      BY <2>1
    <3> HIDE DEF good, ranges
    <3>3. QED
      BY <3>1, <3>2 DEF Holding
  <2>2. CASE parseCSVRow(rows[i]) # <<>>
    <3>1. PICK e \in GeoRanges : /\ parseCSVRow(rows[i]) = <<e>> /\ rows[i].coords
                                 /\ e.country = rows[i].country /\ e.city = rows[i].city
                                 /\ \A a \in Addr : Names(rows[i].net, a) <=> Covers(e, a)
      BY <1>1, <2>2, RowParsed
    <3>2. i \in good /\ ranges[i] = e
      <4>1. Head(<<e>>) = e
        OBVIOUS
      <4>2. i \in good
        BY <2>2
      <4>3. ranges[i] = Head(parseCSVRow(rows[i]))
        BY <4>2, Zenon
      <4>4. QED
        BY <3>1, <4>1, <4>2, <4>3, Zenon
    <3>3. Names(rows[i].net, ip) <=> Covers(ranges[i], ip)
      BY <3>1, <3>2
    <3> HIDE DEF ranges, good
    <3>4. QED
      BY <3>1, <3>2, <3>3 DEF Holding
  <2>3. QED
    BY <2>1, <2>2
<1>4. \A ip \in Addr : naming(ip) = Holding(ranges, good, ip)
  <2>1. \A ip \in Addr : Holding(ranges, good, ip) \subseteq DOMAIN rows /\ naming(ip) \subseteq DOMAIN rows
    BY DEF Holding
  <2>2. QED
    BY <1>3, <2>1
<1>5. \A ip \in Addr : ip \in Nat
  BY DEF Addr
<1> HIDE DEF good, ranges
<1> SUFFICES ASSUME read.ok
             PROVE  FileExact(rows, read)
  BY Zenon DEF FileExact
<1>6. PICK s \in Sorted(ranges) :
          CheckNonOverlapping(s) /\ read = [ok |-> TRUE, ranges |-> s, built |-> buildGeoSnapshot(s)]
  <2>1. PICK s \in Sorted(ranges) :
            read = IF good # {} /\ CheckNonOverlapping(s)
                   THEN [ok |-> TRUE, ranges |-> s, built |-> buildGeoSnapshot(s)] ELSE [ok |-> FALSE]
    BY <1>2, Zenon
  <2>2. good # {} /\ CheckNonOverlapping(s)
    BY <2>1
  <2>3. QED
    BY <2>1, <2>2, Zenon
<1>7. /\ s \in Seq(GeoRanges) /\ InOrder(s) /\ NormalizeRanges(s) = s
      /\ \A ip \in Nat : /\ Around(s, ip) = {ranges[k] : k \in Holding(ranges, good, ip)}
                         /\ \A k, l \in Holding(ranges, good, ip) : k = l
  BY <1>2, <1>6, PlacesAnswer
<1>8. Mirrors(read.built, s)
  <2>1. \A i, j \in DOMAIN s : i < j => s[i].start <= s[j].start
    BY <1>2, SortedIs
  <2>2. Mirrors(buildGeoSnapshot(s), s)
    BY <1>7, <2>1, NormalizedIs
  <2>3. QED
    BY <1>6, <2>2
<1>9. ASSUME NEW ip \in Addr
      PROVE  ~(Cardinality(naming(ip)) > 1)
  <2>1. \A k, l \in naming(ip) : k = l
    BY <1>4, <1>5, <1>7
  <2>2. IsFiniteSet(naming(ip))
    <3>1. IsFiniteSet(1 .. Len(rows))
      BY <1>1, FS_Interval
    <3>2. naming(ip) \in SUBSET (1 .. Len(rows))
      BY <1>1
    <3>3. QED
      BY <3>1, <3>2, FS_Subset
  <2> HIDE DEF naming
  <2>3. QED
    BY <2>1, <2>2, TwoOfMany
<1>10. ASSUME NEW ip \in Addr
       PROVE  {<<r.country, r.city>> : r \in LookupRange(read.built, ip)}
                = {<<rows[i].country, rows[i].city>> : i \in naming(ip)}
  <2>1. LookupRange(read.built, ip) = {ranges[k] : k \in naming(ip)}
    <3>1. LookupRange(read.built, ip) = Around(s, ip)
      BY <1>5, <1>7, <1>8, MirrorAnswers
    <3>2. QED
      BY <1>4, <1>5, <1>7, <3>1
  <2>2. \A i \in naming(ip) : ranges[i].country = rows[i].country /\ ranges[i].city = rows[i].city
    BY <1>3
  <2> HIDE DEF naming
  <2>3. QED
    BY <2>1, <2>2
<1>11. InOrder(read.ranges)
  BY <1>6, <1>7
<1>12. QED
  BY <1>9, <1>10, <1>11, Zenon DEF FileExact

-----------------------------------------------------------------------------
(* Ranges: what is exported *)

\* Numbers up to n that grow are all of them.
LEMMA GrowingAreAll ==
    ASSUME NEW n \in Nat, NEW p \in [1 .. n -> 1 .. n], \A i, j \in 1 .. n : i < j => p[i] < p[j]
    PROVE  \A i \in 1 .. n : p[i] = i
<1> DEFINE Up == {i \in Nat : i \in 1 .. n => p[i] >= i}
           Down == {d \in Nat : n - d \in 1 .. n => p[n - d] <= n - d}
<1>1. \A i \in 1 .. n : p[i] \in 1 .. n
  OBVIOUS
<1>2. Nat \subseteq Up
  <2>1. 0 \in Up
    OBVIOUS
  <2>2. ASSUME NEW i \in Nat, i \in Up
        PROVE  i + 1 \in Up
    <3> SUFFICES ASSUME i + 1 \in 1 .. n
                 PROVE  p[i + 1] >= i + 1
      OBVIOUS
    <3>1. CASE i = 0
      BY <1>1, <3>1
    <3>2. CASE i # 0
      <4>1. i \in 1 .. n /\ p[i] >= i /\ p[i] < p[i + 1]
        BY <2>2, <3>2
      <4>2. QED
        BY <1>1, <4>1
    <3>3. QED
      BY <3>1, <3>2
  <2> HIDE DEF Up
  <2>3. QED
    BY <2>1, <2>2, NatInd
<1>3. Nat \subseteq Down
  <2>1. 0 \in Down
    BY <1>1
  <2>2. ASSUME NEW d \in Nat, d \in Down
        PROVE  d + 1 \in Down
    <3> SUFFICES ASSUME n - (d + 1) \in 1 .. n
                 PROVE  p[n - (d + 1)] <= n - (d + 1)
      OBVIOUS
    <3>1. n - d \in 1 .. n /\ n - (d + 1) < n - d
      OBVIOUS
    <3>2. p[n - d] <= n - d /\ p[n - (d + 1)] < p[n - d]
      BY <2>2, <3>1
    <3>3. p[n - d] \in 1 .. n /\ p[n - (d + 1)] \in 1 .. n
      BY <1>1, <3>1
    <3>4. QED
      BY <3>2, <3>3
  <2> HIDE DEF Down
  <2>3. QED
    BY <2>1, <2>2, NatInd
<1>4. ASSUME NEW i \in 1 .. n
      PROVE  p[i] = i
  <2>1. p[i] >= i
    BY <1>2
  <2>2. n - i \in Nat /\ n - (n - i) = i
    OBVIOUS
  <2>3. p[i] <= i
    BY <1>3, <2>2
  <2>4. QED
    BY <1>1, <2>1, <2>3
<1>5. QED
  BY <1>4

\* Ranges in order are sorted as they are.
LEMMA SortedAsIs ==
    ASSUME NEW t \in Seq(GeoRanges), InOrder(t), NEW s \in Sorted(t)
    PROVE  s = t
<1> DEFINE n == Len(t)
<1>1. n \in Nat /\ DOMAIN t = 1 .. n /\ \A i \in DOMAIN t : t[i].start \in Nat /\ t[i].end \in Nat
  BY RangeTyped
<1>2. t \in [1 .. n -> GeoRanges] /\ IsFiniteSet(1 .. n) /\ Cardinality(1 .. n) = n
  <2>1. IsFiniteSet(1 .. n) /\ Cardinality(1 .. n) = n
    <3> HIDE DEF n
    <3>1. IsFiniteSet(1 .. n) /\ Cardinality(1 .. n) = IF 1 > n THEN 0 ELSE n - 1 + 1
      BY <1>1, FS_Interval
    <3>2. QED
      BY <1>1, <3>1
  <2>2. t \in [1 .. n -> GeoRanges]
    BY <1>1
  <2>3. QED
    BY <2>1, <2>2
<1>3. /\ s \in Seq(GeoRanges) /\ Len(s) = n
      /\ \A i, j \in DOMAIN s : i < j => s[i].start <= s[j].start
  BY <1>2, SortedIs
<1>4. PICK p \in [1 .. n -> 1 .. n] :
          /\ \A i \in 1 .. n : s[i] = t[p[i]]
          /\ \A i, j \in 1 .. n : i # j => p[i] # p[j]
  <2>1. PICK P : P = 1 .. n
    OBVIOUS
  <2>2. t \in [P -> GeoRanges] /\ IsFiniteSet(P)
    BY <1>2, <2>1
  <2>3. PICK p \in [1 .. Len(s) -> P] :
            /\ \A i \in 1 .. Len(s) : s[i] = t[p[i]]
            /\ \A i, j \in 1 .. Len(s) : i # j => p[i] # p[j]
    <3>1. \E p \in [1 .. Len(s) -> P] :
             /\ \A i \in 1 .. Len(s) : s[i] = t[p[i]]
             /\ \A i, j \in 1 .. Len(s) : i # j => p[i] # p[j]
             /\ \A m \in P : \E i \in 1 .. Len(s) : p[i] = m
      BY ONLY <2>2, s \in Sorted(t), SortedIs, SMTT(60)
    <3>2. QED
      BY <3>1, Zenon
  <2>4. QED
    BY <1>3, <2>1, <2>3, Zenon
<1> HIDE DEF n
<1>5. ASSUME NEW i \in 1 .. n, NEW j \in 1 .. n, i < j
      PROVE  p[i] < p[j]
  <2>1. p[i] \in 1 .. n /\ p[j] \in 1 .. n /\ p[i] # p[j]
    BY <1>4, <1>5
  <2>2. DOMAIN s = 1 .. n
    BY <1>3
  <2>3. t[p[i]].start <= t[p[j]].start
    <3>1. s[i].start <= s[j].start
      BY <1>3, <1>5, <2>2
    <3>2. s[i] = t[p[i]] /\ s[j] = t[p[j]]
      BY <1>4, Zenon
    <3>3. QED
      BY <3>1, <3>2, Zenon
  <2>4. p[j] < p[i] => t[p[j]].end < t[p[i]].start /\ t[p[j]].start <= t[p[j]].end
    BY <1>1, <2>1 DEF InOrder
  <2>5. ~(p[j] < p[i])
    <3>1. t[p[j]].start \in Nat /\ t[p[j]].end \in Nat /\ t[p[i]].start \in Nat
      BY <1>1, <2>1
    <3>2. QED
      BY <2>3, <2>4, <3>1
  <2>6. QED
    BY <1>1, <2>1, <2>5
<1>6. \A i \in 1 .. n : p[i] = i
  BY <1>1, <1>5, GrowingAreAll
<1>7. \A i \in 1 .. n : s[i] = t[i]
  BY <1>4, <1>6
<1>8. QED
  BY <1>1, <1>3, <1>7 DEF n

\* Names that are stored once.
Distinct(names) == \A i, j \in DOMAIN names : names[i] = names[j] => i = j

LEMMA WithNameDistinct ==
    ASSUME NEW names \in Seq(Words), NEW v \in Words, Distinct(names)
    PROVE  Distinct(WithName(names, v))
<1>1. Len(names) \in Nat /\ DOMAIN names = 1 .. Len(names)
  OBVIOUS
<1>2. CASE Contains(names, v)
  BY <1>2 DEF WithName
<1>3. CASE ~Contains(names, v)
  <2>1. PICK new : new = Append(names, v)
    OBVIOUS
  <2>2. /\ DOMAIN new = 1 .. Len(names) + 1 /\ new[Len(names) + 1] = v
        /\ \A i \in 1 .. Len(names) : new[i] = names[i]
    BY <2>1
  <2>3. \A i \in 1 .. Len(names) : names[i] # v
    BY <1>3 DEF Contains
  <2>4. ASSUME NEW i \in DOMAIN new, NEW j \in DOMAIN new, new[i] = new[j]
        PROVE  i = j
    <3>1. (i \in 1 .. Len(names) \/ i = Len(names) + 1) /\ (j \in 1 .. Len(names) \/ j = Len(names) + 1)
      BY <1>1, <2>2
    <3>2. CASE i \in 1 .. Len(names) /\ j \in 1 .. Len(names)
      BY <1>1, <2>2, <2>4, <3>2 DEF Distinct
    <3>3. QED
      BY <2>2, <2>3, <2>4, <3>1, <3>2
  <2>5. new = WithName(names, v)
    BY <1>3, <2>1, Zenon DEF WithName
  <2>6. QED
    BY <2>4, <2>5 DEF Distinct
<1>4. QED
  BY <1>2, <1>3

\* A name keeps its place when another is stored.
LEMMA PlaceKept ==
    ASSUME NEW old \in Seq(Words), NEW v \in Words, Distinct(old), NEW new, new = WithName(old, v),
           NEW name, \E k \in DOMAIN old : old[k] = name
    PROVE  ID(new, name) = ID(old, name) /\ \E k \in DOMAIN new : new[k] = name
<1>1. PICK k \in DOMAIN old : old[k] = name
  OBVIOUS
<1>2. \A i \in DOMAIN old : i \in DOMAIN new /\ new[i] = old[i]
  BY WithNameIs
<1>3. Distinct(new)
  BY WithNameDistinct
<1>4. ID(old, name) \in DOMAIN old /\ old[ID(old, name)] = name
  BY <1>1, IDIs
<1>5. k \in DOMAIN new /\ new[k] = name
  BY <1>1, <1>2
<1>6. ID(new, name) \in DOMAIN new /\ new[ID(new, name)] = name
  BY <1>5, IDIs
<1>7. ID(old, name) \in DOMAIN new /\ new[ID(old, name)] = name
  BY <1>2, <1>4
<1>8. QED
  BY <1>3, <1>5, <1>6, <1>7 DEF Distinct

\* The names of the first i rows: what they are, and that they keep their places.
LEMMA NamesGrow ==
    ASSUME NEW column \in Seq(Words)
    PROVE  LET names == NamesIn(column)
               n == Len(column)
           IN  /\ names[0] = <<>>
               /\ \A i \in 0 .. n : /\ names[i] \in Seq(Words) /\ Distinct(names[i])
                                    /\ \A m \in 1 .. i : \E k \in DOMAIN names[i] : names[i][k] = column[m]
               /\ \A i \in 1 .. n : /\ names[i] = WithName(names[i - 1], column[i])
                                    /\ \A m \in 1 .. i - 1 : ID(names[i], column[m]) = ID(names[i - 1], column[m])
<1> DEFINE n == Len(column)
           names == NamesIn(column)
           Good(i) == /\ names[i] \in Seq(Words) /\ Distinct(names[i])
                      /\ \A m \in 1 .. i : \E k \in DOMAIN names[i] : names[i][k] = column[m]
           T == {i \in Nat : i <= n => Good(i)}
<1>1. n \in Nat /\ \A i \in 1 .. n : column[i] \in Words
  OBVIOUS
<1>2. names[0] = <<>> /\ \A i \in 1 .. n : names[i - 1] \in Seq(Words) /\ names[i] = WithName(names[i - 1], column[i])
  BY NamesInIs
<1> HIDE DEF names
<1>3. 0 \in T
  <2>1. <<>> \in Seq(Words) /\ Distinct(<<>>)
    BY DEF Distinct
  <2>2. names[0] \in Seq(Words) /\ Distinct(names[0])
    BY <1>2, <2>1, Zenon
  <2>3. QED
    BY <2>2
<1>4. ASSUME NEW i \in Nat, i + 1 <= n, Good(i)
      PROVE  Good(i + 1) /\ \A m \in 1 .. i : ID(names[i + 1], column[m]) = ID(names[i], column[m])
  <2>1. i + 1 \in 1 .. n /\ (i + 1) - 1 = i
    BY <1>1, <1>4
  <2>2. PICK old \in Seq(Words), v \in Words : old = names[i] /\ v = column[i + 1]
    BY <1>1, <1>4, <2>1
  <2>3. PICK new \in Seq(Words) :
            /\ new = WithName(old, v)
            /\ \A k \in DOMAIN old : k \in DOMAIN new /\ new[k] = old[k]
            /\ \E k \in DOMAIN new : new[k] = v
    BY WithNameIs
  <2>4. new = names[i + 1]
    BY <1>2, <2>1, <2>2, <2>3
  <2>5. Distinct(old)
    BY <1>4, <2>2
  <2>6. Distinct(new)
    BY <2>3, <2>5, WithNameDistinct
  <2>7. ASSUME NEW m \in 1 .. i
        PROVE  ID(new, column[m]) = ID(old, column[m]) /\ \E k \in DOMAIN new : new[k] = column[m]
    <3>1. \E k \in DOMAIN old : old[k] = column[m]
      BY <1>4, <2>2
    <3>2. QED
      BY <2>3, <2>5, <3>1, PlaceKept
  <2>8. \A m \in 1 .. i + 1 : m \in 1 .. i \/ m = i + 1
    OBVIOUS
  <2>9. \A m \in 1 .. i + 1 : \E k \in DOMAIN new : new[k] = column[m]
    BY <2>2, <2>3, <2>7, <2>8
  <2>10. QED
    BY <2>2, <2>4, <2>6, <2>7, <2>9
<1>5. Nat \subseteq T
  <2>1. \A i \in Nat : i \in T => i + 1 \in T
    BY <1>1, <1>4
  <2> HIDE DEF T
  <2>2. QED
    BY <1>3, <2>1, NatInd
<1>6. \A i \in 0 .. n : Good(i)
  BY <1>1, <1>5
<1>7. ASSUME NEW i \in 1 .. n
      PROVE  \A m \in 1 .. i - 1 : ID(names[i], column[m]) = ID(names[i - 1], column[m])
  <2>1. i - 1 \in Nat /\ (i - 1) + 1 <= n /\ (i - 1) + 1 = i /\ i - 1 \in 0 .. n
    BY <1>1
  <2>2. Good(i - 1)
    BY <1>6, <2>1
  <2> HIDE DEF Good
  <2>3. \A m \in 1 .. i - 1 : ID(names[(i - 1) + 1], column[m]) = ID(names[i - 1], column[m])
    BY <1>4, <2>1, <2>2
  <2>4. QED
    BY <2>1, <2>3
<1>8. QED
  BY <1>2, <1>6, <1>7 DEF names

\* A range in order fits behind those before it.
LEMMA NextFits ==
    ASSUME NEW s \in Seq(GeoRanges), InOrder(s), NEW i \in 1 .. Len(s)
    PROVE  SubSeq(s, 1, i - 1) \in Seq(GeoRanges) /\ Fits(SubSeq(s, 1, i - 1), s[i])
<1>1. Len(s) \in Nat /\ DOMAIN s = 1 .. Len(s) /\ \A k \in DOMAIN s : s[k].start \in Nat /\ s[k].end \in Nat
  BY RangeTyped
<1>2. PICK k \in Seq(GeoRanges) : /\ k = SubSeq(s, 1, i - 1) /\ Len(k) = i - 1
                                 /\ \A m \in 1 .. i - 1 : k[m] = s[m]
  <2>1. PICK j \in 0 .. Len(s) : j = i - 1
    BY <1>1
  <2>2. PICK k : k = SubSeq(s, 1, j)
    OBVIOUS
  <2>3. k \in Seq(GeoRanges) /\ Len(k) = j /\ \A m \in 1 .. j : k[m] = s[m]
    BY <1>1, <2>1, <2>2
  <2>4. QED
    BY <2>1, <2>2, <2>3, Zenon
<1>3. s[i].start <= s[i].end
  BY <1>1 DEF InOrder
<1>4. CASE i = 1
  BY <1>2, <1>3, <1>4 DEF Fits
<1>5. CASE i > 1
  <2>1. k[Len(k)] = s[i - 1]
    BY <1>1, <1>2, <1>5
  <2>2. i - 1 \in DOMAIN s /\ i \in DOMAIN s /\ i - 1 < i
    BY <1>1, <1>5
  <2>3. s[i - 1].end < s[i].start /\ s[i - 1].end \in Nat /\ s[i].start \in Nat
    BY <1>1, <2>2 DEF InOrder
  <2>4. QED
    BY <1>2, <1>3, <2>1, <2>3 DEF Fits, Last
<1>6. QED
  BY <1>1, <1>4, <1>5

\* The rows of the first i ranges, with names by their places among countries and cities.
RowOf(r, countries, cities) ==
    [start |-> r.start, end |-> r.end, country |-> ID(countries, r.country), city |-> ID(cities, r.city)]
RowsTo(s, i, countries, cities) == [k \in 1 .. i |-> RowOf(s[k], countries, cities)]

\* CompactBuilder and buildSnapshot give the same index of ranges that are in order.
LEMMA SameIndex ==
    ASSUME NEW s \in Seq(GeoRanges), InOrder(s)
    PROVE  buildGeoSnapshot(s) = buildSnapshot(s)
<1> DEFINE n == Len(s)
           col == [i \in DOMAIN s |-> s[i].country]
           cit == [i \in DOMAIN s |-> s[i].city]
           cs == NamesIn(col)
           ts == NamesIn(cit)
           built == BuiltOf(s)
           Is(i) == built[i] = [rows |-> RowsTo(s, i, cs[i], ts[i]), countries |-> cs[i], cities |-> ts[i]]
           T == {i \in Nat : i <= n => Is(i)}
<1>1. /\ n \in Nat /\ DOMAIN s = 1 .. n
      /\ \A i \in 1 .. n : s[i] \in GeoRanges /\ s[i].country \in Words /\ s[i].city \in Words
  BY RangeTyped DEF GeoRanges, Words
<1>2. col \in Seq(Words) /\ Len(col) = n /\ \A i \in 1 .. n : col[i] = s[i].country
  BY <1>1
<1>3. cit \in Seq(Words) /\ Len(cit) = n /\ \A i \in 1 .. n : cit[i] = s[i].city
  BY <1>1
<1> HIDE DEF col, cit
<1>4. /\ cs[0] = <<>>
      /\ \A i \in 1 .. n : /\ cs[i] = WithName(cs[i - 1], s[i].country)
                           /\ \A m \in 1 .. i - 1 : ID(cs[i], s[m].country) = ID(cs[i - 1], s[m].country)
  <2>1. /\ cs[0] = <<>>
        /\ \A i \in 1 .. n : /\ cs[i] = WithName(cs[i - 1], col[i])
                             /\ \A m \in 1 .. i - 1 : ID(cs[i], col[m]) = ID(cs[i - 1], col[m])
    <3>1. /\ NamesIn(col)[0] = <<>>
          /\ \A i \in 1 .. Len(col) :
                /\ NamesIn(col)[i] = WithName(NamesIn(col)[i - 1], col[i])
                /\ \A m \in 1 .. i - 1 : ID(NamesIn(col)[i], col[m]) = ID(NamesIn(col)[i - 1], col[m])
      BY <1>2, NamesGrow
    <3>2. Len(col) = n
      BY <1>2
    <3> HIDE DEF n
    <3>3. QED
      BY <3>1, <3>2, Zenon
  <2> HIDE DEF cs
  <2>2. \A i \in 1 .. n : \A m \in 1 .. i - 1 : m \in 1 .. n
    BY <1>1
  <2>3. QED
    BY <1>2, <2>1, <2>2
<1>5. /\ ts[0] = <<>>
      /\ \A i \in 1 .. n : /\ ts[i] = WithName(ts[i - 1], s[i].city)
                           /\ \A m \in 1 .. i - 1 : ID(ts[i], s[m].city) = ID(ts[i - 1], s[m].city)
  <2>1. /\ ts[0] = <<>>
        /\ \A i \in 1 .. n : /\ ts[i] = WithName(ts[i - 1], cit[i])
                             /\ \A m \in 1 .. i - 1 : ID(ts[i], cit[m]) = ID(ts[i - 1], cit[m])
    <3>1. /\ NamesIn(cit)[0] = <<>>
          /\ \A i \in 1 .. Len(cit) :
                /\ NamesIn(cit)[i] = WithName(NamesIn(cit)[i - 1], cit[i])
                /\ \A m \in 1 .. i - 1 : ID(NamesIn(cit)[i], cit[m]) = ID(NamesIn(cit)[i - 1], cit[m])
      BY <1>3, NamesGrow
    <3>2. Len(cit) = n
      BY <1>3
    <3> HIDE DEF n
    <3>3. QED
      BY <3>1, <3>2, Zenon
  <2> HIDE DEF ts
  <2>2. \A i \in 1 .. n : \A m \in 1 .. i - 1 : m \in 1 .. n
    BY <1>1
  <2>3. QED
    BY <1>3, <2>1, <2>2
<1>6. built[0] = EmptySnapshot /\ \A i \in 1 .. n : built[i] = AddRange(built[i - 1], s[i])
  BY BuiltIs
<1>7. \A i \in 0 .. n : Mirrors(built[i], SubSeq(s, 1, i))
  <2>1. \A i \in 0 .. n : Mirrors(built[i], KeptOf(s)[i])
    BY BuiltMirrors
  <2>2. \A i \in 0 .. n : KeptOf(s)[i] = SubSeq(s, 1, i)
    BY AllKept
  <2> HIDE DEF built
  <2>3. QED
    BY <2>1, <2>2
<1>8. buildSnapshot(s) = [rows |-> RowsTo(s, n, cs[n], ts[n]), countries |-> cs[n], cities |-> ts[n]]
  <2>1. buildSnapshot(s) = [rows |-> [i \in DOMAIN s |-> RowOf(s[i], cs[n], ts[n])], countries |-> cs[n], cities |-> ts[n]]
    BY Zenon DEF buildSnapshot, RowOf, col, cit
  <2>2. QED
    BY <1>1, <2>1, Zenon DEF RowsTo
<1> HIDE DEF cs, ts, built
<1>9. 0 \in T
  <2>1. RowsTo(s, 0, cs[0], ts[0]) = <<>>
    BY DEF RowsTo
  <2>2. QED
    BY <1>4, <1>5, <1>6, <2>1 DEF EmptySnapshot
<1>10. ASSUME NEW i \in Nat, i \in T
       PROVE  i + 1 \in T
  <2> SUFFICES ASSUME i + 1 <= n
               PROVE  Is(i + 1)
    OBVIOUS
  <2>1. i + 1 \in 1 .. n /\ (i + 1) - 1 = i /\ i \in 0 .. n
    BY <1>1
  <2>2. Is(i)
    BY <1>1, <1>10, <2>1
  <2>3. PICK r \in GeoRanges : r = s[i + 1]
    BY <1>1, <2>1
  <2>4. Fits(built[i].rows, r)
    <3>1. SubSeq(s, 1, i) \in Seq(GeoRanges) /\ Fits(SubSeq(s, 1, i), r)
      <4>1. SubSeq(s, 1, (i + 1) - 1) \in Seq(GeoRanges) /\ Fits(SubSeq(s, 1, (i + 1) - 1), s[i + 1])
        BY <2>1, NextFits
      <4>2. QED
        BY <2>1, <2>3, <4>1
    <3>2. Mirrors(built[i], SubSeq(s, 1, i))
      BY <1>7, <2>1
    <3>3. QED
      BY <3>1, <3>2, FitsAlike
  <2>5. PICK c, t, rows : c = cs[i + 1] /\ t = ts[i + 1] /\ rows = RowsTo(s, i, cs[i], ts[i])
    OBVIOUS
  <2>6. c = WithName(cs[i], r.country) /\ t = WithName(ts[i], r.city)
    BY <1>4, <1>5, <2>1, <2>3, <2>5
  <2>7. built[i].rows = rows /\ built[i].countries = cs[i] /\ built[i].cities = ts[i]
    BY <2>2, <2>5
  <2>8. built[i + 1] = AddRange(built[i], r)
    BY <1>6, <2>1, <2>3
  <2>9. built[i + 1] = [rows |-> Append(rows, RowOf(r, c, t)), countries |-> c, cities |-> t]
    <3>1. AddRange(built[i], r)
            = [rows |-> Append(built[i].rows,
                               RowOf(r, WithName(built[i].countries, r.country), WithName(built[i].cities, r.city))),
               countries |-> WithName(built[i].countries, r.country), cities |-> WithName(built[i].cities, r.city)]
      BY <2>4, Zenon DEF AddRange, RowOf
    <3>2. QED
      BY <2>6, <2>7, <2>8, <3>1, Zenon
  <2>10. Append(rows, RowOf(r, c, t)) = RowsTo(s, i + 1, c, t)
    <3>1. \A m \in 1 .. i : RowOf(s[m], cs[i], ts[i]) = RowOf(s[m], c, t)
      <4>1. \A m \in 1 .. i : ID(c, s[m].country) = ID(cs[i], s[m].country)
        BY <1>4, <2>1, <2>5
      <4>2. \A m \in 1 .. i : ID(t, s[m].city) = ID(ts[i], s[m].city)
        BY <1>5, <2>1, <2>5
      <4>3. QED
        BY <4>1, <4>2 DEF RowOf
    <3>2. rows = [m \in 1 .. i |-> RowOf(s[m], c, t)]
      BY <2>5, <3>1 DEF RowsTo
    <3>3. PICK R : R = {RowOf(s[m], c, t) : m \in 1 .. i + 1}
      OBVIOUS
    <3>4. rows \in Seq(R) /\ Len(rows) = i /\ \A m \in 1 .. i : rows[m] = RowOf(s[m], c, t)
      BY <3>2, <3>3
    <3>5. PICK x \in R : x = RowOf(r, c, t) /\ x = RowOf(s[i + 1], c, t)
      BY <2>3, <3>3
    <3>6. PICK new : new = Append(rows, x)
      OBVIOUS
    <3>7. new \in Seq(R) /\ Len(new) = i + 1 /\ \A m \in 1 .. i + 1 : new[m] = RowOf(s[m], c, t)
      BY <3>4, <3>5, <3>6
    <3>8. new = [m \in 1 .. i + 1 |-> RowOf(s[m], c, t)]
      BY <3>7
    <3>9. QED
      BY <3>5, <3>6, <3>8 DEF RowsTo
  <2>11. QED
    BY <2>5, <2>9, <2>10, Zenon
<1>11. Nat \subseteq T
  <2> HIDE DEF T
  <2> QED
    BY <1>9, <1>10, NatInd
<1>12. Is(n)
  BY <1>1, <1>11
<1>13. QED
  BY <1>8, <1>12, Zenon DEF buildGeoSnapshot, built

\* A range that is written is read as it was.
LEMMA WrittenIsRead ==
    ASSUME NEW r \in GeoRanges, r.start <= r.end, NEW row,
           row = [net |-> FormatNetwork(r.start, r.end), country |-> r.country, city |-> r.city, coords |-> TRUE]
    PROVE  parseCSVRow(row) = <<r>>
<1>1. r.start \in Nat /\ r.end \in Nat
  BY DEF GeoRanges, Words
<1>2. PICK net : net = ParseNetworkField(FormatNetwork(r.start, r.end))
  OBVIOUS
<1>3. net = Network(r.start, r.end)
  <2>1. CASE r.start = r.end
    BY <1>2, <2>1 DEF FormatNetwork, Single, ParseNetworkField
  <2>2. CASE r.start # r.end
    <3>1. FormatNetwork(r.start, r.end) = FromTo(r.start, r.end)
      BY <2>2 DEF FormatNetwork
    <3>2. ParseNetworkField(FromTo(r.start, r.end)) = Network(r.start, r.end)
      BY <1>1 DEF FromTo, ParseNetworkField
    <3>3. QED
      BY <1>2, <3>1, <3>2
  <2>3. QED
    BY <2>1, <2>2
<1>4. net.ok /\ Entry(net, r.country, r.city) = r
  <2>1. r = [start |-> r.start, end |-> r.end, country |-> r.country, city |-> r.city]
    BY DEF GeoRanges, Words
  <2>2. net.ok /\ net.start = r.start /\ net.end = r.end
    BY <1>3 DEF Network
  <2>3. QED
    BY <2>1, <2>2 DEF Entry
<1>5. row.coords /\ row.net = FormatNetwork(r.start, r.end) /\ row.country = r.country /\ row.city = r.city
  OBVIOUS
<1>6. parseCSVRow(row) = <<Entry(net, r.country, r.city)>>
  BY <1>2, <1>4, <1>5, Zenon DEF parseCSVRow
<1>7. QED
  BY <1>4, <1>6, Zenon

\* Whatever a table holds, what is exported of it is read again: the file is
\* accepted, gives the ranges it was written from, and the index that is built while
\* reading is the one the table would get (ExportCSV, WriteCSV, ReadCSVSnapshot,
\* CompactBuilder, buildSnapshot).
THEOREM ExportsReadBack ==
    ASSUME NEW ranges \in Seq(GeoRanges)
    PROVE  ExportReadBack(ranges)
<1> SUFFICES ASSUME NEW rows \in ExportCSV(ranges), rows # <<>>, NEW read \in ReadCSVSnapshot(rows)
             PROVE  read.ok /\ WriteCSV(read.ranges) = rows /\ read.built = buildSnapshot(read.ranges)
  BY Zenon DEF ExportReadBack
<1>1. PICK sorted \in Sorted(ranges) : rows = WriteCSV(NormalizeRanges(sorted))
  BY Zenon DEF ExportCSV
<1>2. PICK kept \in Seq(GeoRanges) : kept = NormalizeRanges(sorted) /\ InOrder(kept)
  <2>1. Len(ranges) \in Nat /\ ranges \in [1 .. Len(ranges) -> GeoRanges] /\ IsFiniteSet(1 .. Len(ranges))
    BY FS_Interval
  <2>2. sorted \in Seq(GeoRanges) /\ \A i, j \in DOMAIN sorted : i < j => sorted[i].start <= sorted[j].start
    BY <2>1, SortedIs
  <2>3. QED
    BY <2>2, NormalizedIs
<1>3. /\ Len(kept) \in Nat /\ DOMAIN kept = 1 .. Len(kept)
      /\ \A i \in DOMAIN kept : kept[i] \in GeoRanges /\ kept[i].start \in Nat /\ kept[i].end \in Nat
  BY RangeTyped
<1>4. rows = WriteCSV(kept)
  BY <1>1, <1>2
<1>5. rows = [i \in DOMAIN kept |-> [net |-> FormatNetwork(kept[i].start, kept[i].end), country |-> kept[i].country,
                                      city |-> kept[i].city, coords |-> TRUE]]
  BY <1>4, Zenon DEF WriteCSV
<1>6. DOMAIN rows = DOMAIN kept
  BY <1>5
<1>7. ASSUME NEW i \in DOMAIN kept
      PROVE  parseCSVRow(rows[i]) = <<kept[i]>>
  <2>1. rows[i] = [net |-> FormatNetwork(kept[i].start, kept[i].end), country |-> kept[i].country,
                   city |-> kept[i].city, coords |-> TRUE]
    BY <1>5
  <2>2. kept[i] \in GeoRanges /\ kept[i].start <= kept[i].end
    BY <1>2, <1>3 DEF InOrder
  <2>3. QED
    BY <2>1, <2>2, WrittenIsRead
<1> DEFINE good == {i \in DOMAIN rows : parseCSVRow(rows[i]) # <<>>}
           again == [i \in good |-> Head(parseCSVRow(rows[i]))]
<1>8. good = DOMAIN kept
  <2>1. \A i \in DOMAIN kept : parseCSVRow(rows[i]) # <<>>
    <3>1. \A e : <<e>> # <<>>
      OBVIOUS
    <3>2. QED
      BY <1>7, <3>1, Zenon
  <2>2. QED
    BY <1>6, <2>1
<1>9. again = kept
  <2>1. \A i \in DOMAIN kept : Head(parseCSVRow(rows[i])) = kept[i]
    <3>1. \A e : Head(<<e>>) = e
      OBVIOUS
    <3>2. QED
      BY <1>7, <3>1, Zenon
  <2>2. again = [i \in DOMAIN kept |-> kept[i]]
    BY <1>8, <2>1
  <2>3. kept = [i \in DOMAIN kept |-> kept[i]]
    BY <1>3
  <2>4. QED
    BY <2>2, <2>3, Zenon
<1>10. PICK s \in Sorted(again) :
           read = IF good # {} /\ CheckNonOverlapping(s)
                  THEN [ok |-> TRUE, ranges |-> s, built |-> buildGeoSnapshot(s)] ELSE [ok |-> FALSE]
  BY Zenon DEF ReadCSVSnapshot
<1> HIDE DEF good, again
<1>11. s = kept
  BY <1>2, <1>9, <1>10, SortedAsIs
<1>12. good # {}
  <2>1. Len(kept) # 0
    <3>1. ASSUME Len(kept) = 0
          PROVE  FALSE
      <4>1. kept = <<>>
        BY <3>1
      <4>2. WriteCSV(<<>>) = <<>>
        BY DEF WriteCSV
      <4>3. QED
        BY <1>4, <4>1, <4>2, Zenon
    <3>2. QED
      BY <3>1
  <2>2. QED
    BY <1>3, <1>8, <2>1
<1>13. CheckNonOverlapping(s)
  <2>1. \A i \in 2 .. Len(kept) : i \in DOMAIN kept /\ i - 1 \in DOMAIN kept /\ i - 1 < i
    BY <1>3
  <2>2. \A i \in 2 .. Len(kept) : kept[i].start <= kept[i].end /\ kept[i].start > kept[i - 1].end
    BY <1>2, <1>3, <2>1 DEF InOrder
  <2>3. QED
    BY <1>11, <2>2 DEF CheckNonOverlapping
<1>14. read = [ok |-> TRUE, ranges |-> kept, built |-> buildGeoSnapshot(kept)]
  BY <1>10, <1>11, <1>12, <1>13, Zenon
<1>15. read.ok /\ read.ranges = kept /\ read.built = buildGeoSnapshot(kept)
  BY <1>14
<1>16. QED
  BY <1>2, <1>4, <1>15, SameIndex, Zenon

-----------------------------------------------------------------------------
(* Ranges: pages *)

\* What one range more adds to those that are picked.
OneMore(found, places, i, r) == IF i \in places THEN Append(found, r) ELSE found

\* What PickedOf says, range by range.
LEMMA PickedIs ==
    ASSUME NEW s \in Seq(GeoRanges), NEW places
    PROVE  /\ PickedOf(s, places)[0] = <<>>
           /\ \A i \in 1 .. Len(s) : PickedOf(s, places)[i] = OneMore(PickedOf(s, places)[i - 1], places, i, s[i])
<1> DEFINE n == Len(s)
           F == [x \in (1 .. n) \X Seq(GeoRanges) |-> OneMore(x[2], places, x[1], s[x[1]])]
           Is(h) == h = [i \in 0 .. n |-> IF i = 0 THEN <<>>
                                          ELSE IF i \in places THEN Append(h[i - 1], s[i]) ELSE h[i - 1]]
<1>1. n \in Nat /\ \A i \in 1 .. n : s[i] \in GeoRanges
  OBVIOUS
<1>2. \A i \in 1 .. n, v \in Seq(GeoRanges) :
         F[<<i, v>>] = OneMore(v, places, i, s[i]) /\ OneMore(v, places, i, s[i]) \in Seq(GeoRanges)
  BY <1>1 DEF OneMore
<1> HIDE DEF F, n
<1>3. PICK g \in [0 .. n -> Seq(GeoRanges)] : Recursive(g, n, <<>>, F)
  <2>1. StaysIn(n, Seq(GeoRanges), F)
    BY <1>2 DEF StaysIn
  <2>2. <<>> \in Seq(GeoRanges)
    OBVIOUS
  <2>3. QED
    BY <1>1, <2>1, <2>2, RecursionExists
<1>4. ASSUME NEW i \in 0 .. n
      PROVE  g[i] = IF i = 0 THEN <<>> ELSE IF i \in places THEN Append(g[i - 1], s[i]) ELSE g[i - 1]
  <2> SUFFICES ASSUME i # 0
               PROVE  g[i] = OneMore(g[i - 1], places, i, s[i])
    BY <1>3 DEF Recursive, OneMore
  <2>1. i \in 1 .. n /\ i - 1 \in 0 .. n
    BY <1>1
  <2>2. g[i] = F[<<i, g[i - 1]>>]
    BY <1>3 DEF Recursive
  <2>3. QED
    BY <1>2, <2>1, <2>2
<1>5. Is(g)
  BY <1>4
<1>6. Is(PickedOf(s, places))
  <2>1. PickedOf(s, places) = CHOOSE h : Is(h)
    BY Zenon DEF PickedOf, n
  <2> HIDE DEF Is
  <2>2. QED
    BY <1>5, <2>1, Zenon
<1>7. PICK f : f = PickedOf(s, places) /\ Is(f)
  BY <1>6
<1>8. f[0] = <<>> /\ \A i \in 1 .. n : f[i] = OneMore(f[i - 1], places, i, s[i])
  <2>1. \A i \in 0 .. n :
           f[i] = IF i = 0 THEN <<>> ELSE IF i \in places THEN Append(f[i - 1], s[i]) ELSE f[i - 1]
    BY <1>7
  <2> HIDE DEF Is
  <2>2. QED
    BY <1>1, <2>1 DEF OneMore
<1>9. QED
  BY <1>7, <1>8 DEF n

\* Those of the first i ranges that are at some places, in order.
PicksOf(s, places, i, found) ==
    /\ found \in Seq(GeoRanges)
    /\ \A k \in DOMAIN found : \E m \in 1 .. i : m \in places /\ found[k] = s[m]
    /\ \A m \in 1 .. i : m \in places => \E k \in DOMAIN found : found[k] = s[m]
    /\ \A k, l \in DOMAIN found : k < l => found[k].start < found[l].start

LEMMA PicksOneMore ==
    ASSUME NEW s \in Seq(GeoRanges), InOrder(s), NEW places, NEW i \in 0 .. Len(s) - 1,
           NEW found, PicksOf(s, places, i, found)
    PROVE  PicksOf(s, places, i + 1, OneMore(found, places, i + 1, s[i + 1]))
<1> DEFINE r == s[i + 1]
<1>1. /\ Len(s) \in Nat /\ DOMAIN s = 1 .. Len(s) /\ i \in Nat /\ i + 1 \in 1 .. Len(s) /\ r \in GeoRanges
      /\ \A m \in 1 .. Len(s) : s[m].start \in Nat /\ s[m].end \in Nat
  BY RangeTyped
<1>2. found \in Seq(GeoRanges) /\ Len(found) \in Nat /\ DOMAIN found = 1 .. Len(found)
  BY DEF PicksOf
<1>3. CASE i + 1 \notin places
  <2>1. OneMore(found, places, i + 1, r) = found
    BY <1>3 DEF OneMore
  <2>2. \A m \in 1 .. i + 1 : m \in places => m \in 1 .. i
    BY <1>1, <1>3
  <2>3. \A m \in 1 .. i : m \in 1 .. i + 1
    BY <1>1
  <2>4. PicksOf(s, places, i + 1, found)
    BY <2>2, <2>3 DEF PicksOf
  <2>5. QED
    BY <2>1, <2>4
<1>4. CASE i + 1 \in places
  <2>1. PICK new : new = Append(found, r) /\ new = OneMore(found, places, i + 1, r)
    BY <1>4 DEF OneMore
  <2>2. /\ new \in Seq(GeoRanges) /\ DOMAIN new = 1 .. Len(found) + 1 /\ new[Len(found) + 1] = r
        /\ \A k \in 1 .. Len(found) : new[k] = found[k]
    <3> HIDE DEF r
    <3>1. r \in GeoRanges /\ found \in Seq(GeoRanges) /\ new = Append(found, r)
      BY <1>1, <1>2, <2>1
    <3>2. QED
      BY ONLY <3>1, Appended
  <2>3. ASSUME NEW k \in DOMAIN new
        PROVE  \E m \in 1 .. i + 1 : m \in places /\ new[k] = s[m]
    <3>1. CASE k = Len(found) + 1
      BY <1>1, <1>4, <2>2, <3>1
    <3>2. CASE k # Len(found) + 1
      <4>1. k \in DOMAIN found /\ new[k] = found[k]
        BY <1>2, <2>2, <3>2
      <4>2. PICK m \in 1 .. i : m \in places /\ found[k] = s[m]
        BY <4>1 DEF PicksOf
      <4>3. m \in 1 .. i + 1
        BY <1>1
      <4>4. QED
        BY <4>1, <4>2, <4>3
    <3>3. QED
      BY <3>1, <3>2
  <2>4. ASSUME NEW m \in 1 .. i + 1, m \in places
        PROVE  \E k \in DOMAIN new : new[k] = s[m]
    <3>1. CASE m = i + 1
      BY <1>2, <2>2, <3>1
    <3>2. CASE m # i + 1
      <4>1. m \in 1 .. i
        BY <1>1, <3>2
      <4>2. PICK k \in DOMAIN found : found[k] = s[m]
        BY <2>4, <4>1 DEF PicksOf
      <4>3. k \in DOMAIN new /\ new[k] = found[k]
        BY <1>2, <2>2
      <4>4. QED
        BY <4>2, <4>3
    <3>3. QED
      BY <3>1, <3>2
  <2>5. ASSUME NEW k \in DOMAIN new, NEW l \in DOMAIN new, k < l
        PROVE  new[k].start < new[l].start
    <3>1. k \in DOMAIN found /\ new[k] = found[k]
      BY <1>2, <2>2, <2>5
    <3>2. CASE l = Len(found) + 1
      <4>1. PICK m \in 1 .. i : found[k] = s[m]
        BY <3>1 DEF PicksOf
      <4>2. m \in 1 .. Len(s) /\ m < i + 1
        BY <1>1
      <4>3. s[m].start <= s[m].end /\ s[m].end < r.start
        BY <1>1, <4>2 DEF InOrder
      <4>4. s[m].start < r.start
        BY <1>1, <4>2, <4>3
      <4>5. QED
        BY <2>2, <3>1, <3>2, <4>1, <4>4
    <3>3. CASE l # Len(found) + 1
      <4>1. l \in DOMAIN found /\ new[l] = found[l]
        BY <1>2, <2>2, <3>3
      <4>2. QED
        BY <2>5, <3>1, <4>1 DEF PicksOf
    <3>4. QED
      BY <3>2, <3>3
  <2>6. PicksOf(s, places, i + 1, new)
    BY <2>2, <2>3, <2>4, <2>5 DEF PicksOf
  <2>7. QED
    BY <2>1, <2>6
<1>5. QED
  BY <1>3, <1>4

\* Picked: the ranges at those places.
LEMMA PickedKnown ==
    ASSUME NEW s \in Seq(GeoRanges), InOrder(s), NEW places
    PROVE  PicksOf(s, places, Len(s), Picked(s, places))
<1> DEFINE n == Len(s)
           picked == PickedOf(s, places)
           T == {i \in Nat : i <= n => PicksOf(s, places, i, picked[i])}
<1>1. n \in Nat
  OBVIOUS
<1>2. picked[0] = <<>> /\ \A i \in 1 .. n : picked[i] = OneMore(picked[i - 1], places, i, s[i])
  BY PickedIs
<1> HIDE DEF picked
<1>3. 0 \in T
  <2>1. PicksOf(s, places, 0, <<>>)
    BY DEF PicksOf
  <2>2. PicksOf(s, places, 0, picked[0])
    BY <1>2, <2>1, Zenon
  <2>3. QED
    BY <2>2
<1>4. ASSUME NEW i \in Nat, i \in T
      PROVE  i + 1 \in T
  <2> SUFFICES ASSUME i + 1 <= n
               PROVE  PicksOf(s, places, i + 1, picked[i + 1])
    OBVIOUS
  <2>1. i + 1 \in 1 .. n /\ (i + 1) - 1 = i /\ i \in 0 .. n - 1
    BY <1>1
  <2>2. PicksOf(s, places, i, picked[i]) /\ picked[i + 1] = OneMore(picked[i], places, i + 1, s[i + 1])
    BY <1>1, <1>2, <1>4, <2>1
  <2>3. QED
    BY <2>1, <2>2, PicksOneMore
<1>5. Nat \subseteq T
  <2> HIDE DEF T
  <2> QED
    BY <1>3, <1>4, NatInd
<1>6. PicksOf(s, places, n, picked[n])
  BY <1>1, <1>5
<1>7. QED
  BY <1>6 DEF Picked, picked

\* Page: a page is cut exactly when a range that is picked is not on it.
LEMMA CutSaid ==
    ASSUME NEW s \in Seq(GeoRanges), InOrder(s), NEW places \in SUBSET DOMAIN s, NEW limit \in Nat, NEW total
    PROVE  LET page == Page(Picked(s, places), limit, total)
           IN  page.truncated <=> \E m \in places : s[m] \notin Range(page.items)
<1>1. PICK found \in Seq(GeoRanges) : found = Picked(s, places) /\ PicksOf(s, places, Len(s), found)
  <2>1. PicksOf(s, places, Len(s), Picked(s, places))
    BY PickedKnown
  <2>2. QED
    BY <2>1 DEF PicksOf
<1>2. /\ Len(found) \in Nat /\ DOMAIN found = 1 .. Len(found)
      /\ \A k \in DOMAIN found : found[k] \in GeoRanges /\ found[k].start \in Nat
  BY RangeTyped
<1>3. Len(s) \in Nat /\ DOMAIN s = 1 .. Len(s)
  OBVIOUS
<1>4. PICK n \in Nat : n = Len(found) /\ DOMAIN found = 1 .. n
  BY <1>2
<1>5. PICK cut \in Nat :
          /\ cut = IF Len(found) < limit THEN Len(found) ELSE limit
          /\ cut <= n /\ cut <= limit
          /\ n > limit => cut < n
          /\ n <= limit => cut = n
  <2>1. CASE n < limit
    BY <1>4, <2>1
  <2>2. CASE ~(n < limit)
    BY <1>4, <2>2
  <2>3. QED
    BY <2>1, <2>2
<1> DEFINE page == Page(found, limit, total)
           items == SubSeq(found, 1, cut)
<1>6. page.items = items /\ (page.truncated <=> n > limit)
  BY <1>4, <1>5 DEF Page
<1>7. Range(items) = {found[k] : k \in 1 .. cut}
  <2>1. DOMAIN items = 1 .. cut /\ \A k \in 1 .. cut : items[k] = found[k]
    BY <1>4, <1>5
  <2> HIDE DEF items
  <2>2. QED
    BY <2>1 DEF Range
<1> HIDE DEF page, items
<1>8. ASSUME n > limit
      PROVE  \E m \in places : s[m] \notin Range(items)
  <2>1. cut + 1 \in 1 .. n /\ cut + 1 \in DOMAIN found
    <3>1. cut < n
      BY <1>5, <1>8
    <3>2. cut + 1 \in 1 .. n
      BY <3>1
    <3>3. QED
      BY <1>4, <3>2
  <2>2. PICK m \in places : found[cut + 1] = s[m]
    BY <1>1, <2>1 DEF PicksOf
  <2>3. ASSUME NEW k \in 1 .. cut
        PROVE  found[k] # found[cut + 1]
    <3>1. k \in 1 .. n /\ k < cut + 1
      BY <2>1
    <3>2. k \in DOMAIN found
      BY <1>4, <3>1
    <3>3. found[k].start < found[cut + 1].start
      BY <1>1, <2>1, <3>1, <3>2 DEF PicksOf
    <3>4. found[cut + 1].start \in Nat
      BY <1>2, <2>1
    <3>5. QED
      BY <3>3, <3>4
  <2>4. s[m] \notin Range(items)
    BY <1>7, <2>2, <2>3
  <2>5. QED
    BY <2>4
<1>9. ASSUME NEW m \in places, s[m] \notin Range(items)
      PROVE  n > limit
  <2>1. m \in 1 .. Len(s)
    BY <1>3
  <2>2. PICK k \in DOMAIN found : found[k] = s[m]
    BY <1>1, <2>1 DEF PicksOf
  <2>3. k \notin 1 .. cut
    BY <1>7, <1>9, <2>2
  <2>4. k \in 1 .. n
    BY <1>4, <2>2
  <2>5. cut # n
    BY <2>3, <2>4
  <2>6. ~(n <= limit)
    BY <1>5, <2>5
  <2>7. QED
    BY <2>6
<1>10. QED
  BY <1>1, <1>6, <1>8, <1>9 DEF page

\* Queries the table and the index answer alike.
LEMMA AskedAlike ==
    ASSUME NEW q, \/ q = [kind |-> "blank"]
                  \/ \E name : q = [kind |-> "name", name |-> name]
                  \/ \E ip : q = Single(ip),
           NEW g
    PROVE  rangeMatchesQuery(g, q) <=> queryFinds(g, q)
<1>1. CASE q = [kind |-> "blank"]
  BY <1>1 DEF rangeMatchesQuery, queryFinds
<1>2. ASSUME NEW name, q = [kind |-> "name", name |-> name]
      PROVE  rangeMatchesQuery(g, q) <=> queryFinds(g, q)
  BY <1>2 DEF rangeMatchesQuery, queryFinds
<1>3. ASSUME NEW ip, q = Single(ip)
      PROVE  rangeMatchesQuery(g, q) <=> queryFinds(g, q)
  BY <1>3 DEF rangeMatchesQuery, queryFinds, Single
<1>4. QED
  BY <1>1, <1>2, <1>3

\* CollectRanges and ListGeoRangesPage: the same page.
LEMMA SamePage ==
    ASSUME NEW s \in Seq(GeoRanges), NEW snap, Mirrors(snap, s), NEW limit, NEW q,
           \A g : rangeMatchesQuery(g, q) <=> queryFinds(g, q)
    PROVE  ListRanges(snap, s, limit, q) = ListGeoRangesPage(s, limit, q)
<1>1. CASE snap.rows = <<>>
  BY <1>1 DEF ListRanges
<1>2. CASE snap.rows # <<>>
  <2> DEFINE all == [i \in DOMAIN snap.rows |-> toGeoRange(snap, snap.rows[i])]
  <2>1. Len(s) \in Nat /\ DOMAIN s = 1 .. Len(s) /\ s = [i \in 1 .. Len(s) |-> s[i]]
    OBVIOUS
  <2>2. DOMAIN snap.rows = 1 .. Len(s)
    <3>1. snap.rows \in Seq([start : Nat, end : Nat, country : Nat, city : Nat])
      BY DEF Mirrors, Snapshots
    <3>2. QED
      BY <3>1 DEF Mirrors
  <2>3. ASSUME NEW k \in 1 .. Len(s)
        PROVE  toGeoRange(snap, snap.rows[k]) = s[k]
    <3>1. s[k] \in GeoRanges
      OBVIOUS
    <3>2. SaysOf(snap, snap.rows[k], s[k])
      BY DEF Mirrors
    <3>3. s[k] = [start |-> s[k].start, end |-> s[k].end, country |-> s[k].country, city |-> s[k].city]
      BY <3>1 DEF GeoRanges
    <3>4. QED
      BY <3>2, <3>3 DEF SaysOf, toGeoRange
  <2>4. all = s
    BY <2>1, <2>2, <2>3
  <2>5. ListRanges(snap, s, limit, q)
          = Page(Picked(all, {i \in DOMAIN all : rangeMatchesQuery(all[i], q)}), limit, Len(all))
    BY <1>2 DEF ListRanges, CollectRanges
  <2> HIDE DEF all
  <2>6. {i \in DOMAIN s : rangeMatchesQuery(s[i], q)} = {i \in DOMAIN s : queryFinds(s[i], q)}
    OBVIOUS
  <2>7. QED
    BY <2>4, <2>5, <2>6, Zenon DEF ListGeoRangesPage
<1>3. QED
  BY <1>1, <1>2

\* Whatever ranges a table in order holds: the page of the index is the page of the
\* table, for a blank query, a name and an address, and says that it is cut exactly
\* when a range that answers is not on it (CollectRanges, ListGeoRangesPage).
THEOREM PagesAlike ==
    ASSUME NEW ranges \in Seq(GeoRanges)
    PROVE  PagesExact(ranges)
<1>1. Len(ranges) \in Nat /\ ranges \in [1 .. Len(ranges) -> GeoRanges] /\ IsFiniteSet(1 .. Len(ranges))
  BY FS_Interval
<1> SUFFICES ASSUME NEW sorted \in Sorted(ranges), NEW limit \in 1 .. 2,
                    CheckNonOverlapping(sorted), Len(buildGeoSnapshot(sorted).rows) = Len(sorted),
                    NEW q \in {[kind |-> "blank"]} \cup {[kind |-> "name", name |-> r.city] : r \in Range(ranges)}
                              \cup {Single(ip) : ip \in Addr}
             PROVE  LET page == ListRanges(buildGeoSnapshot(sorted), sorted, limit, q)
                    IN  /\ page = ListRanges(EmptySnapshot, sorted, limit, q)
                        /\ page.truncated <=> \E r \in Range(sorted) : rangeMatchesQuery(r, q) /\ r \notin Range(page.items)
  BY Zenon DEF PagesExact
<1>2. sorted \in Seq(GeoRanges) /\ \A i, j \in DOMAIN sorted : i < j => sorted[i].start <= sorted[j].start
  BY <1>1, SortedIs
<1>3. InOrder(sorted) /\ Mirrors(buildGeoSnapshot(sorted), sorted)
  <2>1. PICK kept \in Seq(GeoRanges) :
            /\ InOrder(kept) /\ Mirrors(buildGeoSnapshot(sorted), kept)
            /\ Len(kept) = Len(sorted) => kept = sorted
    BY <1>2, NormalizedIs
  <2>2. Len(buildGeoSnapshot(sorted).rows) = Len(kept)
    BY <2>1 DEF Mirrors
  <2>3. QED
    BY <2>1, <2>2
<1>4. \A g : rangeMatchesQuery(g, q) <=> queryFinds(g, q)
  <2>1. \/ q = [kind |-> "blank"]
        \/ \E name : q = [kind |-> "name", name |-> name]
        \/ \E ip : q = Single(ip)
    OBVIOUS
  <2>2. QED
    BY <2>1, AskedAlike
<1>5. ListRanges(buildGeoSnapshot(sorted), sorted, limit, q) = ListGeoRangesPage(sorted, limit, q)
  BY <1>2, <1>3, <1>4, SamePage
<1>6. ListRanges(EmptySnapshot, sorted, limit, q) = ListGeoRangesPage(sorted, limit, q)
  BY DEF ListRanges, EmptySnapshot
<1> DEFINE places == {i \in DOMAIN sorted : queryFinds(sorted[i], q)}
           page == ListGeoRangesPage(sorted, limit, q)
<1>7. page = Page(Picked(sorted, places), limit, Len(sorted))
  BY DEF ListGeoRangesPage
<1>8. limit \in Nat /\ places \in SUBSET DOMAIN sorted
  OBVIOUS
<1>9. \A i \in DOMAIN sorted : i \in places <=> rangeMatchesQuery(sorted[i], q)
  BY <1>4
<1> HIDE DEF places, page
<1>10. page.truncated <=> \E m \in places : sorted[m] \notin Range(page.items)
  BY <1>2, <1>3, <1>7, <1>8, CutSaid, Zenon
<1>11. (\E m \in places : sorted[m] \notin Range(page.items))
         <=> \E r \in Range(sorted) : rangeMatchesQuery(r, q) /\ r \notin Range(page.items)
  BY <1>8, <1>9 DEF Range
<1>12. QED
  BY <1>5, <1>6, <1>10, <1>11 DEF page

-----------------------------------------------------------------------------
(* Ranges: requests *)

\* What requests about ranges may bring.
LEMMA RequestsBring ==
    /\ \A table \in GeoTables : table \in Seq(GeoRanges)
    /\ \A rows \in GeoFiles : rows \in Seq(FileRows)
    /\ \A at \in EditPlaces : at.country \in Words /\ at.city \in Words
BY RequestsAssumption DEF Words

\* Whatever the table and the files hold and whatever edits say: every table that is
\* indexed, paged and exported, every file that is read and every edit that is
\* accepted mean what they say (Table.Rebuild, ReadCSVSnapshot, AppendRange,
\* UpdateRange).
THEOREM RangesAnswered == RequestSpec => []RangesExact
<1>1. RequestInit => RangesExact
  BY DEF RequestInit, RangesExact, Idle
<1>2. RangesExact /\ [RequestNext]_<<req, ans>> => RangesExact'
  <2> SUFFICES ASSUME RangesExact, [RequestNext]_<<req, ans>> PROVE RangesExact'
    OBVIOUS
  <2>1. CASE AskTable
    <3>1. PICK table \in GeoTables : req' = [topic |-> "table", ranges |-> table]
      BY <2>1 DEF AskTable
    <3>2. table \in Seq(GeoRanges)
      BY RequestsBring
    <3>3. IndexExact(table) /\ PagesExact(table) /\ ExportReadBack(table)
      BY <3>2, IndexAnswers, PagesAlike, ExportsReadBack
    <3>4. req'.topic = "table" /\ req'.ranges = table
      BY <3>1
    <3>5. QED
      BY <3>3, <3>4 DEF RangesExact
  <2>2. CASE AskFile
    <3>1. PICK rows \in GeoFiles : req' = [topic |-> "file", rows |-> rows] /\ ans' \in ReadCSVSnapshot(rows)
      BY <2>2 DEF AskFile
    <3>2. rows \in Seq(FileRows)
      BY RequestsBring
    <3>3. FileExact(rows, ans')
      BY <3>1, <3>2, FilesReadAsWritten
    <3>4. req'.topic = "file" /\ req'.rows = rows
      BY <3>1
    <3>5. QED
      BY <3>3, <3>4 DEF RangesExact
  <2>3. CASE AskAppend
    <3>1. PICK existing \in GeoTables, text \in Texts, at \in EditPlaces :
             /\ InOrder(existing)
             /\ req' = [topic |-> "append", existing |-> existing, added |-> AddedBy(text, at.country, at.city)]
             /\ ans' \in AppendRange(existing, text, at.country, at.city)
      BY <2>3 DEF AskAppend
    <3>2. existing \in Seq(GeoRanges) /\ at.country \in Words /\ at.city \in Words
      BY RequestsBring
    <3>3. EditExact(existing, ans', AddedBy(text, at.country, at.city), {})
      BY <3>1, <3>2, AppendedAsAsked
    <3>4. /\ req'.topic = "append" /\ req'.existing = existing
          /\ req'.added = AddedBy(text, at.country, at.city)
      BY <3>1
    <3>5. QED
      BY <3>3, <3>4 DEF RangesExact
  <2>4. CASE AskUpdate
    <3>1. PICK existing \in GeoTables, original \in Texts, text \in Texts, at \in EditPlaces :
             /\ InOrder(existing)
             /\ req' = [topic |-> "update", existing |-> existing, added |-> AddedBy(text, at.country, at.city),
                        removed |-> ReplacedBy(existing, original)]
             /\ ans' \in UpdateRange(existing, original, text, at.country, at.city)
      BY <2>4 DEF AskUpdate
    <3>2. existing \in Seq(GeoRanges) /\ at.country \in Words /\ at.city \in Words
      BY RequestsBring
    <3>3. /\ EditExact(existing, ans', AddedBy(text, at.country, at.city), ReplacedBy(existing, original))
          /\ ans'.ok => ReplacedBy(existing, original) # {}
      BY <3>1, <3>2, UpdatedAsAsked
    <3>4. /\ req'.topic = "update" /\ req'.existing = existing
          /\ req'.added = AddedBy(text, at.country, at.city) /\ req'.removed = ReplacedBy(existing, original)
      BY <3>1
    <3>5. QED
      BY <3>3, <3>4 DEF RangesExact
  <2>5. CASE AskWindow
    <3>1. req'.topic = "window"
      BY <2>5 DEF AskWindow
    <3>2. QED
      BY <3>1 DEF RangesExact
  <2>6. CASE AskMap
    <3>1. CASE AskBuild
      <4>1. req'.topic = "build"
        BY <3>1 DEF AskBuild
      <4>2. QED
        BY <4>1 DEF RangesExact
    <3>2. CASE AskGrouped
      <4>1. req'.topic = "grouped"
        BY <3>2 DEF AskGrouped
      <4>2. QED
        BY <4>1 DEF RangesExact
    <3>3. CASE AskMissing
      <4>1. \E table, cut : req' = [topic |-> "missing", rows |-> table, cut |-> cut]
        BY <3>3, Zenon DEF AskMissing
      <4>2. req'.topic = "missing"
        BY <4>1
      <4>3. QED
        BY <4>2 DEF RangesExact
    <3>4. CASE AskNodes
      <4>1. req'.topic = "nodes"
        BY <3>4 DEF AskNodes
      <4>2. QED
        BY <4>1 DEF RangesExact
    <3>5. QED
      BY <2>6, <3>1, <3>2, <3>3, <3>4 DEF AskMap
  <2>7. CASE UNCHANGED <<req, ans>>
    BY <2>7 DEF RangesExact
  <2>8. QED
    BY <2>1, <2>2, <2>3, <2>4, <2>5, <2>6, <2>7 DEF RequestNext, AskRanges
<1>3. QED
  BY <1>1, <1>2, PTL DEF RequestSpec
=============================================================================
