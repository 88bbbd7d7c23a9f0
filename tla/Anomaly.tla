------------------------------ MODULE Anomaly ------------------------------
(***************************************************************************)
(* The anomaly scan and the operations on its alerts (anomalyjob,          *)
(* usecase/anomaly/service.go, anomalystore/events.go).  The job runs the  *)
(* eight detectors one after another while log rows keep arriving, drops   *)
(* what was already reported or is suppressed, and inserts the rest; users *)
(* acknowledge and assign alerts meanwhile.  Every query may fail, and the *)
(* deadline of the scan may pass at any point of it.                       *)
(***************************************************************************)
EXTENDS AnomalyDetect, HeavySlot, Sequences, TLC

CONSTANTS
    AnomTask,           \* the job among the tasks of the heavy slot
    LogRows,            \* the rows that may arrive, without id and time
    StartLogs,          \* the histories the log table may start with
    EnterpriseNets,     \* [lo, hi, name], from ListEnterpriseNets
    IncludePrivate,     \* cfg.IncludePrivate
    SuppressFor,        \* cfg.suppressPeriod()
    MaxPerCode,         \* maxPerCode
    MaxInsertPerTick,   \* maxInsertPerTick
    AnomUsers,
    StartClock, MaxClock, MaxRows, MaxScans     \* bounds

ASSUME AnomAssumption ==
    /\ AnomTask \in Tasks
    /\ Win.blockedCooldown \in Nat /\ Win.countryCooldown \in Nat
    /\ SuppressFor \in Nat /\ StartClock \in Nat

VARIABLES
    clock,
    logs,               \* traffic_logs
    alerts,             \* anomaly_events
    acks,               \* anomaly_acks
    suppressions,       \* anomaly_suppressions
    assignments,        \* the assignee of each alert, by argMax
    scan,               \* the scan in progress
    scans,              \* scans begun
    acking              \* the acknowledgement in progress

alertVars == <<alerts, acks, suppressions, assignments>>
anomVars == <<clock, logs, alertVars, scan, scans, acking>>

NoScan == [at |-> "idle"]
NoAck == [at |-> "none"]

AnomInit ==
    /\ clock = StartClock
    /\ logs \in StartLogs
    /\ alerts = {} /\ acks = {} /\ suppressions = {}
    /\ assignments = << >>
    /\ scan = NoScan /\ scans = 0
    /\ acking = NoAck

-----------------------------------------------------------------------------
(* The world: time passes and rows arrive *)

ClockTick ==
    /\ clock < MaxClock
    /\ clock' = clock + 1
    /\ UNCHANGED <<logs, alertVars, scan, scans, acking, vars>>

LogArrives(row) ==
    /\ Cardinality(logs) < MaxRows
    /\ logs' = logs \cup {[id |-> Cardinality(logs) + 1, at |-> clock] @@ row}
    /\ UNCHANGED <<clock, alertVars, scan, scans, acking, vars>>

-----------------------------------------------------------------------------
(* The job *)

ScanGoes(place) == scan' = [scan EXCEPT !.at = place]

\* tick: a scan only starts with the heavy slot, otherwise it is dropped.
Tick ==
    /\ scan.at = "idle"
    /\ TryAcquire(AnomTask)
    /\ scan' = [at |-> "gate"]
    /\ scans < MaxScans /\ scans' = scans + 1
    /\ UNCHANGED <<clock, logs, alertVars, acking>>

TickDropped ==
    /\ scan.at = "idle"
    /\ TryAcquireFails(AnomTask)
    /\ UNCHANGED anomVars

InScan(place) == scan.at = place /\ pc[AnomTask] = "held"
ScanOnly == UNCHANGED <<clock, logs, alertVars, scans, acking, vars>>

\* Scan gives up: disabled, the ingest circuit is open, the edges are being
\* rebuilt, or the enterprise networks could not be read.
ScanSkips ==
    /\ InScan("gate")
    /\ ScanGoes("done")
    /\ ScanOnly

\* isLearning: no log yet, or the oldest one is younger than the period.
isLearning(now) ==
    \/ logs = {}
    \/ now - Min(Values(logs, "at")) < Win.learning

\* An unreadable oldest log time counts as learning.
ScanBegins(learning) ==
    /\ InScan("gate")
    /\ EnterpriseNets # {}
    /\ learning \/ ~isLearning(clock)
    /\ scan' = [at |-> "detect", now |-> clock, learning |-> learning,
                todo |-> 1, cands |-> {}, exist |-> {}, muted |-> {},
                blind |-> FALSE, expired |-> FALSE, failed |-> FALSE]
    /\ ScanOnly

\* RecentSuppressionKeys, from the alerts themselves.
RecentSuppressionKeys(code, since) ==
    {a.key : a \in {b \in alerts : b.fp.code = code /\ b.at >= since}}

\* One detector on the logs as they are now; hourly and hoursOK say which of
\* its queries succeeded.
Hits(code, now, hourly, hoursOK) ==
    CASE code = "blocked_surge" ->
            detectBlockedSurge(logs, now, EnterpriseNets,
                RecentSuppressionKeys(code, now - Win.blockedCooldown))
      [] code = "new_country_dst" ->
            IF scan.learning THEN {}
            ELSE detectNewCountry(logs, now, EnterpriseNets,
                    RecentSuppressionKeys(code, now - Win.countryCooldown))
      [] code = "port_scan" ->
            detectPortScan(logs, now, IncludePrivate, EnterpriseNets)
      [] code = "horizontal_scan" ->
            detectHorizontalScan(logs, now, IncludePrivate, EnterpriseNets)
      [] code = "rep_new_dst" ->
            detectRepNewDst(logs, now, hourly, EnterpriseNets)
      [] code = "byte_surge" ->
            detectByteSurge(logs, now, hourly, EnterpriseNets)
      [] code = "lateral_fanout" -> detectLateralFanout(logs, now, EnterpriseNets)
      [] code = "beaconing" ->
            IF scan.learning THEN {}
            ELSE detectBeaconing(logs, now, hourly, hoursOK, EnterpriseNets)

\* After the last detector; without candidates there is nothing to look up.
AfterDetector(cands) ==
    IF scan.todo < Len(Codes) THEN "detect"
    ELSE IF cands = {} THEN "done" ELSE "existing"

Detect(hourly, hoursOK) ==
    /\ InScan("detect")
    /\ ~scan.expired
    /\ LET cands == scan.cands \cup Hits(Codes[scan.todo], scan.now,
                                         hourly, hoursOK)
       IN  scan' = [scan EXCEPT !.todo = @ + 1, !.cands = cands,
                       !.at = AfterDetector(cands)]
    /\ ScanOnly

\* A detector that fails, or comes after the deadline, contributes nothing.
DetectFails ==
    /\ InScan("detect")
    /\ scan' = [scan EXCEPT !.todo = @ + 1, !.at = AfterDetector(scan.cands),
                   !.failed = @ \/ Codes[scan.todo] = "rep_new_dst"]
    /\ ScanOnly

ScanExpires ==
    /\ scan.at \in {"detect", "existing", "suppressed"}
    /\ ~scan.expired
    /\ scan' = [scan EXCEPT !.expired = TRUE]
    /\ ScanOnly

-----------------------------------------------------------------------------
(* dedupAndCap *)

\* Mutant: an acknowledged alert no longer counts as existing.
LookupExistingOpen(ok) ==
    /\ InScan("existing")
    /\ scan.expired => ~ok
    /\ scan' = [scan EXCEPT !.at = "suppressed",
                    !.exist = IF ok THEN {a.fp : a \in alerts} \ acks ELSE {},
                    !.blind = @ \/ ~ok]
    /\ ScanOnly

\* ExistingFingerprints; a failed lookup counts as "none exists".
LookupExisting(ok) ==
    /\ InScan("existing")
    /\ scan.expired => ~ok
    /\ scan' = [scan EXCEPT !.at = "suppressed",
                    !.exist = IF ok THEN {a.fp : a \in alerts} ELSE {},
                    !.blind = @ \/ ~ok]
    /\ ScanOnly

\* Mutant: every suppression row counts from its start, none by its end.
LookupSuppressedStarted(ok) ==
    /\ InScan("suppressed")
    /\ scan.expired => ~ok
    /\ scan' = [scan EXCEPT !.at = "insert",
                    !.muted = IF ok THEN {s.key : s \in {x \in suppressions :
                                                x.until - SuppressFor > scan.now}}
                              ELSE {},
                    !.blind = @ \/ ~ok]
    /\ ScanOnly

\* ActiveSuppressions; a failed lookup counts as "nothing is suppressed".
LookupSuppressed(ok) ==
    /\ InScan("suppressed")
    /\ scan.expired => ~ok
    /\ scan' = [scan EXCEPT !.at = "insert",
                    !.muted = IF ok THEN {s.key : s \in {x \in suppressions :
                                                x.until > scan.now}}
                              ELSE {},
                    !.blind = @ \/ ~ok]
    /\ ScanOnly

Fresh == {c \in scan.cands : c.fp \notin scan.exist /\ c.key \notin scan.muted}

\* The candidates come detector by detector and are taken until a cap is met.
IsKept(K, F) ==
    LET Of(S, i) == {c \in S : c.fp.code = Codes[i]}
        Before(i) == UNION {Of(K, j) : j \in 1 .. i - 1}
    IN  /\ K \subseteq F
        /\ \A i \in 1 .. Len(Codes) :
              Cardinality(Of(K, i)) =
                  Min({MaxPerCode, Cardinality(Of(F, i)),
                       MaxInsertPerTick - Cardinality(Before(i))})

\* EpisodeID: alerts of one address and one hour belong together.
EpisodeID(fp, now) ==
    LET anchor == IF fp.src # None THEN fp.src ELSE fp.dst
    IN  IF anchor = None THEN fp
        ELSE fingerprintAt("episode", anchor, None, None, StartOfHour(now))

\* Insert of a batch; batch numbers keep equal rows apart.
InsertAlerts(K, blind) ==
    alerts' = alerts \cup
        {[fp |-> c.fp, key |-> c.key, at |-> c.at, blind |-> blind,
          episode |-> EpisodeID(c.fp, c.at),
          batch |-> 1 + Cardinality({a.batch : a \in alerts})] : c \in K}

ScanInserts ==
    /\ InScan("insert")
    /\ ~scan.expired
    /\ \E K \in SUBSET Fresh : IsKept(K, Fresh) /\ InsertAlerts(K, scan.blind)
    /\ ScanGoes("done")
    /\ UNCHANGED <<clock, logs, acks, suppressions, assignments, scans, acking, vars>>

ScanInsertFails ==
    /\ InScan("insert")
    /\ scan' = [scan EXCEPT !.at = "done", !.failed = TRUE]
    /\ ScanOnly

\* The deferred Release of tick.
ScanEnds ==
    /\ scan.at = "done"
    /\ Release(AnomTask)
    /\ scan' = NoScan
    /\ UNCHANGED <<clock, logs, alertVars, scans, acking>>

ScanStep ==
    \/ Tick \/ TickDropped \/ ScanSkips
    \/ \E learning \in BOOLEAN : ScanBegins(learning)
    \/ \E hourly, hoursOK \in BOOLEAN : Detect(hourly, hoursOK)
    \/ DetectFails \/ ScanExpires
    \/ \E ok \in BOOLEAN : LookupExisting(ok) \/ LookupSuppressed(ok)
    \/ ScanInserts \/ ScanInsertFails \/ ScanEnds

-----------------------------------------------------------------------------
(* Alerts from elsewhere, acknowledgement and assignment *)

\* InsertSynthetic: no look at what exists, no cap.
InsertSynthetic(fp, now) ==
    InsertAlerts({[fp |-> fp, key |-> NoKey, at |-> now]}, FALSE)

\* Store.Ack first records the acknowledgement.
Ack(fp, user) ==
    /\ acking = NoAck
    /\ fp \in {a.fp : a \in alerts}
    /\ acks' = acks \cup {fp}
    /\ acking' = [at |-> "key", fp |-> fp, by |-> user, now |-> clock,
                  seen |-> None]
    /\ UNCHANGED <<clock, logs, alerts, suppressions, assignments, scan, scans, vars>>

AckOnly == UNCHANGED <<clock, logs, alerts, acks, assignments, scan, scans, vars>>

\* Then it reads the alert's key and inserts the suppression; an alert
\* without a key is only acknowledged.
AckSuppresses ==
    /\ acking.at = "key"
    /\ LET key == suppressionKeyForEvent(acking.fp)
       IN  suppressions' =
               IF key = NoKey THEN suppressions
               ELSE suppressions \cup
                       {[key |-> key, until |-> acking.now + SuppressFor,
                         written |-> clock]}
    /\ acking' = [acking EXCEPT !.at = "assignee"]
    /\ AckOnly

\* Either statement fails: the alert stays acknowledged and unsuppressed.
AckFails ==
    /\ acking.at = "key"
    /\ acking' = NoAck
    /\ AckOnly /\ UNCHANGED suppressions

Assignee(fp) == IF fp \in DOMAIN assignments THEN assignments[fp] ELSE None

\* AssignIfEmpty reads the assignee and, if there is none, inserts one; a
\* failed read counts as "none".
AssignIfEmptyReads(ok) ==
    /\ acking.at = "assignee"
    /\ acking' = [acking EXCEPT !.at = "assign",
                      !.seen = IF ok THEN Assignee(acking.fp) ELSE None]
    /\ AckOnly /\ UNCHANGED suppressions

AssignIfEmptyWrites ==
    /\ acking.at = "assign"
    /\ acking' = NoAck
    /\ assignments' = IF acking.seen # None THEN assignments
                      ELSE (acking.fp :> acking.by) @@ assignments
    /\ UNCHANGED <<clock, logs, alerts, acks, suppressions, scan, scans, vars>>

Assign(fp, user) ==
    /\ fp \in {a.fp : a \in alerts}
    /\ assignments' = (fp :> user) @@ assignments
    /\ UNCHANGED <<clock, logs, alerts, acks, suppressions, scan, scans, acking, vars>>

AckStep ==
    \/ \E a \in alerts, u \in AnomUsers : Ack(a.fp, u)
    \/ AckSuppresses \/ AckFails

AssignStep ==
    \/ \E a \in alerts, u \in AnomUsers : Assign(a.fp, u)
    \/ \E ok \in BOOLEAN : AssignIfEmptyReads(ok)
    \/ AssignIfEmptyWrites

AnomStep ==
    \/ ScanStep \/ AckStep \/ AssignStep
    \/ ClockTick \/ \E row \in LogRows : LogArrives(row)

-----------------------------------------------------------------------------
(* Properties *)

\* Acknowledging an alert silences its subject: a scan that began after the
\* suppression was written and before it ends adds no alert with its key,
\* unless one of the scan's own lookups failed.
AckSilences ==
    \A a \in alerts, s \in suppressions :
        (a.key = s.key /\ s.written < a.at /\ a.at < s.until) => a.blind

\* The same fact is not reported twice in its hour (its day for beaconing),
\* unless the lookup of what exists failed; a network's surge and a new country
\* are repeated only after their cooldown, across hours and days and even when
\* the lookups of the scan fail.
OneAlertPerFact ==
    \A a, b \in alerts : a.batch < b.batch =>
        /\ a.fp = b.fp /\ a.key # NoKey => b.blind
        /\ a.key = b.key /\ a.fp.code = "blocked_surge" => b.at - a.at > Win.blockedCooldown
        /\ a.key = b.key /\ a.fp.code = "new_country_dst" => b.at - a.at > Win.countryCooldown
=============================================================================
