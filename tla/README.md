# GeoAtlas in TLA+

A verification development of the GeoAtlas backend: TLA+ modules translated from the
Go source, TLC runs on small instances, and TLAPS proofs for every value of the
constants. Paths below are relative to `src/backend/internal/` unless they start with
`src/` or `cmd/` (`src/backend/cmd/geoatlas/`). `PROJECT.json` maps every definition to
the lines it models and lists components, hazards, runs, mutants and theorems.

## 1. The system

GeoAtlas takes firewall logs (syslog through syslog-ng, or uploads), enriches them with
GeoIP ranges, stores them in ClickHouse and shows them on a map. One Go process, the
backend, does all of it, with state in ClickHouse, in memory and in files of one data
directory.

| Part | State it keeps | Operations | Talks to |
|---|---|---|---|
| connections (`adapter/ingestnet/service.go`, `reader.go`) | listeners, connection semaphore, allowlist with its cache, a read buffer per connection | listen, accept, check the peer, read frames, shut down | queue |
| ingest queue (`adapter/ingestnet/feed.go`) | channel `lineCh`, atomic `queueBytes`, drop counter | `TryEnqueue`; receive and release by workers | readers, HTTP uploads, workers |
| insert circuit breaker (`usecase/ingest/circuit.go`) | two atomics `fails`, `openUntil` | `Check`, `NoteSuccess`, `NoteFailure` | shared by all workers |
| ingest pipeline (`adapter/ingestnet/service.go`, `usecase/ingest`) | per worker two buffers; shared counters; run and drain contexts | `worker`, `ProcessLine`, `Flush`, `insertWithRetry`, `drainWorker` | queue, breaker, ClickHouse |
| heavy-task slot (`adapter/heavytask`) | channel semaphore, flag `busy`, maintenance gate | `TryAcquire`, `Acquire`, `Release`, `Busy` | uploads, geo jobs, backups, anomaly, hunts, reputation; `Busy` slows ingest |
| table replacement (`adapter/clickhouse/chexchange`) | live and staging table, mutex | `ReplaceViaStaging`, `TruncateGeoRanges` | GeoIP and reputation ranges |
| GeoIP index (`geoip`, `adapter/clickhouse/geostore`, `usecase/geo`) | `geo_ranges`, index in memory, its stamp, snapshot file | upload, append, update, clear, `LoadDisk`, `Reload`, lookups, pages | table replacement, geo jobs, slot |
| geo job scheduler (`adapter/geojob`) | generation, newest job and its cancel function, `workMu`, wait group | `Schedule*`, `run`, `Shutdown` | slot, gate, index, ClickHouse |
| aggregates (`adapter/clickhouse/migrate`, `aggstate`, `usecase/bootstrap`) | aggregate tables and their views, schema versions, readiness flags | the start-up sequence, backfills | ingest, maintenance job, map queries |
| map (`usecase/events`, `mapagg`, `mapsearch`, `adapter/clickhouse/query`, `sqlclause`) | none | one request: period, cost, table, search, nodes, lines, points | aggregates, index, reputation |
| backups (`usecase/backup`, `adapter/backupfs`) | schedule file, `lastFireDate`, one job, volume, marker of the attached backup, shadow tables | ticker, create, attach, detach, delete, update of the schedule | slot, ClickHouse, volume |
| anomaly detection (`usecase/anomaly`, `anomalystore`) | alerts, suppressions, settings | scan, acknowledge, assign | slot, ClickHouse |
| hunts (`usecase/hunts`) | JSON store of hunts with their runs | edit, run by hand, run by schedule | slot, map, alerts |
| reputation lists (`usecase/reputation`, `reputation`, `adapter/reputationjob`) | feeds file, table, index in memory, entity tags | feed job, upload, deletion, prune | slot, table replacement, web |
| users and sessions (`auth`, `adapter/httpapi/auth.go`, `authmw`), API tokens | user, session and token stores with their files | login, logout, role changes, revocation, rotation | HTTP API |
| login throttle and trusted proxies (`adapter/httpapi/loginthrottle`) | windows and lockouts; snapshot of proxy addresses | `Allow`, `RecordFailure`, refresh | login, name service |
| settings (retention, login policy, anomaly, TLS, templates) | JSON files, table TTLs, fields in memory, certificate files | PUT requests, start-up | file stores, ClickHouse |
| file stores (`fileatomic`, `jsonfile`) | JSON files of the data directory | write through a temporary file, read | every store above |
| start-up and shutdown (`cmd/lifecycle.go`, `usecase/bootstrap`), periodic loop (`jobscheduler`) | lock of the data directory, contexts, tickers | order of starts and stops | all of the above |
| parsers, HTTP routing, metrics, configuration, collector, frontend | none, or reporting only | - | - |

What is hard about it: lock-free counters shared by callers and workers; a breaker that
several workers trip at once; a drain that races the shutdown signal; four copies of the
GeoIP ranges that are changed one after the other; jobs that supersede, cancel and wait
for each other; read-change-write without a lock over stores that a job and a user share;
requests that check a session in one critical section and act in another; several
statements or writes any of which may fail, or succeed while the reply is lost; restarts
between them; readiness that is inferred from what is on disk. `PROJECT.json` lists these
hazards at their lines.

What makes each part correct, in a sentence: a connection delivers the messages that were
sent and leaves nothing behind; the queue accounts for every byte and never blocks a reader;
the breaker opens for one cooldown at most; the pipeline loses nothing silently and stores
nothing twice; the slot counts its holders; a table is replaced in one atomic change; the
index is a content the table had and a reload repairs it; geo jobs run one at a time and in
order; backups keep the newest and the attached one, and each day is served; what was
revoked stays out and an administrator remains; what was reported as set is in effect; an
alert is raised once and an acknowledgement silences it; no job undoes a user's change; a
table that is marked ready is exact; a map answers its period, keeps the rows its search
means and draws all of them.

## 2. Modules

| Module | Models | Notes on the correspondence |
|---|---|---|
| `Framing` | `frameReader` | bytes are digits, space, carriage return, line feed and the constant `Letters`; one operator per function of the reader |
| `Connections` | `Service.Run`, accept loops, `handleConn` | one action per step between two points where another goroutine can run; extends `Framing` |
| `IngestQueue` | `TryEnqueue` and the worker's receive | one action per atomic load, compare-and-swap, channel operation; the counter of a call is kept with its line |
| `CircuitBreaker` | `Check`, `NoteSuccess`, `NoteFailure` | one action per atomic access; a clock of abstract units; `fails` saturates at the threshold, beyond which nothing reads its value |
| `Ingest` | workers, buffers, retries, ticker, drain | queue admission and breaker are atomic here; ClickHouse may fail any attempt; with `AckLoss` it may apply one and report an error |
| `Delivery` | the at-most-once contract of the documentation | abstract specification; `Ingest!ImplementsContract` |
| `TrustedProxies` | the address snapshot of the login limiter | reading, lookup and replacement of the snapshot are separate steps of two goroutines |
| `HeavySlot` | `limiter.go` | channel operation, length check and flag store are separate steps |
| `TableSwap` | `ReplaceViaStaging`, its fill functions, `TruncateGeoRanges` | one action per SQL statement, each may fail with or without effect; crash anywhere |
| `AtomicTable` | what the callers rely on | abstract specification; `TableSwap!ReplaceIsAtomic` |
| `GeoIndex` | geo service, reloadable index, snapshot file | uses the table as atomic, which `TableSwap` justifies; publication is index, stamp, file in three steps |
| `GeoJobs` | the geo job scheduler | slot, mutex, generation check, gate, deadline and cancellation are separate steps |
| `IPRanges` | networks, CSV files, normalisation, the compact index and its binary search, pages, edits, reputation ranges | operators on ranges over `2^Width` addresses with the wrap-around of the code; a loop over ranges is a recursive function of their number |
| `SnapshotFile` | the snapshot file of the index and its stamp | sums and xors number by number, strings by their bytes; extends `IPRanges` |
| `Backup` | service, ticker, job, retention, volume | one action per step of a job; a clock of days with one slot per day |
| `UserStore` | what the operations of users and sessions make of their maps | operators; saving and failing is in `Accounts` |
| `LoginThrottle` | the limiter | each operation is one step, as its mutex makes it |
| `Accounts` | handlers, middleware, user store and session registry | a request is a client with a program counter; each access to a store is a step; saves fail, the process restarts |
| `ApiTokens` | token store and bearer check | each operation is one step under the lock of the store |
| `Settings` | retention, login policy, anomaly settings, TLS, search templates | validate, save, then one step per part that is brought into line |
| `FileAtomic` | `fileatomic/write.go` | one action per system call, Unix and Windows; a crash undoes what was not synced |
| `AnomalyDetect` | queries of `anomalystore/traffic.go` and the eight detectors | operators on the log table, with the windows and comparisons of the SQL |
| `Anomaly` | the scan, acknowledgement, assignment | one action per detector and per lookup; extends `AnomalyDetect` and `HeavySlot` |
| `Hunts` | hunt store and runs | a run holds a copy from its read to its save; extends `Anomaly` |
| `Reputation` | feeds, feed job, table, index | read, change and write of table and index are separate steps; extends `HeavySlot` |
| `Aggregates` | `RunStartup`, the migrations of logs, edges, geo and hourly tables, backfills, readiness | one action per statement; two processes (start-up, maintenance) run a script; a row is its day and hour |
| `MapQuery` | periods, cost, limits, choice of the table | operators; time in ticks, a table is the bucket it keeps |
| `MapSearch` | tokens, grammar, SQL condition on three kinds of table | a text is a sequence of words, a condition the set of rows it keeps |
| `MapBuild` | nodes, lines, points, grouping in ClickHouse, enrichment, report of missing addresses, reputation filter | a position is a place, a mean of positions the set of its places |
| `Requests` | requests to the events service, and those about the GeoIP table: index and export it, read a file, add or replace a range | one action per kind of request; each behaviour is one request and its answer (`req`, `ans`); extends `MapQuery`, `MapBuild` and `IPRanges` |
| `Intake_proofs` | theorems about `IngestQueue`, `CircuitBreaker`, `Connections` | checked by TLAPS, as the next seven |
| `Ingest_proofs` | `Ingest` and its refinement of `Delivery` | |
| `Geo_proofs` | `TableSwap` and its refinement of `AtomicTable`, `GeoIndex`, `GeoJobs` | |
| `Jobs_proofs` | `HeavySlot`, `Reputation`, `Hunts`, `Anomaly` | |
| `Backup_proofs` | `Backup` | |
| `ControlPlane_proofs` | `ApiTokens`, `FileAtomic`, `Settings`, `Accounts` with `LoginThrottle` and `UserStore` | |
| `Reading_proofs` | `Aggregates`; requests about ranges and the operators of `IPRanges` | |
| `Map_proofs` | requests for periods and maps and the operators of `MapQuery` and `MapBuild` | |
| `MC*` | values of the constants for TLC, and compositions | no definition of a module is replaced |

The MC modules of `intake`, `geo`, `control_plane`, `jobs` and `reading` hold several
components whose state is disjoint. A variable (`focus`, `topic`) chosen in the initial
state says which of them moves, so that one run does not multiply their states. Components
that do share state are composed in the modules themselves: `Ingest` with its breaker and
queue, `Anomaly`, `Hunts` and `Reputation` with the slot, `Accounts` with the throttle and
the two stores, `Connections` with the reader, `Requests` with periods, maps and ranges, `Aggregates` with ingest and
maintenance.

Definitions whose comment begins with "Mutant" are plausible faults of the definition that
follows them. They are used by no specification; `PROJECT.json` names for each property the
fault that TLC finds when it is put in place of the code.

Abstractions worth knowing:

- A line is a name with a kind (what the worker makes of it) and a size. Parsing is data. The
  kinds are those of `ProcessLine`: a log, a parse error, a line the parser skips, one that
  `ResolveTransportAuth` rejects, and one that is blank behind its transport marker
  (`usecase/ingest/processor.go:74`). The last is received and released like any other but no
  counter of the code counts it; the history `blank` of `Ingest` does.
- The scan that groups the logs (`scanGeoFromLogs`) keeps the groups with most placed events,
  then with most events, up to its LIMIT (`adapter/clickhouse/query/geo_edges_scan.go:217`,
  `:242`), and equal groups in any order. The pre-aggregated tables, whose scans are ordered and
  cut in a like manner, are modelled by the choice of the table only.
- A job's context may end once (`FillCancelled`), like a failed statement: between two
  statements of a backfill or during one. That the time of start-up runs out before its
  backfill begins is not modelled.
- A row of `geo_ranges` in `GeoIndex` is its network and the rest. The stamp, sums and xors
  over the bounds of the networks, is taken there to tell any two sets of networks apart,
  and it ignores the rest, as the code does; `SnapshotFile` computes it number by number. A
  snapshot path is taken to be set.
- A checksum is taken to tell any two payloads apart.
- A backup is a number that grows with time, its date and its source. A run of BACKUP or
  RESTORE is two steps at most. `UpdateSchedule` is one step.
- Passwords are right or wrong; settings are one number; a list of a feed is its version.
- The three geo aggregate tables are one table in `Aggregates`.
- A statement or a write of a file is atomic, and may fail (in `FileAtomic` it is not).
- `Delivery` loses a set of lines at once: eviction drops the older half of a buffer.
- The components that share the slot have specifications of their own for the proofs:
  `RepSpec` and `HuntSpec` (which moves the anomaly scan as well) run with the slot of
  `HeavySlot`; the MC modules compose the same actions.
- A client of `Accounts` keeps its request (`req`) until the answer and forgets it then; what
  was revoked or deleted is history that a new account of the same name does not inherit.
- History variables (marked as such) record the past for a property and guard no action.

## 3. Runs

The module and the configuration of a run are named after it (`control_plane` is
`MCControlPlane`); the four violations use the modules `MCIngest`, `MCBackup` and `MCReading`
of `ingest`, `backup` and `reading` with configurations of their own.

Deadlock is checked in `ingest`, `ingest_live`, `ack_loss` and `geo`. The other instances
come to rest when their bounds are used up.

| Run | Instance | What it shows |
|---|---|---|
| `intake` | six lines, depth 2, 3 bytes, 2 workers; 3 inserters, threshold 2; 2 listeners, 3 peers, room for one connection; every stream of up to two frames; 2 proxy addresses, 3 moves of the name service | `BytesExact`, `BytesBounded`, `RefusedOnlyWhenFull`: the byte counter; `WindowNotExtended`: no open window is prolonged; `LinesAsSent`: framing; `ConnectionsEnd`: nothing outlives `Run`; `ProxyRecognised`: races of refreshes heal |
| `ingest` | 2 workers, 3 logs, 1 parse error, 1 line with nothing behind its transport marker, at most four of the five in one behaviour, batches of 2, 2 attempts, threshold 1 | `EveryLineAccounted` (every line is in one of the counters, the queue or a buffer, except the blank ones, which `blank` counts), `Drained`, and `ImplementsContract`, the refinement of `Delivery` |
| `ingest_live` | 2 workers, a log, a parse error, a skipped line | `BacklogClears`, `ShutdownCompletes` |
| `ack_loss` (violation) | 2 workers, 2 logs, lost acknowledgements | `AtMostOnce`: a line is stored twice |
| `geo` | 2 overlapping lists, an empty list, a truncate; three scenarios of calls and restarts; 3 jobs on 2 slots | `ReplaceIsAtomic`, the refinement of `AtomicTable`; `IndexWasCommitted`, `StampsHonest`, `ReloadRepairs`; `OnlyNewestRuns`, `BodiesInOrder`, `ShutdownReturns` |
| `backup` | 2 days, 2 jobs by hand, keep 2, one disturbance of any kind | `AttachedOnDisk`, `MarkerTruthful`, `OncePerQuietDay`, `DayIsServed` |
| `backup_refire` (violation) | 1 day, 1 job by hand, keep 1 | `OncePerDay`: two automatic backups on one day |
| `control_plane` | 2 requests in flight of at most 4, nine sets of operations, 2 faults; 2 tokens, 3 secrets; 2 administrators on five kinds of settings; 2 writers and a reader of one file | `RevokedIsRefused`, `AdminRemains`, `GuessesBounded`, `RetiredIsRefused`, `ReportedIsEffective`, `FileWhole` |
| `jobs` | 5 tasks on a slot; four log histories, 2 scans, an acknowledgement, a deadline; 2 hunt ids, 2 runs, an edit; 2 feeds of 2 versions, 2 user operations, a restart | `NeverStuckBusy`, `AckSilences`, `OneAlertPerFact`, `HuntsNotClobbered`, `CommittedBeforeSeen`, `PruneComplete` |
| `reading` | 3 rows over 3 days of 2 hours, one fault; all periods of a four-day clock with hours of three ticks; all search trees of depth two over seven terms, and of depth three over three; pairs of 96 rows that share an address, asked for with limits 1 and 60 (the caps are 1, 2, 3 and 50), so that a scan is cut in some and whole in others; all tables of up to 3 ranges over 4 addresses, edits of those in order, files of 2 rows, lists of 3 ranges | `ReadyIsExact`, `PeriodAnswered`, `MapWhole`, `RangesExact`; `FormatsAndListsExact`: searches, the snapshot file, reputation lists |
| `partial_day` (violation) | the tables of `reading` | `PreferAfterFullBackfill`: a half-filled day is taken for complete |
| `map_window` (violation) | the periods of `reading` | `ShortPeriodsExact`: one hour, asked for in the middle of an hour, is answered from the hourly table without the part of it that lies in the hour before |

`MapWhole`, `RangesExact` and `FormatsAndListsExact` are conjunctions of reference
definitions, each with its own comment: of a map (`MapSound`) `EndsArePoints`, `PointsCarryLines`, `NothingLost` and the limit,
of a report (`ReportWhole`) `MissingNamed`, of two addresses (`NodesApart`)
`NeverMergedUnknown`; of ranges `IndexExact`, `PagesExact`, `ExportReadBack`, `FileExact` and
`EditExact`; of searches `ParsedAsWritten` and `SearchExact`, of the snapshot file
`SnapshotReadBack`, of reputation lists `ListsExact`. `IndexExact` holds of any table; edits are
asked of a table in order (`InOrder`), which is what every accepted file and edit leaves, as
`FileExact` and `EditExact` say.

Why the bounds are enough to see the interesting cases: two callers and a worker suffice
for every race on the queue counters, and the sizes make both limits bite; three workers
put a third `NoteFailure` between the load and the swap of two others; three logs in
buffers of two make a buffer overflow; two slots let two geo jobs be past the slot, so that
only `workMu` and the generations order them; three backups with `Keep = 2` make retention
bite, and two days let a run cross midnight; two requests interleave between any two store
accesses and a third sees the result; two faults allow a failed save and a restart after it;
two scans and a cap of one alert per tick leave something for the second; four addresses hold
a prefix of each length, and the last one wraps. Each property is refuted by a mutant under
exactly these bounds.

Bounds named in the guards: `MaxTime` (breaker, throttle), `MaxRows` (rows of a line in
`Ingest`; rows of the log in `Anomaly`), `MaxMoves`, `Retries` (`TrustedProxies`),
`Scenarios` (calls and restarts of one behaviour of `GeoIndex`; operations in `Accounts`),
`Days`, `MaxManual`, `MaxEvents` (`Backup`), `MaxRequests`, `MaxFaults`, `MaxSecrets`,
`MaxTokenFaults`, `MaxPuts`, `MaxSettingFaults`, `MaxWrites`, `MaxFileFaults`, `MaxClock`,
`MaxScans`, `MaxAcks`, `MaxEdits`, `MaxHuntRuns`, `MaxVersion`, `RepUserOps`, `LastDay`,
`MaxLogs`, `AggFaults`. The constraint `FourArrive` of `ingest` leaves one of its five lines
unread in each behaviour: three logs with a parse error or with a blank line, or two logs with
both. The constraint `Apart` of `reading` stops where start-up and
maintenance have met on the same tables, past which nothing is claimed, and gives an empty
volume two rows. In `jobs`, steps that commute with the detectors are taken around the
lookups only, and a job's slot operation and its flag store together; the focus "slot" takes
them apart.

Symmetry is used for workers and for lines of one kind in `ingest` and `ack_loss`, and for
clients and administrators in `control_plane`: the modules do not tell them apart. It is not
used with liveness; `ImplementsContract` is a safety property (`Delivery` has no fairness).

### Fairness

- Goroutines that can run do run: weak fairness of the steps of callers, workers and jobs.
- Go's `select` picks at random among its ready cases, so a case that is ready again and
  again is taken: strong fairness of `Receive`, `TickerFlush` and `StartDrain`.
- Timers fire: weak fairness of the cooldown, of the drain deadline, of the read deadline of
  a connection and of the minute tick.
- `BacklogClears` assumes (`recovers`) that nobody shuts the process down and that
  ClickHouse does not refuse a worker for ever. `ShutdownCompletes` assumes nothing of
  ClickHouse.
- `ConnectionsEnd`: nothing is assumed of the peers. `ProxyRecognised`: requests keep coming
  and a lookup ends, with or without a result.
- `GeoJobs`: a cancelled query answers. Nothing is assumed of other holders of the slot, of
  queries that are not cancelled, or of deadlines.
- `Backup`: a BACKUP that is tried again and again succeeds at last (strong fairness of
  `BackupTables`); without it no day need be served.

## 4. Where the code and its documentation disagree

Four disagreements have a run:

- **`ack_loss`**: the documentation promises at-most-once delivery. A batch that ClickHouse
  applied but whose reply was lost is retried, or kept and flushed again, without a
  deduplication token (`usecase/ingest/retry.go:88`): its lines are stored twice.
  `ImplementsContract` is therefore checked without lost acknowledgements.
- **`backup_refire`**: `dropStaleScheduleLastRun` takes a last run without an automatic
  backup of its date for a leftover. A later backup by hand may have pruned it, and the
  schedule then fires again on the same day (`usecase/backup/service.go:365`).
- **`partial_day`**: readiness asks only whether each closed day has a partition
  (`adapter/clickhouse/migrate/parts.go:50`). A backfill that broke off inside a day has left
  one, so the day is never completed and the table is preferred, although `aggstate/store.go:85`
  says only after a full backfill.
- **`map_window`**: a period of hours is answered from the hourly table once that is preferred
  (`adapter/clickhouse/query/geo_edges_scan.go:96`), although `src/docs/operations.md:218`
  says that 1h and 6h always read `traffic_logs`. A row of that table carries the start of its
  hour, so the condition `hour >= now() - n HOUR` leaves out the hour in which the period
  begins: in the counterexample the clock is at tick 43, the second of an hour of three, one
  hour is asked for, ticks 40 to 43, and 42 and 43 are answered. `ShortPeriodsExact` is asked
  of periods of hours that are shorter than a day.

Others limit a property of a passing run, which states its proviso:

- `AttachedOnDisk` excludes an attach that overlaps the deletion of the same backup:
  `DeleteBackup` checks and deletes in two steps without holding anything
  (`usecase/backup/service.go:480`).
- `MarkerTruthful` excludes partial drops, failed writes of the marker and restarts: nothing
  reconciles marker and shadow tables (`usecase/backup/service.go:690`).
- `DayIsServed` excludes a run that does not get the heavy slot: `runCreate` returns before
  the deferred function that takes `lastFireDate` back (`usecase/backup/service.go:526`), so
  the day is not tried again, although `schedule.go:120` names failed jobs among what is
  caught up with.
- `StampsHonest` and `ReloadRepairs` exclude overlapping publications: index and stamp are
  two assignments (`adapter/clickhouse/geostore/geo_index.go:160`), an edit and a reload can
  leave the rows of one under the stamp of the other, and no later reload repairs that. In
  the same way a reload that loaded the table before a `ClearAll` serves the old rows after
  it (`usecase/geo/service.go:439`).
- `ReloadRepairs` also excludes an index that was published while its stamp could not be
  read (`unstamped`): when the two queries of the stamp fail, `Reload` publishes the rows it
  has loaded and keeps the stamp of the rows before (`adapter/clickhouse/geostore/geo_index.go:113`).
  When the table then returns to those, the next reload takes the index for current. The
  invariant of `Geo_proofs` was not inductive until this case was set apart.
- The stamp covers only the bounds of the ranges (`geoip/snapshot_codec.go:31`): a change of
  country or coordinates whose reply was lost is not noticed by a reload. The instance of
  `geo` gives every call a network of its own.
- `NeverStuckBusy` is one direction only: `Busy` may be false while a slot is held, when a
  releaser's store overtakes that of the next holder (`adapter/heavytask/limiter.go:60`).
- `ShutdownReturns` speaks of jobs scheduled before `Shutdown`: `schedule` accepts others
  later, and the start-up sequence may still call it (`cmd/lifecycle.go:52`).
- `ReadyIsExact` excludes the days it lists in `torn` and `spoilt`: a backfill that broke
  off; rows that came late, whose partition keeps the day from being backfilled; rows that
  met no view or two views while one was being exchanged; rows that came between the copy
  and the exchange of the logs (`migrate/traffic_logs_ip.go:80`); the day in which a table was
  replaced; the maintenance job beside the start-up backfill, which then count twice.
- `ReportedIsEffective` excludes requests that overlap each other or the start-up.
- `HuntsNotClobbered` excludes an edit made while a run holds its copy, which the run's save
  undoes (`usecase/hunts/service.go:118`).
- `AckSilences` and `OneAlertPerFact` exclude a scan one of whose lookups failed: the failure
  counts as "nothing known".
- `PeriodAnswered` excludes, for the hourly table, periods older than it keeps (`map_window`).
- `NeverMergedUnknown` lets two addresses share a node that is named by a city or a country
  both have, even where index and logs disagree about one of them, and lets addresses without
  an enterprise network share the node of such a name in the grouping by subnet
  (`mapagg/aggregator.go`, `cityMeta` and the metas beside it): an arc between the two is then a loop that the map does
  not show.
- `NothingLost` is asked of the rows that the scan of a map returned, and of all the logs only
  when the scan grouped them and returned fewer groups than its LIMIT (`whole`). A scan that
  reached its limit has left groups out, with their lines, bytes and verdicts, and the answer
  does not say so: `GetMap` cannot tell such a map from a whole one
  (`adapter/clickhouse/query/geo_edges_scan.go:217`, `:242`, `:304`). The limits are those of
  `mapsearch/cost.go`, between 3000 and 50000 groups.
- `EveryLineAccounted` counts the lines that are blank behind their transport marker by a
  history variable: `ProcessLine` returns `OutcomeEmpty` for them before any counter is
  touched (`usecase/ingest/processor.go:74`), so the counters of `/api/ingest/stats` alone do not
  add up to the lines received when there are such.
- `MissingNamed` excludes a report that its limit cut: the limit comes before the addresses
  that the index places by now are taken out, so these can hide missing ones.

Noticed while reading, without a property: the trimmed history of a hunt keeps one run more
than `MaxRunHistory`; a hunt that is too heavy is tried again at every tick; the entity tag
of a feed outlives the deletion of its list, so the list stays empty until the feed changes
(`adapter/reputationjob/scheduler.go:196`); adjacent reputation ranges at the last address are
not merged because the end plus one wraps, which lookups do not see (`ListsExact`); a search
`all:x` cannot be parsed and filters nothing; a query "a-b" finds a range in the index and
never in the table; the country filter of the series is case-sensitive, the map's is not; the
two lines of a mixed edge leave out events of unknown verdict; of two enterprise networks with
the same start the broader one wins; `docs/anomalies.md` gives other medium thresholds for lateral
movement than the code, and says of reputation pairs what `anomalystore/traffic.go:216` does
not do; a maintenance backfill that is cancelled between two statements leaves the status of
the edges at "running", which keeps the gate of every later maintenance shut until a restart
(`migrate/edges_agg.go:277`, `adapter/anomalyjob/scheduler.go`); HTTP uploads are accepted and reported as queued after the workers have drained; the
read-change-write of the backup schedule by a request and by the end of a run is not locked.

## 5. Proofs

Each theorem holds for every value of the constants that satisfies the named assumption of
its module. The assumptions are: limits are natural numbers, and positive where the code
makes them so; finite sets where cardinalities are taken; model values that are distinct
from each other and from what they stand beside (`NoToken`, `NoFile`, `NoUser`, `NoBucket`,
the places of an accept loop); and, for `GeoIndex`, that an upload brings at least one range,
for `Anomaly`, that cooldowns and suppressions are natural numbers of ticks, for
`Aggregates`, that what an older version left is of days up to today. `Requests` assumes that
periods are those the parsers return, that a row counts at least what was allowed and blocked
of it, that ranges have numbers for ends and strings for names (`RequestsAssumption`), and
that names do not clash with each other or with the placeholders of the code
(`NamesAssumption`): no address, network or place is named like another, no city is named
"unknown", and an unknown country is on no continent. The code does
not enforce the last assumption; a GeoIP file that calls a city "unknown" would merge the
addresses of that city with those whose city is not known. Bounds that keep TLC's
instance finite (`MaxTime`, `MaxFaults`, `MaxRequests`...) are arbitrary numbers here. TLC
evaluates every assumption in a passing run.

Two theorems have a hypothesis besides. `ContractImplemented` and `StoredAtMostOnce` assume
`~AckLoss`: run `ack_loss` shows that they fail without it. `ReloadsRepair` assumes that no
two contents the table has had share a stamp (`StampsTell`), which section 4 explains.

Every invariant proof has the same plan: an inductive invariant, checked by TLC before it
was proved, a lemma per action or group of actions, and the property as a consequence.

Where the work is in an operator on data, the proof is by induction over the data. The
library's induction theorems take an operator as a parameter, which the provers cannot
instantiate; `NatInd` and `SetInd` take instead the set of the numbers, or of the finite sets,
of which something holds. They rest on `LeastNumber`, and that on the well-foundedness of
strict inclusion of finite sets. `RecursionExists` of `Intake_proofs` and `Reading_proofs` and lemmas such as
`SumOfOneMore` of `Map_proofs` give a recursive function or a sum its defining equation.

- **`Intake_proofs`**
  - *Queue*: `TypeCorrect`, `ByteAccounting`, `ByteLimit`, `DepthLimit`, `RefusalsJustified`.
    Invariant `QueueInv`: types, `QueueExact`, `BytesExact`, `BytesBounded` and `SwapFits`. The
    limit is not inductive by itself: that a compare-and-swap stays within it rests on the
    check made at the load, which `SwapFits` carries along; that a release never goes below
    zero rests on `BytesExact`. The size of a set of lines is the cardinality of a set of
    bytes, so that the library's theorems on finite sets apply.
  - *Breaker*: `BreakerTypes`, `WindowIsBounded`, `WindowIsNotExtended`. Strengthened by
    `SwapIsSafe`: a worker about to swap has seen a window that is over, and its new window
    was computed in the past.
  - *Connections*: `NothingIsLeftBehind`, the safety half of `ConnectionsEnd`. Invariant
    `ConnInv`: the connections with a goroutine are as many as the tokens of `connSem`
    (`TokensExact`), a connection in the hands of an accept loop is that loop's alone
    (`InHand`), and past `acceptWg.Wait` no loop has one (`JoinOrder`).
  - *Framing*: `LinesArriveAsSent`, for any letters, any longest message and any number of
    digits of a count. Invariant `LineInv`: every connection is at some frame of the stream
    of its peer, what it has delivered is the messages of the frames before that one, and
    what it has yet to read is the rest of the frames (`Reached`). One step needs that
    the reader takes exactly one frame from a stream that begins with it, counted or not,
    whatever follows (`ReadsFrame`), and that what is left begins with the next (`NextFrame`).
- **`Ingest_proofs`**: `IngestInvariant`, `LinesAccounted`, `DrainLeavesNothing`,
  `ContractImplemented` (the refinement of `Delivery`, step by step), `StoredAtMostOnce`.
  `LinesAccounted` speaks of lines of every kind, blank ones included; `IngestInv` adds to the
  accounting that every line is in one place only (`OnePlace`:
  without it adding a line to a set would not add one to its cardinality), and `DrainInv`:
  what the queue held at the shutdown only leaves it, a worker enters its last flush with the
  queue emptied, and leaves it with empty buffers unless an insert failed, without which the
  breaker is closed. Sequences without repetition have as many elements as their length
  (`DistinctCardinality`), which ties buffers to counters.
- **`Geo_proofs`**
  - *Table*: `TypeCorrect`, `StagingOwned`, `Replacement` (the refinement of `AtomicTable`).
    `Ledger` ties the answers to the calls that took effect. `CountDecides` is the heart of
    it: rows of the list only, and as many as the list has, are the list.
  - *Index*: `IndexInvariant`, `LookupsSeeCommitted`, `SnapshotDescribesItself`,
    `ReloadsRepair`. `IndexInv` says what each process at work knows of table, index and
    stamp while it is alone (`Knows`), that two at once are noticed (`Alone`), and that what a
    process is about to publish has been in the table.
  - *Jobs*: `JobTypes`, `SingleBody`, `SupersededAreCancelled`, `OrderOfBodies`. The
    invariant adds `Order`: who holds `workMu`, that generations tell jobs apart, and that a
    job past the generation check is younger than any that has begun.
- **`Jobs_proofs`**
  - *Slot*: `SemaphoreExact`, `FlagComesDown`, strengthened by `FlagJustified`: the flag is
    up only while a slot is taken or a releaser has still to look.
  - *Reputation*: `AnswersWereCommitted`, `QuietRunPrunes`. `RepInv` follows what a change of a
    list has in its hands from the read of table or index to the write, and, for a run that
    met nobody, the lists it has yet to delete.
  - *Hunts*: `SavedHuntsKept`. `HuntInv`: every copy a run holds, of the hunt it runs and of
    those it has still to look at, has its user's definition unless it was edited since.
  - *Anomaly*: `AcknowledgedIsSilent`, `FactsReportedOnce`. `AnomInv` says what a scan has
    seen at each of its steps: a candidate was outside its cooldown when it was found
    (`CandidatesCooled`), every alert and suppression that its candidates are measured
    against was read, unless the lookup failed (`AllSeen`, `AllMuted`). What each detector
    finds enters by `HitsAreCandidates` only, so the theorems hold for any logs.
- **`Backup_proofs`**: `AttachedBackupKept`, `MarkerIsTrue`, `QuietDayServedOnce`.
  `BackupInv` adds that the backup an attach works on is on the volume, what marker and shadow
  tables are between the steps of a job, and, for a quiet day, that a run counts the day as
  served once and keeps the date in memory until the day is over.
- **`ControlPlane_proofs`**
  - *Tokens*: `RetiredTokensRefused`. *Files*: `FilesWhole`, strengthened by what a writer's
    temporary file is at each of its system calls and by the order of renames.
  - *Settings*: `SettingsReported`. `SettingsInv`: a request that is alone has brought the
    parts before its place into line (`Underway`).
  - *Accounts*: `RevokedSessionsRefused`, `AnAdminRemains`, `GuessesAreBounded`. A revoked
    session is on its way to be refused at every place of a request (`Refused`), by its
    version in memory and file or by the registry. For the guesses the bucket counts at
    least what passed (`Tally`), and a request in flight counts as one more.
- **`Reading_proofs`**
  - *Aggregates*: `ReadyTablesAreExact`. `AggInv` follows each day of each table: it is
    whole, or over and empty, or a job is filling it and has come to a certain hour
    (`DaysKnown`, `FillKnown`), and a job that stops, by a failure or a cancel, leaves the table
    not ready and its day among the torn ones (`FillStops`); the days a job has not before it
    are whole; the flag of a table whose schema is being changed is down (`SchemaIsDown`).
    Readiness is not inductive alone, since the job that raises the flag relies on what it
    filled several steps before.
  - *Ranges*: `RangesAnswered`, the property `RangesExact`, for any width of an address, any
    tables and files of any length and any names. `RequestSpec` adds nothing to the state, so
    the work is in operators. `IndexAnswers`: after each range what is kept is in order and
    everything left out meets something kept (`KeepsOf`, by `NatInd`); the rows built so far
    mirror what is kept, name for name (`Mirrors`); in rows that mirror ranges in order the
    binary search, whose interval halves while both its ends stay right (`Between`), finds
    the one place that may hold the address. `PagesAlike`: the ranges picked from the first i
    have increasing starts and are those that answer (`PicksOf`), so that a page is cut exactly
    when one is not on it. `FilesReadAsWritten`: a prefix cut by division covers what its
    quotient says (`ParsedNet`), and rows that pass the check after sorting answer for their
    places (`PlacesAnswer`). `AppendedAsAsked` and `UpdatedAsAsked` follow from the same lemma
    for the places that an edit keeps and the one it adds. `ExportsReadBack`: a table in order
    is the only way to sort its rows (`SortedAsIs`), and the two builders give its names the
    same numbers (`SameIndex`).
- **`Map_proofs`**: what a request is answered, for any hour, day and retention, any rows, any
  index, any networks and any hints of the logs.
  - *Periods*: `WindowsAnswered`, the property `PeriodAnswered` of run `reading`. Its heart is
    `PeriodsAnswered`, for any moment and any set of ready and failing tables, with a lemma
    that the promotions of `promoteHoursToDays` and `promoteMinutesToHours` change the unit
    and not the period.
  - *Maps*: `MapsAnswered`, the property `MapWhole`. Its parts are theorems of their own.
    `DrawnAsCounted`: after i rows the edges of any set of keys carry the amounts of the rows
    with these keys, so the lines carry all of them, every end of a line is a point, and a
    point counts at least what its lines carry. `AddressesDrawn` and `KeysDrawn` bring in the
    nodes: the second pass over the rows finds every node that the first one placed, because
    a node with a position is never replaced, and rows grouped by ClickHouse have the sums of
    the logs they stand for, all of the logs when fewer groups were returned than the limit
    (`ScanGroups`): the theorem claims nothing of what a cut scan left out. `FilterKeepsEnds`: reputation filter and limit leave whole what
    was whole. `MissingAreNamed`: the report names who is off the map. `UnknownNeverMerged`:
    two addresses share a node only for something known of both, case by case over what the
    index and the logs know of them.

The first statement of `NeverMergedUnknown` asked for a city, or a country, that both addresses
have. The attempt to prove it gave counterexamples that the instance was too small to show: two
addresses without an enterprise network, and an index and logs that disagree about the
country. The code does merge these, and the property now says when (section 4).

Only model-checked:

- Liveness, which fairness and `ENABLED` put beyond the proof system: `BacklogClears`,
  `ShutdownCompletes`, `ShutdownReturns`, `DayIsServed`, `ProxyRecognised` and the second
  half of `ConnectionsEnd`.
- `FormatsAndListsExact`. Searches: `MapSearch` has recursive operators, which take the SMT
  solver from any module that reaches them. The snapshot file: `SnapshotFile` computes stamps
  with bitwise operators, which a module with a theorem cannot reach. Reputation lists: they
  are grouped, sorted and merged by library operators that the provers do not expand.
- The four violations, which are counterexamples.

## 6. Not modelled, and why

- **Log parsers** are text formats without state; a model would be a transliteration.
- **HTTP routing, headers, cross-site checks, request rate limiter**: decoding of requests.
  What the handlers change is in the modules of their use cases.
- **Start-up and shutdown as a whole, periodic loop**: their parts are in `Aggregates`
  (the start-up script), `Ingest`, `Connections` and `GeoJobs` (what each does when it is told to
  stop). The order between the parts, the lock of the data directory and `jobscheduler.Loop`
  have no module; the README names what was seen there (`cmd/lifecycle.go:17`, `:52`).
- **System status, metrics, audit, configuration, collector, frontend, deployment**:
  reporting, input and I/O.
- **Of modelled parts**: series, verdict filter and export of the map; the contents of archives;
  password hashing and cookie signatures; PEM parsing; region and coordinates of a range; the
  index without a snapshot path.

## 7. What could come next

1. A `Lifecycle` module: order of starts and stops, lock of the data directory, the periodic
   loop, composed with `GeoJobs` and `Ingest`.
2. The schedule file of the backups with `UpdateSchedule` split into read and save.
3. Proofs about reputation lists, with the merge of a list written as a recursive function of
   its ranges as `KeptOf` is; and about searches, with the parser written as a recursive
   function over positions.
