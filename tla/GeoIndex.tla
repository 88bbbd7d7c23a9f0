------------------------------ MODULE GeoIndex ------------------------------
(***************************************************************************)
(* The four copies of the GeoIP ranges (table geo_ranges, index in memory, *)
(* stamp of the index, snapshot file) under the calls that change them     *)
(* (usecase/geo: UploadCSV, AppendRange, UpdateRange, ClearAll), the reload*)
(* at start, the reloads of the job scheduler (geostore.ReloadableGeoIndex)*)
(* and restarts of the process.  Replacing the table is atomic: that is    *)
(* what TableSwap is shown to implement.                                   *)
(***************************************************************************)
EXTENDS Integers, FiniteSets

CONSTANTS
    Calls,          \* HTTP calls
    Scenarios,      \* what happens in one behaviour: the calls that come in
                    \* and the number of restarts
    CallKind(_),        \* "upload", "append", "update" or "clear"
    Brought(_),        \* the rows an upload, an append or an update brings
    Original(_),    \* the network an update replaces
    InitialRanges,        \* the rows of geo_ranges at first
    MaxRanges,      \* GEOIP_UPLOAD_MAX_RANGES, 0 = no limit
    Startup, Job,   \* the two processes that reload
    NoStamp, NoFile

\* A row is [net |-> its bounds, meta |-> country, city and coordinates].
Ranges == InitialRanges \cup UNION {Brought(c) : c \in Calls}

\* StampFromRanges and QuerySourceStamp: count, bounds and sums of the
\* networks, taken to tell any two sets of networks apart.
StampOf(R) == {r.net : r \in R}

Stamps == SUBSET StampOf(Ranges)
Snapshots == [rows : SUBSET Ranges, stamp : Stamps]

ASSUME GeoAssumption ==
    /\ \A c \in Calls : CallKind(c) \in {"upload", "append", "update", "clear"}
    /\ \A c \in Calls : CallKind(c) # "clear" => Brought(c) # {}
    /\ Scenarios \subseteq [calls : SUBSET Calls, restarts : Nat]
    /\ MaxRanges \in Nat
    /\ Startup # Job /\ Calls \cap {Startup, Job} = {}
    /\ \A s \in Stamps : s # NoStamp
    /\ NoFile \notin Snapshots

Reloaders == {Startup, Job}
Procs == Calls \cup Reloaders

VARIABLES
    table,      \* rows of geo_ranges
    index,      \* the published snapshot
    stamp,      \* ReloadableGeoIndex.stamp, NoStamp while okStamp is false
    file,       \* GEOIP_SNAPSHOT_FILE: rows and stamp, or NoFile
    step,         \* what each call and each reload does next
    rows,       \* rows in the hands of a process
    mark,       \* stamp in the hands of a process
    pending,    \* the newest job of the scheduler is a reload that has to begin
    restarts,   \* restarts to come
    committed,  \* history: contents the table has had
    current,    \* history: reloads that began after the last change of the table
    synced,     \* history: such a reload has ended without an error
    overlapped, \* history: two publications were under way at once
    unstamped   \* history: the stamp of the index could not be read, the one
                \* kept is that of an earlier index

indexVars == <<table, index, stamp, file, step, rows, mark, pending, restarts,
          committed, current, synced, overlapped, unstamped>>

\* The index and the table of the calls hold ranges that do not overlap.
NonOverlapping(R) == \A r, q \in R : r.net = q.net => r = q

Resting == {"boot", "idle", "slot", "query", "done", "dead"}

Overlap(newpc) ==
    overlapped' = (overlapped \/ \E p, q \in Procs :
                      p # q /\ newpc[p] \notin Resting /\ newpc[q] \notin Resting)

IndexGoto(p, to) ==
    /\ step' = [step EXCEPT ![p] = to]
    /\ Overlap(step')

Change(R) ==
    /\ table' = R
    /\ committed' = committed \cup {R}
    /\ current' = {}
    /\ synced' = FALSE

\* What a process held goes with its return.
IndexReturn(c) ==
    /\ IndexGoto(c, "done")
    /\ rows' = [rows EXCEPT ![c] = {}]
    /\ mark' = [mark EXCEPT ![c] = NoStamp]

-----------------------------------------------------------------------------
IndexInit ==
    /\ table = InitialRanges
    /\ index = {} /\ stamp = NoStamp
    /\ file \in {NoFile, [rows |-> InitialRanges, stamp |-> StampOf(InitialRanges)]}
    /\ \E S \in Scenarios :
          /\ step = [p \in Procs |-> CASE p = Startup -> "boot"
                                 [] p \in Calls \ S.calls -> "done"
                                 [] OTHER -> "idle"]
          /\ restarts = S.restarts
    /\ rows = [p \in Procs |-> {}]
    /\ mark = [p \in Procs |-> NoStamp]
    /\ pending = FALSE
    /\ committed = {{}, InitialRanges} /\ current = {} /\ synced = FALSE
    /\ overlapped = FALSE /\ unstamped = FALSE

\* LoadDisk, before the HTTP server is started.
LoadDisk ==
    /\ step[Startup] = "boot"
    /\ IF file = NoFile
       THEN UNCHANGED <<index, stamp>>
       ELSE index' = file.rows /\ stamp' = file.stamp
    /\ IndexGoto(Startup, "idle")
    /\ UNCHANGED <<table, file, rows, mark, pending, restarts,
                   committed, current, synced, unstamped>>

Serving == step[Startup] # "boot"

-----------------------------------------------------------------------------
(* The calls *)

\* heavytask.New(1): the job and an upload exclude each other.
SlotFree ==
    /\ step[Job] \in {"idle", "done"}
    /\ \A c \in Calls : CallKind(c) = "upload" => step[c] \in {"idle", "slot", "done", "dead"}

\* rejectIfIndexTooLargeForReplace and checkUploadLimits.
WithinLimits(n) ==
    \/ MaxRanges = 0
    \/ n <= MaxRanges /\ Cardinality(index) < MaxRanges \div 2

\* The call has the rows to store: the uploaded ones, or the rows of the table
\* with one more or one exchanged.
Prepare(c, R) ==
    /\ NonOverlapping(R)
    /\ rows' = [rows EXCEPT ![c] = R]
    /\ mark' = [mark EXCEPT ![c] = StampOf(R)]
    /\ IndexGoto(c, "replace")
    /\ UNCHANGED <<table, index, stamp, file, pending, restarts,
                   committed, current, synced, unstamped>>

UploadCSV(c) ==
    /\ CallKind(c) = "upload" /\ step[c] = "idle" /\ Serving
    /\ WithinLimits(Cardinality(Brought(c)))
    /\ IndexGoto(c, "slot")
    /\ UNCHANGED <<table, index, stamp, file, rows, mark, pending, restarts,
                   committed, current, synced, unstamped>>

\* The limits were checked before the wait for the slot.
AcquireSlot(c) ==
    /\ step[c] = "slot" /\ SlotFree
    /\ Prepare(c, Brought(c))

AppendRange(c) ==
    /\ CallKind(c) = "append" /\ step[c] = "idle" /\ Serving
    /\ Prepare(c, table \cup Brought(c))

UpdateRange(c) ==
    /\ CallKind(c) = "update" /\ step[c] = "idle" /\ Serving
    /\ \E r \in table : r.net = Original(c)
    /\ Prepare(c, {r \in table : r.net # Original(c)} \cup Brought(c))

\* Bad input, a limit, an overlap, no such range, a busy slot or a failed Load.
Refuse(c) ==
    /\ step[c] \in {"idle", "slot"} /\ Serving /\ CallKind(c) # "clear"
    /\ IndexReturn(c)
    /\ UNCHANGED <<table, index, stamp, file, pending, restarts,
                   committed, current, synced, unstamped>>

ClearAll(c) ==
    /\ CallKind(c) = "clear" /\ step[c] = "idle" /\ Serving
    /\ mark' = [mark EXCEPT ![c] = StampOf({})]
    /\ IndexGoto(c, "truncate")
    /\ UNCHANGED <<table, index, stamp, file, rows, pending, restarts,
                   committed, current, synced, unstamped>>

\* store.Replace or store.Truncate succeeds.
Store(c) ==
    /\ c \in Calls /\ step[c] \in {"replace", "truncate"}
    /\ Change(rows[c])
    /\ IndexGoto(c, "publish")
    /\ UNCHANGED <<index, stamp, file, rows, mark, pending, restarts, unstamped>>

\* Mutant: the index is published although the table was not replaced.
StoreFailsPublished(c) ==
    /\ c \in Calls /\ step[c] \in {"replace", "truncate"}
    /\ IndexGoto(c, "publish")
    /\ UNCHANGED <<table, index, stamp, file, rows, mark, pending, restarts,
                   committed, current, synced, unstamped>>

\* It fails, or only its reply is lost; the index is left alone.
StoreFails(c) ==
    /\ c \in Calls /\ step[c] \in {"replace", "truncate"}
    /\ Change(rows[c]) \/ UNCHANGED <<table, committed, current, synced>>
    /\ IndexReturn(c)
    /\ UNCHANGED <<index, stamp, file, pending, restarts, unstamped>>

\* ScheduleReloadAndEnrich, and the answer.  ClearAll schedules nothing.
ScheduleReload(c) ==
    /\ c \in Calls /\ step[c] = "schedule"
    /\ pending' = (pending \/ CallKind(c) # "clear")
    /\ IndexReturn(c)
    /\ UNCHANGED <<table, index, stamp, file, restarts,
                   committed, current, synced, unstamped>>

-----------------------------------------------------------------------------
(* Reload *)

\* A restarted process reloads once; the job reloads when it has been told to.
BeginReload(p) ==
    /\ \/ p = Startup /\ step[p] = "idle" /\ UNCHANGED pending
       \/ p = Job /\ SlotFree /\ pending /\ pending' = FALSE
    /\ current' = current \cup {p}
    /\ IndexGoto(p, "query")
    /\ UNCHANGED <<table, index, stamp, file, rows, mark, restarts,
                   committed, synced, unstamped>>

\* The reload ends; the next one of the job may begin.
End(p, ok) ==
    /\ IndexReturn(p)
    /\ synced' = (synced \/ (ok /\ p \in current))

QueryStamp(p) ==
    /\ step[p] = "query"
    /\ \/ mark' = [mark EXCEPT ![p] = StampOf(table)] /\ IndexGoto(p, "compare")
       \/ mark' = [mark EXCEPT ![p] = NoStamp] /\ IndexGoto(p, "load")
    /\ UNCHANGED <<table, index, stamp, file, rows, pending, restarts,
                   committed, current, synced, unstamped>>

\* Mutant: any stamp is taken for the same.
CompareKnown(p) ==
    /\ step[p] = "compare"
    /\ IF stamp # NoStamp
       THEN End(p, ~unstamped)
       ELSE IndexGoto(p, "readfile") /\ UNCHANGED <<rows, mark, synced>>
    /\ UNCHANGED <<table, index, stamp, file, pending, restarts,
                   committed, current, unstamped>>

\* A reload that trusts the stamp of an earlier index is not counted as one
\* that brought the index up to date.
Compare(p) ==
    /\ step[p] = "compare"
    /\ IF stamp = mark[p]
       THEN End(p, ~unstamped)
       ELSE IndexGoto(p, "readfile") /\ UNCHANGED <<rows, mark, synced>>
    /\ UNCHANGED <<table, index, stamp, file, pending, restarts,
                   committed, current, unstamped>>

ReadFile(p) ==
    /\ step[p] = "readfile"
    /\ IF file # NoFile /\ file.stamp = mark[p]
       THEN rows' = [rows EXCEPT ![p] = file.rows] /\ IndexGoto(p, "fromfile")
       ELSE IndexGoto(p, "load") /\ UNCHANGED rows
    /\ UNCHANGED <<table, index, stamp, file, mark, pending, restarts,
                   committed, current, synced, unstamped>>

Load(p) ==
    /\ step[p] = "load"
    /\ rows' = [rows EXCEPT ![p] = table]
    /\ IndexGoto(p, "publish")
    /\ UNCHANGED <<table, index, stamp, file, mark, pending, restarts,
                   committed, current, synced, unstamped>>

LoadFails(p) ==
    /\ step[p] = "load"
    /\ End(p, FALSE)
    /\ UNCHANGED <<table, index, stamp, file, pending, restarts,
                   committed, current, unstamped>>

\* The stamp could not be read before the load: it is read after it.  When
\* that fails too the reload ends well, and the old stamp stays.
Requery(p) ==
    /\ step[p] = "requery"
    /\ \/ /\ mark' = [mark EXCEPT ![p] = StampOf(table)]
          /\ IndexGoto(p, "stamp")
          /\ UNCHANGED <<rows, synced, unstamped>>
       \/ End(p, TRUE) /\ unstamped' = TRUE
    /\ UNCHANGED <<table, index, stamp, file, pending, restarts,
                   committed, current>>

-----------------------------------------------------------------------------
(* Publication, the same for calls and reloads: the index, then the stamp, *)
(* then the file, encoded from the index as it is then.                    *)

\* Mutant: the file is encoded before the new index is published.
PublishLate(p) ==
    /\ step[p] \in {"publish", "fromfile"}
    /\ rows' = [rows EXCEPT ![p] = index]
    /\ index' = rows[p]
    /\ IndexGoto(p, IF step[p] = "fromfile" THEN "filestamp" ELSE "write")
    /\ UNCHANGED <<table, stamp, file, mark, pending, restarts,
                   committed, current, synced, unstamped>>

Publish(p) ==
    /\ step[p] \in {"publish", "fromfile"}
    /\ index' = rows[p]
    /\ IndexGoto(p, CASE step[p] = "fromfile" -> "filestamp"
                 [] mark[p] = NoStamp -> "requery"
                 [] OTHER -> "stamp")
    /\ UNCHANGED <<table, stamp, file, rows, mark, pending, restarts,
                   committed, current, synced, unstamped>>

SetStamp(p) ==
    /\ step[p] \in {"stamp", "filestamp"}
    /\ stamp' = mark[p] /\ unstamped' = FALSE
    /\ IF step[p] = "filestamp"
       THEN End(p, TRUE)
       ELSE IndexGoto(p, "encode") /\ UNCHANGED <<rows, mark, synced>>
    /\ UNCHANGED <<table, index, file, pending, restarts,
                   committed, current>>

Encode(p) ==
    /\ step[p] = "encode"
    /\ rows' = [rows EXCEPT ![p] = index]
    /\ IndexGoto(p, "write")
    /\ UNCHANGED <<table, index, stamp, file, mark, pending, restarts,
                   committed, current, synced, unstamped>>

\* The file is removed for an empty stamp, replaced otherwise; a failure is logged.
Write(p) ==
    /\ step[p] = "write"
    /\ file' \in {file, IF mark[p] = {} THEN NoFile
                        ELSE [rows |-> rows[p], stamp |-> mark[p]]}
    /\ IF p \in Calls
       THEN IndexGoto(p, "schedule") /\ UNCHANGED <<rows, mark, synced>>
       ELSE End(p, TRUE)
    /\ UNCHANGED <<table, index, stamp, pending, restarts,
                   committed, current, unstamped>>

-----------------------------------------------------------------------------
(* Other jobs of the scheduler, and restarts *)

\* ScheduleEnrichOnly or ScheduleMaintenanceBackfill cancels a reload that waits.
Supersede ==
    /\ pending
    /\ pending' = FALSE
    /\ UNCHANGED <<table, index, stamp, file, step, rows, mark, restarts,
                   committed, current, synced, overlapped, unstamped>>

IndexCrash ==
    /\ restarts > 0
    /\ restarts' = restarts - 1
    /\ index' = {} /\ stamp' = NoStamp /\ pending' = FALSE
    /\ step' = [p \in Procs |-> CASE p = Startup -> "boot"
                                [] p = Job -> "idle"
                                [] step[p] \in {"idle", "done"} -> step[p]
                                [] OTHER -> "dead"]
    /\ current' = {} /\ synced' = FALSE
    /\ rows' = [p \in Procs |-> {}] /\ mark' = [p \in Procs |-> NoStamp]
    /\ unstamped' = FALSE
    /\ UNCHANGED <<table, file, committed, overlapped>>

IndexFinished ==
    /\ \A c \in Calls : step[c] \in {"done", "dead"}
    /\ \A p \in Reloaders : step[p] \in {"idle", "done"} /\ ~pending
    /\ step[Startup] = "done"
    /\ UNCHANGED indexVars

GeoCall(c) ==
    \/ UploadCSV(c) \/ AcquireSlot(c) \/ AppendRange(c) \/ UpdateRange(c) \/ ClearAll(c) \/ Refuse(c)
    \/ Store(c) \/ StoreFails(c) \/ ScheduleReload(c)

Reload(p) ==
    \/ BeginReload(p) \/ QueryStamp(p) \/ Compare(p) \/ ReadFile(p)
    \/ Load(p) \/ LoadFails(p) \/ Requery(p)

IndexNext ==
    \/ LoadDisk \/ Supersede \/ IndexCrash \/ IndexFinished
    \/ \E c \in Calls : GeoCall(c)
    \/ \E p \in Reloaders : Reload(p)
    \/ \E p \in Procs : Publish(p) \/ SetStamp(p) \/ Encode(p) \/ Write(p)

IndexSpec == IndexInit /\ [][IndexNext]_indexVars

-----------------------------------------------------------------------------
(* Properties *)

\* Lookups only ever see contents that geo_ranges has had, whole: never the
\* rows of a call whose Replace failed, never a mixture, and a restart brings
\* back nothing else from the snapshot file.
IndexWasCommitted ==
    /\ index \in committed
    /\ file # NoFile => file.rows \in committed

\* While publications do not overlap, the snapshot file describes itself: its
\* stamp is the stamp of its rows, through failed queries, failed writes and
\* restarts, so LoadDisk never installs rows under a stamp that is not theirs.
StampsHonest == ~overlapped /\ file # NoFile => file.stamp = StampOf(file.rows)

\* While publications do not overlap, a Reload that began after the last
\* change of the table and ended without an error leaves the index equal to
\* the table, whatever was lost or failed before it, unless it trusted a stamp
\* that an earlier reload had failed to renew.
ReloadRepairs == synced /\ ~overlapped => index = table
=============================================================================
