------------------------------- MODULE Backup -------------------------------
(***************************************************************************)
(* usecase/backup.Service over backupfs.DirStore: the minute ticker and its*)
(* daily schedule, the single background job (create, attach, detach), the *)
(* retention policy, the marker of the attached backup and its shadow      *)
(* tables, deletion, and restarts of the process.                          *)
(***************************************************************************)
EXTENDS Integers, FiniteSets

CONSTANTS
    Days,           \* bound: days 1 .. Days
    Keep,           \* Schedule.Keep
    MaxManual,      \* bound on jobs asked for by hand
    MaxEvents       \* bound on the disturbances, of any kind: see Use

ASSUME BackupAssumption ==
    /\ Days \in Nat \ {0} /\ Keep \in Nat \ {0}
    /\ MaxManual \in Nat /\ MaxEvents \in Nat

VARIABLES
    day, due,   \* the date and whether the slot HH:MM of the day has come
    enabled,    \* Schedule.Enabled, on disk
    last,       \* Schedule.LastRunDate, on disk, 0 = none
    lastFire,   \* lastFireDate, in memory, 0 = none
    tick,       \* the date for which the ticker has decided to fire, 0 = none
    job,        \* the background job
    disk,       \* backups on the volume
    made,       \* number of backups ever made: names grow with time
    attached,   \* the marker file: a name, 0 = none
    shadow,     \* what the ga_bak_* tables hold: a name, 0 = none, Partial
    deleting,   \* the backup DeleteBackup is about to erase, 0 = none
    used,       \* how much of each bound has been used
    served,     \* history: automatic backups made by the runs fired for each date
    raced       \* history: a backup was erased that had been attached meanwhile

vars == <<day, due, enabled, last, lastFire, tick, job, disk, made, attached, shadow,
          deleting, used, served, raced>>

Partial == -1
NoJob == [kind |-> "none", step |-> "idle", source |-> "none", name |-> 0, date |-> 0]

\* Jobs asked for by hand; deletions, changes of the schedule, failed writes to
\* the volume or partial DROPs, jobs without a heavy slot, restarts.
NoneUsed == [manual |-> 0, deletes |-> 0, updates |-> 0, faults |-> 0, slots |-> 0, crashes |-> 0]

Events == used.deletes + used.updates + used.faults + used.slots + used.crashes

\* One more of them, within the bounds.
Use(what) ==
    /\ IF what = "manual" THEN used.manual < MaxManual ELSE Events < MaxEvents
    /\ used' = [used EXCEPT ![what] = @ + 1]

clock == <<day, due>>
schedule == <<enabled, last, lastFire>>
volume == <<disk, made, attached>>

-----------------------------------------------------------------------------
(* The volume, DirStore *)

Exists(name) == \E b \in disk : b.name = name
Without(name) == {b \in disk : b.name # name}

\* The file next to the backup that says what asked for it.
Sourced(name, source) == {IF b.name = name THEN [b EXCEPT !.source = source] ELSE b : b \in disk}

\* List puts the newest first: how many of a set come before b.
Place(b, among) == Cardinality({c \in among : c.name > b.name})

-----------------------------------------------------------------------------

Init ==
    /\ day = 1 /\ due = FALSE
    /\ enabled = TRUE /\ last = 0 /\ lastFire = 0
    /\ tick = 0
    /\ job = NoJob
    /\ disk = {} /\ made = 0
    /\ attached = 0 /\ shadow = 0
    /\ deleting = 0
    /\ used = NoneUsed
    /\ served = [d \in 1 .. Days |-> 0]
    /\ raced = FALSE

NewDay ==
    /\ day < Days
    /\ day' = day + 1 /\ due' = FALSE
    /\ UNCHANGED <<schedule, tick, job, volume, shadow, deleting, used, served, raced>>

SlotComes ==
    /\ ~due
    /\ due' = TRUE
    /\ UNCHANGED <<day, schedule, tick, job, volume, shadow, deleting, used, served, raced>>

-----------------------------------------------------------------------------
(* The schedule *)

\* dropStaleScheduleLastRun: no automatic backup of that date is on the volume.
Stale == last # 0 /\ ~\E b \in disk : b.source = "schedule" /\ b.day = last

\* GetSchedule: the date of the last run as it is read, and what is saved.
LastRun == IF Stale THEN 0 ELSE last
FireDate == IF Stale THEN 0 ELSE lastFire
GetSchedule == last' = LastRun /\ lastFire' = FireDate

\* TickAutoCreate up to ShouldFire.
Tick ==
    /\ tick = 0
    /\ enabled /\ due
    /\ GetSchedule
    /\ tick' = IF LastRun # day THEN day ELSE 0
    /\ UNCHANGED <<clock, enabled, job, volume, shadow, deleting, used, served, raced>>

\* TryStart and the goroutine; date is the date a run of the schedule is for.
Start(kind, source, name, date) ==
    /\ job = NoJob
    /\ job' = [kind |-> kind, step |-> "acquire", source |-> source, name |-> name,
               date |-> date]

\* Mutant: no date in memory guards against a second tick.
FireUnguarded ==
    /\ tick # 0
    /\ tick' = 0
    /\ \/ Start("create", "schedule", 0, tick) /\ lastFire' = tick
       \/ job # NoJob /\ lastFire' = 0 /\ UNCHANGED job
    /\ UNCHANGED <<clock, enabled, last, volume, shadow, deleting, used, served, raced>>

\* The rest of it: the date guards against a second tick, and is taken back
\* when another job is running.
Fire ==
    /\ tick # 0
    /\ tick' = 0
    /\ \/ lastFire = tick /\ UNCHANGED <<lastFire, job>>
       \/ lastFire # tick /\ Start("create", "schedule", 0, tick) /\ lastFire' = tick
       \/ lastFire # tick /\ job # NoJob /\ lastFire' = 0 /\ UNCHANGED job
    /\ UNCHANGED <<clock, enabled, last, volume, shadow, deleting, used, served, raced>>

\* UpdateSchedule; a changed slot allows another run on the same day.
UpdateSchedule ==
    /\ Use("updates")
    /\ enabled' \in BOOLEAN
    /\ \/ GetSchedule /\ UNCHANGED due
       \/ last' = 0 /\ lastFire' = 0 /\ due' \in BOOLEAN
    /\ UNCHANGED <<day, tick, job, volume, shadow, deleting, served, raced>>

-----------------------------------------------------------------------------
(* The job *)

CreateByHand ==
    /\ Use("manual")
    /\ Start("create", "manual", 0, 0)
    /\ UNCHANGED <<clock, schedule, tick, volume, shadow, deleting, served, raced>>

Attach ==
    /\ Use("manual")
    /\ \E b \in disk : Start("attach", "none", b.name, 0)
    /\ UNCHANGED <<clock, schedule, tick, volume, shadow, deleting, served, raced>>

Detach ==
    /\ Use("manual")
    /\ attached # 0
    /\ Start("detach", "none", attached, 0)
    /\ UNCHANGED <<clock, schedule, tick, volume, shadow, deleting, served, raced>>

Step(step) == job' = [job EXCEPT !.step = step]

Acquire ==
    /\ job.step = "acquire"
    /\ Step("run")
    /\ UNCHANGED <<clock, schedule, tick, volume, shadow, deleting, used, served, raced>>

\* The slot is not had within the job's deadline: only job.Finish is deferred
\* at that point.
NoSlot ==
    /\ job.step = "acquire"
    /\ Use("slots")
    /\ job' = NoJob
    /\ UNCHANGED <<clock, schedule, tick, volume, shadow, deleting, served, raced>>

\* The statement: a directory of its own, whole or not at all.
BackedUp(name) == disk' = disk \cup {[name |-> name, day |-> day, source |-> "none"]}

\* BACKUP of the tables to a new directory, named by the time of its start.
BackupTables ==
    /\ job.kind = "create" /\ job.step = "run"
    /\ GetSchedule
    /\ made' = made + 1
    /\ BackedUp(made + 1)
    /\ job' = [job EXCEPT !.step = "mark", !.name = made + 1]
    /\ UNCHANGED <<clock, enabled, tick, attached, shadow, deleting, used, served, raced>>

\* Mutant: the date is not taken back.
FailedKeeps(fired) == job' = NoJob /\ lastFire' = fired

\* The deferred function of a run that failed; an automatic one takes its date
\* back.
Failed(fired) ==
    /\ job' = NoJob
    /\ lastFire' = IF job.source = "schedule" THEN 0 ELSE fired

\* The schedule is read before the tables are listed and backed up.
BackupFails ==
    /\ job.kind = "create" /\ job.step = "run"
    /\ last' = LastRun
    /\ Failed(FireDate)
    /\ UNCHANGED <<clock, enabled, tick, volume, shadow, deleting, used, served, raced>>

\* The archive of the data directory fails; the backup stays, without a source.
AuthFails ==
    /\ job.kind = "create" /\ job.step = "mark"
    /\ Use("faults")
    /\ Failed(lastFire)
    /\ UNCHANGED <<clock, enabled, last, tick, volume, shadow, deleting, served, raced>>

\* WriteSource, whose error is ignored; from here on the run has succeeded.
WriteSource ==
    /\ job.kind = "create" /\ job.step = "mark"
    /\ Exists(job.name)
    /\ \/ disk' = Sourced(job.name, job.source) /\ UNCHANGED used
       \/ Use("faults") /\ UNCHANGED disk
    /\ served' = IF job.source = "schedule" THEN [served EXCEPT ![job.date] = @ + 1]
                 ELSE served
    /\ Step("prune")
    /\ UNCHANGED <<clock, schedule, tick, made, attached, shadow, deleting, raced>>

\* Mutant: the attached backup is not spared.
KeptAll == {b \in disk : Place(b, disk) < Keep}

\* The newest Keep of the backups that are not attached, and the attached one.
Kept ==
    {b \in disk : b.name = attached \/ Place(b, Without(attached)) < Keep}

\* A volume that cannot be listed is not pruned; the run has succeeded anyway.
Prune ==
    /\ job.step = "prune"
    /\ \/ disk' = Kept /\ UNCHANGED used
       \/ Use("faults") /\ UNCHANGED disk
    /\ Step("persist")
    /\ UNCHANGED <<clock, schedule, tick, made, attached, shadow, deleting, served, raced>>

\* persistScheduleRun records the date on which the run ended; the error of its
\* Save is ignored.
Persist ==
    /\ job.step = "persist"
    /\ \/ job.source = "schedule" /\ last' = day /\ lastFire' = FireDate /\ UNCHANGED used
       \/ job.source = "schedule" /\ Use("faults") /\ GetSchedule
       \/ job.source # "schedule" /\ UNCHANGED <<last, lastFire, used>>
    /\ job' = NoJob
    /\ UNCHANGED <<clock, enabled, tick, volume, shadow, deleting, served, raced>>

\* runAttach: every shadow table is dropped and restored, one after the other.
RestoreBegins ==
    /\ job.kind = "attach" /\ job.step = "run"
    /\ shadow' = Partial
    /\ Step("restore")
    /\ UNCHANGED <<clock, schedule, tick, volume, deleting, used, served, raced>>

RestoreEnds ==
    /\ job.step = "restore"
    /\ Exists(job.name)
    /\ shadow' = job.name
    /\ Step("marker")
    /\ UNCHANGED <<clock, schedule, tick, volume, deleting, used, served, raced>>

\* Mutant: the marker is left alone when the restore fails.
RestoreFailsKeeps ==
    /\ job.step = "restore"
    /\ shadow' = 0
    /\ job' = NoJob
    /\ UNCHANGED <<clock, schedule, tick, volume, deleting, used, served, raced>>

\* The marker goes and the shadow tables are dropped; the errors of both are
\* ignored.
RestoreFails ==
    /\ job.step = "restore"
    /\ \/ attached' = 0 /\ shadow' = 0 /\ UNCHANGED used
       \/ Use("faults") /\ attached' = 0 /\ UNCHANGED shadow
       \/ Use("faults") /\ UNCHANGED attached /\ shadow' = 0
    /\ job' = NoJob
    /\ UNCHANGED <<clock, schedule, tick, disk, made, deleting, served, raced>>

\* Writing the marker or, for 0, removing it; the job ends when that fails too.
Mark(name) ==
    \/ attached' = name /\ UNCHANGED used
    \/ Use("faults") /\ UNCHANGED attached

SetAttached ==
    /\ job.step = "marker"
    /\ Mark(IF job.kind = "attach" THEN job.name ELSE 0)
    /\ job' = NoJob
    /\ UNCHANGED <<clock, schedule, tick, disk, made, shadow, deleting, served, raced>>

\* runDetach: the shadow tables are dropped, then the marker goes.
DropShadow ==
    /\ job.kind = "detach" /\ job.step = "run"
    /\ shadow' = 0
    /\ Step("marker")
    /\ UNCHANGED <<clock, schedule, tick, volume, deleting, used, served, raced>>

\* One DROP after the other, up to the one that fails.
DropStops ==
    \/ UNCHANGED <<shadow, used>>
    \/ shadow' = Partial /\ Use("faults")

DropFails ==
    /\ job.kind = "detach" /\ job.step = "run"
    /\ DropStops
    /\ job' = NoJob
    /\ UNCHANGED <<clock, schedule, tick, volume, deleting, served, raced>>

-----------------------------------------------------------------------------
(* DeleteBackup: the checks, then the files *)

DeleteCheck ==
    /\ deleting = 0
    /\ job = NoJob \/ job.step = "persist"
    /\ Use("deletes")
    /\ \E b \in disk : b.name # attached /\ deleting' = b.name
    /\ UNCHANGED <<clock, schedule, tick, job, volume, shadow, served, raced>>

Delete ==
    /\ deleting # 0
    /\ disk' = Without(deleting)
    /\ deleting' = 0
    /\ raced' = (raced \/ deleting = attached \/ (job.kind = "attach" /\ job.name = deleting))
    /\ UNCHANGED <<clock, schedule, tick, job, made, attached, shadow, used, served>>

Crash ==
    /\ Use("crashes")
    /\ lastFire' = 0 /\ tick' = 0 /\ job' = NoJob /\ deleting' = 0
    /\ UNCHANGED <<clock, enabled, last, volume, shadow, served, raced>>

Run ==
    \/ Acquire \/ NoSlot \/ BackupTables \/ BackupFails \/ AuthFails \/ WriteSource
    \/ Prune \/ Persist \/ RestoreBegins \/ RestoreEnds \/ RestoreFails
    \/ SetAttached \/ DropShadow \/ DropFails

Next ==
    \/ NewDay \/ SlotComes \/ Tick \/ Fire \/ UpdateSchedule
    \/ CreateByHand \/ Attach \/ Detach \/ Run
    \/ DeleteCheck \/ Delete \/ Crash

Spec == Init /\ [][Next]_vars

\* The minute ticker and the goroutine of the job run, and a BACKUP that is
\* tried again and again succeeds at last.
Fairness ==
    /\ WF_vars(Tick) /\ WF_vars(Fire)
    /\ WF_vars(Run)
    /\ SF_vars(BackupTables)

FairSpec == Spec /\ Fairness

-----------------------------------------------------------------------------
(* Properties *)

\* The backup whose data the map shows is on the volume: neither the retention
\* policy nor DeleteBackup removes an attached backup, unless an attach has
\* overlapped the deletion of the same backup.
AttachedOnDisk == attached # 0 /\ ~raced => \E b \in disk : b.name = attached

\* As long as no DROP stops half-way, no write of the marker fails and the
\* process is not restarted, the marker names the backup whose data the shadow
\* tables hold, whatever restores fail.
MarkerTruthful ==
    used.faults = 0 /\ used.crashes = 0 /\ job = NoJob /\ attached # 0 => shadow = attached

\* The schedule fires until there is an automatic backup of the day: the runs
\* fired for a date make one at most.
OncePerDay == \A d \in 1 .. Days : served[d] <= 1

\* The same for a day on which nothing was pruned or deleted, no write failed,
\* the schedule was left alone and the process was not restarted, however many
\* ticks pass, runs fail and jobs by hand get in between.  It is stated of the
\* first day: a run that crosses midnight is not of one day.
OncePerQuietDay ==
    /\ day = 1
    /\ Cardinality(disk) = made
    /\ used.faults = 0 /\ used.updates = 0 /\ used.crashes = 0
    => served[1] <= 1

\* A missed slot is caught up with: when the slot of the last day has come, a
\* run for that day makes a backup or one of that day is there already, or the
\* schedule changes, or a run has not got the heavy slot.
DayIsServed ==
    (day = Days /\ due /\ enabled)
        ~> \/ served[Days] > 0
           \/ \E b \in disk : b.source = "schedule" /\ b.day = Days
           \/ ~enabled \/ ~due
           \/ used.slots > 0
=============================================================================
