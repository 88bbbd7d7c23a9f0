---------------------------- MODULE Backup_proofs ----------------------------
(***************************************************************************)
(* The attached backup, its marker and its shadow tables, and the schedule *)
(* on an undisturbed day, for any number of days, jobs and disturbances    *)
(* and any retention.                                                      *)
(***************************************************************************)
EXTENDS Backup, TLAPS, FiniteSetTheorems

Kinds == {"none", "create", "attach", "detach"}

Steps == {"idle", "acquire", "run", "mark", "prune", "persist", "restore", "marker"}

Sources == {"none", "manual", "schedule"}

Bounds == {"manual", "deletes", "updates", "faults", "slots", "crashes"}

\* The steps are those of the kind, and an idle job is none.
JobTypes ==
    /\ job \in [kind : Kinds, step : Steps, source : Sources, name : Nat, date : Nat]
    /\ job.step \in {"mark", "prune", "persist"} => job.kind = "create"
    /\ job.step = "restore" => job.kind = "attach"
    /\ job.step = "marker" => job.kind \in {"attach", "detach"}
    /\ job.step = "idle" <=> job = NoJob
    /\ job.kind = "none" => job = NoJob
    /\ job.source = "schedule" => job.date \in 1 .. day

\* No backup is of a later day than today, and names grow.
VolumeTypes ==
    /\ made \in Nat
    /\ disk \subseteq [name : 1 .. made, day : 1 .. day, source : Sources]
    /\ IsFiniteSet(disk)
    /\ Cardinality(disk) <= made
    /\ attached \in Nat /\ deleting \in Nat

ScheduleTypes ==
    /\ day \in 1 .. Days
    /\ last \in 0 .. day /\ lastFire \in 0 .. day /\ tick \in 0 .. day
    /\ used \in [Bounds -> Nat]
    /\ served \in [1 .. Days -> Nat]

BackupTypes == JobTypes /\ VolumeTypes /\ ScheduleTypes

\* The backup that is being attached is on the volume.
AttachingOnDisk == job.kind = "attach" /\ ~raced => Exists(job.name)

\* The shadow tables while a job works on them: the marker is behind only
\* between the restore, or the drop, and its own change.
ShadowKnown ==
    used.faults = 0 /\ used.crashes = 0 =>
        /\ job.step \notin {"restore", "marker"} => attached = 0 \/ shadow = attached
        /\ job.step = "marker" /\ job.kind = "attach" => shadow = job.name

\* The backup a job has just made says nothing yet of what asked for it.
NewIsUnmarked ==
    job.step = "mark" => \A b \in disk : b.name = job.name => b.source = "none"

Quiet ==
    /\ day = 1
    /\ Cardinality(disk) = made
    /\ used.faults = 0 /\ used.updates = 0 /\ used.crashes = 0

Scheduled == \E b \in disk : b.source = "schedule"

\* The schedule on a quiet first day: the date in memory stands from the start
\* of the run until the day is over, and the backup keeps the date of the file.
QuietSchedule ==
    Quiet =>
        /\ served[1] <= 1
        /\ served[1] = 1 => lastFire = 1 /\ Scheduled
        /\ last # 0 => served[1] = 1
        /\ job.source = "schedule" /\ job.step \in {"acquire", "run", "mark"} =>
              lastFire = 1 /\ served[1] = 0
        /\ job.source = "schedule" /\ job.step \in {"prune", "persist"} => served[1] = 1

BackupInv ==
    /\ BackupTypes
    /\ AttachedOnDisk /\ AttachingOnDisk
    /\ ShadowKnown
    /\ NewIsUnmarked /\ QuietSchedule

\* A fresh volume and an idle service.
LEMMA InitBackupInv == Init => BackupInv
<1> SUFFICES ASSUME Init
             PROVE  BackupInv
  OBVIOUS
<1> USE BackupAssumption DEF Init
<1>1. JobTypes
  BY DEF JobTypes, NoJob, Kinds, Steps, Sources
<1>2. VolumeTypes
  <2>1. IsFiniteSet(disk) /\ Cardinality(disk) = 0
    BY FS_EmptySet
  <2>2. QED
    BY <2>1 DEF VolumeTypes
<1>3. ScheduleTypes
  BY DEF ScheduleTypes, NoneUsed, Bounds
<1>4. AttachedOnDisk /\ AttachingOnDisk /\ ShadowKnown /\ NewIsUnmarked /\ QuietSchedule
  BY DEF AttachedOnDisk, AttachingOnDisk, ShadowKnown, NewIsUnmarked, QuietSchedule, NoJob
<1>5. QED
  BY <1>1, <1>2, <1>3, <1>4 DEF BackupInv, BackupTypes

\* Using one of the bounds counts it and leaves the others.
LEMMA UseCounts ==
    ASSUME used \in [Bounds -> Nat], NEW w \in Bounds, Use(w)
    PROVE  /\ used' \in [Bounds -> Nat]
           /\ used'[w] # 0
           /\ \A v \in Bounds \ {w} : used'[v] = used[v]
<1>1. used' = [used EXCEPT ![w] = @ + 1]
  BY DEF Use
<1>2. QED
  BY <1>1

\* Rewriting the source files changes no name and no day and adds no backup.
LEMMA SourcedKeeps ==
    ASSUME VolumeTypes, ScheduleTypes, NEW name \in Nat, NEW source \in Sources
    PROVE  /\ Sourced(name, source) \subseteq [name : 1 .. made, day : 1 .. day, source : Sources]
           /\ IsFiniteSet(Sourced(name, source))
           /\ Cardinality(Sourced(name, source)) <= Cardinality(disk)
           /\ \A b \in disk : \E c \in Sourced(name, source) :
                 /\ c.name = b.name
                 /\ c.source = IF b.name = name THEN source ELSE b.source
<1> DEFINE R == [name : 1 .. made, day : 1 .. day, source : Sources]
           New(b) == IF b.name = name THEN [b EXCEPT !.source = source] ELSE b
           f == [b \in disk |-> New(b)]
<1>1. \A b \in disk : /\ New(b) \in R
                      /\ New(b).name = b.name
                      /\ New(b).source = IF b.name = name THEN source ELSE b.source
  BY DEF VolumeTypes
<1>2. Sourced(name, source) = {New(b) : b \in disk}
  BY DEF Sourced
<1>3. f \in Surjection(disk, Sourced(name, source))
  <2> HIDE DEF New
  <2> QED
    BY <1>2 DEF Surjection
<1>4. /\ IsFiniteSet(Sourced(name, source))
      /\ Cardinality(Sourced(name, source)) <= Cardinality(disk)
  BY <1>3, FS_Surjection DEF VolumeTypes
<1> HIDE DEF New
<1>5. QED
  BY <1>1, <1>2, <1>4

\* A name is on the volume after a rewrite of the source files when it was.
LEMMA SourcedExists ==
    ASSUME VolumeTypes, ScheduleTypes, NEW name \in Nat, NEW source \in Sources,
           disk' = Sourced(name, source), NEW n, Exists(n)
    PROVE  Exists(n)'
<1>1. PICK b \in disk : b.name = n
  BY DEF Exists
<1>2. PICK c \in Sourced(name, source) : c.name = b.name
  BY SourcedKeeps
<1>3. QED
  BY <1>1, <1>2 DEF Exists

\* Erasing backups leaves a set of the same type that is no larger.
LEMMA ErasedKeeps ==
    ASSUME VolumeTypes, NEW D \in SUBSET disk
    PROVE  /\ D \subseteq [name : 1 .. made, day : 1 .. day, source : Sources]
           /\ IsFiniteSet(D)
           /\ Cardinality(D) <= made
           /\ Cardinality(D) = made => D = disk /\ Cardinality(disk) = made
<1>1. /\ IsFiniteSet(D)
      /\ Cardinality(D) <= Cardinality(disk)
      /\ Cardinality(D) = Cardinality(disk) => D = disk
  BY FS_Subset DEF VolumeTypes
<1>2. Cardinality(D) \in Nat /\ Cardinality(disk) \in Nat
  BY <1>1, FS_CardinalityType DEF VolumeTypes
<1>3. QED
  BY <1>1, <1>2 DEF VolumeTypes

\* A new backup has a name that none had before.
LEMMA AddedIsNew ==
    ASSUME VolumeTypes, ScheduleTypes, NEW b, b = [name |-> made + 1, day |-> day, source |-> "none"]
    PROVE  /\ disk \cup {b} \subseteq [name : 1 .. made + 1, day : 1 .. day, source : Sources]
           /\ IsFiniteSet(disk \cup {b})
           /\ Cardinality(disk \cup {b}) = Cardinality(disk) + 1
           /\ Cardinality(disk) \in Nat
<1>1. b \notin disk
  BY DEF VolumeTypes
<1>2. /\ IsFiniteSet(disk \cup {b})
      /\ Cardinality(disk \cup {b}) = Cardinality(disk) + 1
  BY <1>1, FS_AddElement DEF VolumeTypes
<1>3. b \in [name : 1 .. made + 1, day : 1 .. day, source : Sources]
  BY DEF VolumeTypes, ScheduleTypes, Sources
<1>4. \A c \in disk : c \in [name : 1 .. made + 1, day : 1 .. day, source : Sources]
  BY DEF VolumeTypes
<1>5. QED
  BY <1>2, <1>3, <1>4, FS_CardinalityType DEF VolumeTypes

\* The typed job under a new job, a new step of the same job, and none.
LEMMA JobStarts ==
    ASSUME ScheduleTypes, day' = day, NEW kind \in Kinds \ {"none"}, NEW source \in Sources,
           NEW name \in Nat, NEW date \in Nat,
           source = "schedule" => date \in 1 .. day,
           Start(kind, source, name, date)
    PROVE  JobTypes'
BY DEF Start, JobTypes, NoJob, Kinds, Steps, Sources

LEMMA JobMoves ==
    ASSUME JobTypes, ScheduleTypes, day' = day, NEW s \in Steps \ {"idle"}, job.step # "idle", Step(s),
           s \in {"mark", "prune", "persist"} => job.kind = "create",
           s = "restore" => job.kind = "attach",
           s = "marker" => job.kind \in {"attach", "detach"}
    PROVE  /\ JobTypes'
           /\ job'.step = s /\ job'.kind = job.kind /\ job'.name = job.name
           /\ job'.source = job.source /\ job'.date = job.date
<1>1. job' = [kind |-> job.kind, step |-> s, source |-> job.source, name |-> job.name,
              date |-> job.date]
  BY DEF Step, JobTypes
<1>2. QED
  BY <1>1 DEF JobTypes, NoJob, Kinds, Steps, Sources

LEMMA JobEnds ==
    ASSUME job' = NoJob
    PROVE  JobTypes'
BY DEF JobTypes, NoJob, Kinds, Steps, Sources

\* What a step leaves alone keeps its types.
LEMMA SameJob == JobTypes /\ UNCHANGED <<job, day>> => JobTypes'
BY DEF JobTypes, NoJob

LEMMA SameVolume ==
    VolumeTypes /\ UNCHANGED <<volume, deleting, day>> => VolumeTypes'
BY DEF VolumeTypes, volume

LEMMA SameSchedule ==
    ASSUME ScheduleTypes, UNCHANGED <<day, served>>,
           last' \in {last, 0, day}, lastFire' \in {lastFire, 0, day}, tick' \in {tick, 0, day},
           used' \in [Bounds -> Nat]
    PROVE  ScheduleTypes'
BY DEF ScheduleTypes

\* Reading the schedule keeps its dates or takes them back.
LEMMA ReadsSchedule ==
    ScheduleTypes => LastRun \in {last, 0} /\ FireDate \in {lastFire, 0}
BY DEF LastRun, FireDate

\* Every step keeps the types.
LEMMA BackupTypeStep == BackupTypes /\ [Next]_vars => BackupTypes'
<1> SUFFICES ASSUME BackupTypes, [Next]_vars
             PROVE  BackupTypes'
  OBVIOUS
<1>t. JobTypes /\ VolumeTypes /\ ScheduleTypes
  BY DEF BackupTypes
<1>g. LastRun \in {last, 0} /\ FireDate \in {lastFire, 0}
  BY <1>t, ReadsSchedule
<1>u. used \in [Bounds -> Nat]
  BY <1>t DEF ScheduleTypes
<1> USE DEF clock, schedule
<1>1. CASE NewDay
  <2>1. JobTypes'
    BY <1>1, <1>t DEF NewDay, JobTypes, ScheduleTypes, NoJob
  <2>2. VolumeTypes'
    <3> DEFINE New == [name : 1 .. made, day : 1 .. day', source : Sources]
    <3>1. disk \subseteq New
      BY <1>1, <1>t DEF NewDay, VolumeTypes, ScheduleTypes
    <3> HIDE DEF New
    <3>2. UNCHANGED <<disk, made, attached, deleting>>
      BY <1>1 DEF NewDay, volume
    <3>3. QED
      BY <3>1, <3>2, <1>t DEF VolumeTypes, New
  <2>3. ScheduleTypes'
    BY <1>1, <1>t, BackupAssumption DEF NewDay, ScheduleTypes
  <2>4. QED
    BY <2>1, <2>2, <2>3 DEF BackupTypes
<1>2. CASE SlotComes
  BY <1>2, <1>t, <1>u, SameJob, SameVolume, SameSchedule DEF SlotComes, BackupTypes
<1>3. CASE Tick
  <2>1. ScheduleTypes'
    BY <1>3, <1>t, <1>u, <1>g, SameSchedule DEF Tick, GetSchedule
  <2>2. QED
    BY <1>3, <1>t, <2>1, SameJob, SameVolume DEF Tick, BackupTypes
<1>4. CASE Fire
  <2>1. ScheduleTypes'
    BY <1>4, <1>t DEF Fire, ScheduleTypes
  <2>2. JobTypes'
    <3>1. CASE UNCHANGED job
      BY <1>4, <1>t, <3>1, SameJob DEF Fire
    <3>2. CASE Start("create", "schedule", 0, tick)
      BY <1>4, <1>t, <3>2, JobStarts DEF Fire, ScheduleTypes, Kinds, Sources
    <3>3. QED
      BY <1>4, <3>1, <3>2 DEF Fire
  <2>3. QED
    BY <1>4, <1>t, <2>1, <2>2, SameVolume DEF Fire, BackupTypes
<1>5. CASE UpdateSchedule
  <2>1. used' \in [Bounds -> Nat]
    BY <1>5, <1>u, UseCounts DEF UpdateSchedule, Bounds
  <2>2. ScheduleTypes'
    BY <1>5, <1>t, <1>g, <2>1, SameSchedule DEF UpdateSchedule, GetSchedule
  <2>3. QED
    BY <1>5, <1>t, <2>2, SameJob, SameVolume DEF UpdateSchedule, BackupTypes
<1>6. CASE CreateByHand \/ Attach \/ Detach
  <2>1. used' \in [Bounds -> Nat]
    BY <1>6, <1>u, UseCounts DEF CreateByHand, Attach, Detach, Bounds
  <2>2. ScheduleTypes'
    BY <1>6, <1>t, <2>1, SameSchedule DEF CreateByHand, Attach, Detach
  <2>3. ASSUME CreateByHand PROVE JobTypes'
    BY <2>3, <1>t, JobStarts DEF CreateByHand, Kinds, Sources
  <2>4. ASSUME Attach PROVE JobTypes'
    <3>1. PICK b \in disk : Start("attach", "none", b.name, 0)
      BY <2>4 DEF Attach
    <3>2. b.name \in Nat
      BY <1>t DEF VolumeTypes
    <3>3. day' = day
      BY <2>4 DEF Attach
    <3>4. QED
      BY <3>1, <3>2, <3>3, <1>t, JobStarts DEF Kinds, Sources
  <2>5. ASSUME Detach PROVE JobTypes'
    BY <2>5, <1>t, JobStarts DEF Detach, Kinds, Sources, VolumeTypes
  <2>6. JobTypes'
    BY <1>6, <2>3, <2>4, <2>5
  <2>7. QED
    BY <1>6, <1>t, <2>2, <2>6, SameVolume DEF CreateByHand, Attach, Detach, BackupTypes
<1>7. CASE Acquire
  <2>1. JobTypes'
    BY <1>7, <1>t, JobMoves DEF Acquire, Steps
  <2>2. QED
    BY <1>7, <1>t, <1>u, <2>1, SameVolume, SameSchedule DEF Acquire, BackupTypes
<1>8. CASE NoSlot
  <2>1. used' \in [Bounds -> Nat]
    BY <1>8, <1>u, UseCounts DEF NoSlot, Bounds
  <2>2. QED
    BY <1>8, <1>t, <2>1, JobEnds, SameVolume, SameSchedule DEF NoSlot, BackupTypes
<1>9. CASE BackupTables
  <2>1. job' = [job EXCEPT !.step = "mark", !.name = made + 1]
    BY <1>9 DEF BackupTables
  <2>2. JobTypes'
    <3>1. job' = [kind |-> "create", step |-> "mark", source |-> job.source,
                  name |-> made + 1, date |-> job.date]
      BY <1>9, <1>t, <2>1 DEF BackupTables, JobTypes
    <3>2. QED
      BY <1>9, <1>t, <3>1 DEF BackupTables, JobTypes, VolumeTypes, NoJob, Kinds, Steps, Sources
  <2>3. VolumeTypes'
    <3>1. PICK b : b = [name |-> made + 1, day |-> day, source |-> "none"]
      OBVIOUS
    <3>2. disk' = disk \cup {b} /\ made' = made + 1
      BY <1>9, <3>1 DEF BackupTables, BackedUp
    <3>3. /\ disk \cup {b} \subseteq [name : 1 .. made + 1, day : 1 .. day, source : Sources]
          /\ IsFiniteSet(disk \cup {b})
          /\ Cardinality(disk \cup {b}) = Cardinality(disk) + 1
          /\ Cardinality(disk) \in Nat
      BY <3>1, <1>t, AddedIsNew
    <3>4. QED
      BY <1>9, <1>t, <3>2, <3>3 DEF BackupTables, VolumeTypes
  <2>4. ScheduleTypes'
    BY <1>9, <1>t, <1>u, <1>g, SameSchedule DEF BackupTables, GetSchedule
  <2>5. QED
    BY <2>2, <2>3, <2>4 DEF BackupTypes
<1>10. CASE BackupFails
  <2>1. ScheduleTypes'
    BY <1>10, <1>t, <1>u, <1>g, SameSchedule DEF BackupFails, Failed
  <2>2. QED
    BY <1>10, <1>t, <2>1, JobEnds, SameVolume DEF BackupFails, Failed, BackupTypes
<1>11. CASE AuthFails
  <2>1. used' \in [Bounds -> Nat]
    BY <1>11, <1>u, UseCounts DEF AuthFails, Bounds
  <2>2. ScheduleTypes'
    BY <1>11, <1>t, <2>1, SameSchedule DEF AuthFails, Failed
  <2>3. QED
    BY <1>11, <1>t, <2>2, JobEnds, SameVolume DEF AuthFails, Failed, BackupTypes
<1>12. CASE WriteSource
  <2>1. used' \in [Bounds -> Nat]
    BY <1>12, <1>u, UseCounts DEF WriteSource, Bounds
  <2>2. JobTypes'
    BY <1>12, <1>t, JobMoves DEF WriteSource, Steps
  <2>3. served' \in [1 .. Days -> Nat]
    <3>1. CASE job.source = "schedule"
      <4>1. job.date \in 1 .. Days
        BY <3>1, <1>t, BackupAssumption DEF JobTypes, ScheduleTypes
      <4>2. served' = [served EXCEPT ![job.date] = @ + 1]
        BY <1>12, <3>1 DEF WriteSource
      <4>3. QED
        BY <1>t, <4>1, <4>2 DEF ScheduleTypes
    <3>2. QED
      BY <1>12, <1>t, <3>1 DEF WriteSource, ScheduleTypes
  <2>4. ScheduleTypes'
    BY <1>12, <1>t, <2>1, <2>3 DEF WriteSource, ScheduleTypes
  <2>5. VolumeTypes'
    <3>1. CASE UNCHANGED disk
      BY <1>12, <1>t, <3>1, SameVolume DEF WriteSource, volume
    <3>2. CASE disk' = Sourced(job.name, job.source)
      <4>1. /\ disk' \subseteq [name : 1 .. made, day : 1 .. day, source : Sources]
            /\ IsFiniteSet(disk')
            /\ Cardinality(disk') <= Cardinality(disk)
        BY <1>t, <3>2, SourcedKeeps DEF JobTypes
      <4>2. Cardinality(disk) \in Nat /\ Cardinality(disk') \in Nat
        BY <4>1, <1>t, FS_CardinalityType DEF VolumeTypes
      <4>3. QED
        BY <1>12, <1>t, <4>1, <4>2 DEF WriteSource, VolumeTypes
    <3>3. QED
      BY <1>12, <3>1, <3>2 DEF WriteSource
  <2>6. QED
    BY <2>2, <2>4, <2>5 DEF BackupTypes
<1>13. CASE Prune
  <2>1. used' \in [Bounds -> Nat]
    BY <1>13, <1>u, UseCounts DEF Prune, Bounds
  <2>2. JobTypes'
    <3>1. job.kind = "create"
      BY <1>13, <1>t DEF Prune, JobTypes
    <3>2. QED
      BY <1>13, <1>t, <3>1, JobMoves DEF Prune, Steps
  <2>3. disk' \in SUBSET disk
    BY <1>13 DEF Prune, Kept
  <2>4. VolumeTypes'
    BY <1>13, <1>t, <2>3, ErasedKeeps DEF Prune, VolumeTypes
  <2>5. QED
    BY <1>13, <1>t, <2>1, <2>2, <2>4, SameSchedule DEF Prune, BackupTypes
<1>14. CASE Persist
  <2>1. used' \in [Bounds -> Nat]
    BY <1>14, <1>u, UseCounts DEF Persist, Bounds
  <2>2. ScheduleTypes'
    BY <1>14, <1>t, <1>g, <2>1, SameSchedule DEF Persist, GetSchedule
  <2>3. QED
    BY <1>14, <1>t, <2>2, JobEnds, SameVolume DEF Persist, BackupTypes
<1>15. CASE RestoreBegins
  <2>1. JobTypes'
    BY <1>15, <1>t, JobMoves DEF RestoreBegins, Steps
  <2>2. QED
    BY <1>15, <1>t, <1>u, <2>1, SameVolume, SameSchedule DEF RestoreBegins, BackupTypes
<1>16. CASE RestoreEnds
  <2>1. JobTypes'
    <3>1. job.kind = "attach"
      BY <1>16, <1>t DEF RestoreEnds, JobTypes
    <3>2. QED
      BY <1>16, <1>t, <3>1, JobMoves DEF RestoreEnds, Steps
  <2>2. QED
    BY <1>16, <1>t, <1>u, <2>1, SameVolume, SameSchedule DEF RestoreEnds, BackupTypes
<1>17. CASE RestoreFails \/ SetAttached
  <2>1. used' \in [Bounds -> Nat]
    BY <1>17, <1>u, UseCounts DEF RestoreFails, SetAttached, Mark, Bounds
  <2>2. JobTypes'
    BY <1>17, JobEnds DEF RestoreFails, SetAttached
  <2>3. attached' \in Nat
    BY <1>17, <1>t DEF RestoreFails, SetAttached, Mark, VolumeTypes, JobTypes
  <2>4. VolumeTypes'
    BY <1>17, <1>t, <2>3 DEF RestoreFails, SetAttached, VolumeTypes
  <2>5. ScheduleTypes'
    BY <1>17, <1>t, <2>1, SameSchedule DEF RestoreFails, SetAttached
  <2>6. QED
    BY <2>2, <2>4, <2>5 DEF BackupTypes
<1>18. CASE DropShadow
  <2>1. JobTypes'
    BY <1>18, <1>t, JobMoves DEF DropShadow, Steps
  <2>2. QED
    BY <1>18, <1>t, <1>u, <2>1, SameVolume, SameSchedule DEF DropShadow, BackupTypes
<1>19. CASE DropFails
  <2>1. used' \in [Bounds -> Nat]
    BY <1>19, <1>u, UseCounts DEF DropFails, DropStops, Bounds
  <2>2. QED
    BY <1>19, <1>t, <2>1, JobEnds, SameVolume, SameSchedule DEF DropFails, BackupTypes
<1>20. CASE DeleteCheck
  <2>1. used' \in [Bounds -> Nat]
    BY <1>20, <1>u, UseCounts DEF DeleteCheck, Bounds
  <2>2. deleting' \in Nat
    BY <1>20, <1>t DEF DeleteCheck, VolumeTypes
  <2>3. VolumeTypes'
    BY <1>20, <1>t, <2>2 DEF DeleteCheck, VolumeTypes, volume
  <2>4. QED
    BY <1>20, <1>t, <2>1, <2>3, SameJob, SameSchedule DEF DeleteCheck, BackupTypes
<1>21. CASE Delete
  <2>1. disk' \in SUBSET disk
    BY <1>21 DEF Delete, Without
  <2>2. VolumeTypes'
    BY <1>21, <1>t, <2>1, ErasedKeeps DEF Delete, VolumeTypes
  <2>3. QED
    BY <1>21, <1>t, <1>u, <2>2, SameJob, SameSchedule DEF Delete, BackupTypes
<1>22. CASE Crash
  <2>1. used' \in [Bounds -> Nat]
    BY <1>22, <1>u, UseCounts DEF Crash, Bounds
  <2>2. VolumeTypes'
    BY <1>22, <1>t DEF Crash, VolumeTypes, volume
  <2>3. QED
    BY <1>22, <1>t, <2>1, <2>2, JobEnds, SameSchedule DEF Crash, BackupTypes
<1>23. CASE UNCHANGED vars
  BY <1>23, <1>t, <1>u, SameJob, SameVolume, SameSchedule DEF vars, volume, BackupTypes
<1>24. QED
  BY <1>1, <1>2, <1>3, <1>4, <1>5, <1>6, <1>7, <1>8, <1>9, <1>10, <1>11, <1>12, <1>13,
     <1>14, <1>15, <1>16, <1>17, <1>18, <1>19, <1>20, <1>21, <1>22, <1>23
     DEF Next, Run

\* A backup that is attached, or being attached, stays on the volume: the
\* retention spares the first and runs in another job than the second.
LEMMA AttachedStep ==
    BackupTypes /\ AttachedOnDisk /\ AttachingOnDisk /\ [Next]_vars
        => AttachedOnDisk' /\ AttachingOnDisk'
<1> SUFFICES ASSUME BackupTypes, AttachedOnDisk, AttachingOnDisk, [Next]_vars
             PROVE  AttachedOnDisk' /\ AttachingOnDisk'
  OBVIOUS
<1>t. JobTypes /\ VolumeTypes /\ ScheduleTypes
  BY DEF BackupTypes
<1>a. attached # 0 /\ ~raced => Exists(attached)
  BY DEF AttachedOnDisk, Exists
<1>e. AttachedOnDisk' <=> (attached' # 0 /\ ~raced' => \E b \in disk' : b.name = attached')
  BY DEF AttachedOnDisk
<1>f. AttachingOnDisk' <=>
        (job'.kind = "attach" /\ ~raced' => \E b \in disk' : b.name = job'.name)
  BY DEF AttachingOnDisk, Exists
<1>k. ASSUME UNCHANGED <<disk, attached, raced>>
      PROVE  AttachedOnDisk'
  BY <1>k, <1>e DEF AttachedOnDisk
<1>n. ASSUME UNCHANGED <<disk, raced>>,
             job'.kind = "attach" => job.kind = "attach" /\ job'.name = job.name
      PROVE  AttachingOnDisk'
  BY <1>n, <1>f DEF AttachingOnDisk, Exists
<1>c. ASSUME job.kind # "attach", job'.kind = job.kind
      PROVE  AttachingOnDisk'
  BY <1>c, <1>f
<1>i. ASSUME job' = NoJob
      PROVE  AttachingOnDisk'
  BY <1>i, <1>f DEF NoJob
<1>s. ASSUME NEW s, Step(s)
      PROVE  job'.kind = job.kind /\ job'.name = job.name
  BY <1>s, <1>t DEF Step, JobTypes
<1> USE DEF volume
<1>1. CASE NewDay \/ SlotComes \/ Tick \/ UpdateSchedule \/ DeleteCheck
  BY <1>1, <1>k, <1>n DEF NewDay, SlotComes, Tick, UpdateSchedule, DeleteCheck
<1>2. CASE Fire \/ CreateByHand \/ Detach
  <2>1. job'.kind # "attach" \/ job' = job
    BY <1>2 DEF Fire, CreateByHand, Detach, Start
  <2>2. QED
    BY <1>2, <2>1, <1>k, <1>n DEF Fire, CreateByHand, Detach
<1>3. CASE Attach
  <2>1. PICK b \in disk : Start("attach", "none", b.name, 0)
    BY <1>3 DEF Attach
  <2>2. job'.name = b.name
    BY <2>1 DEF Start
  <2>3. QED
    BY <1>3, <2>2, <1>k, <1>f DEF Attach
<1>4. CASE Acquire \/ RestoreBegins \/ RestoreEnds \/ DropShadow
  BY <1>4, <1>k, <1>n, <1>s DEF Acquire, RestoreBegins, RestoreEnds, DropShadow
<1>5. CASE NoSlot \/ BackupFails \/ AuthFails \/ Persist \/ DropFails
  BY <1>5, <1>k, <1>i DEF NoSlot, BackupFails, AuthFails, Failed, Persist, DropFails
<1>6. CASE BackupTables
  <2>1. disk \subseteq disk' /\ UNCHANGED <<attached, raced>>
    BY <1>6 DEF BackupTables, BackedUp
  <2>2. job.kind # "attach" /\ job'.kind = job.kind
    BY <1>6, <1>t DEF BackupTables, JobTypes
  <2>3. QED
    BY <2>1, <2>2, <1>a, <1>e, <1>c DEF Exists
<1>7. CASE WriteSource
  <2>1. Exists(attached) => Exists(attached)'
    <3>1. CASE UNCHANGED disk
      BY <1>7, <3>1 DEF WriteSource, Exists
    <3>2. CASE disk' = Sourced(job.name, job.source)
      <4>1. job.name \in Nat /\ job.source \in Sources
        BY <1>t DEF JobTypes
      <4>2. Exists(attached) => \E c \in Sourced(job.name, job.source) : c.name = attached
        BY <4>1, <1>t, SourcedKeeps DEF Exists
      <4>3. QED
        BY <1>7, <3>2, <4>2 DEF WriteSource, Exists
    <3>3. QED
      BY <1>7, <3>1, <3>2 DEF WriteSource
  <2>2. AttachedOnDisk'
    BY <1>7, <2>1, <1>a, <1>e DEF WriteSource, Exists
  <2>3. job.kind # "attach" /\ job'.kind = job.kind
    BY <1>7, <1>s DEF WriteSource
  <2>4. QED
    BY <2>2, <2>3, <1>c
<1>8. CASE Prune
  <2>1. \A b \in disk : b.name = attached => b \in disk'
    BY <1>8 DEF Prune, Kept
  <2>2. UNCHANGED <<attached, raced>>
    BY <1>8 DEF Prune
  <2>3. job.kind # "attach" /\ job'.kind = job.kind
    BY <1>8, <1>s, <1>t DEF Prune, JobTypes
  <2>4. QED
    BY <2>1, <2>2, <2>3, <1>a, <1>e, <1>c DEF Exists
<1>9. CASE RestoreFails
  <2>1. attached' \in {0, attached} /\ UNCHANGED <<disk, raced>>
    BY <1>9 DEF RestoreFails
  <2>2. QED
    BY <1>9, <2>1, <1>a, <1>e, <1>i DEF RestoreFails, Exists
<1>10. CASE SetAttached
  <2>1. job.kind = "attach" /\ ~raced => Exists(job.name)
    BY DEF AttachingOnDisk
  <2>2. attached' \in {0, attached} \/ (job.kind = "attach" /\ attached' = job.name)
    BY <1>10 DEF SetAttached, Mark
  <2>3. QED
    BY <1>10, <2>1, <2>2, <1>a, <1>e, <1>i DEF SetAttached, Exists
<1>11. CASE Delete
  <2>1. \A b \in disk : b.name # deleting => b \in disk'
    BY <1>11 DEF Delete, Without
  <2>2. ~raced' => /\ ~raced /\ deleting # attached
                   /\ job.kind = "attach" => job.name # deleting
    BY <1>11 DEF Delete
  <2>3. UNCHANGED <<attached, job>>
    BY <1>11 DEF Delete
  <2>4. AttachedOnDisk'
    BY <2>1, <2>2, <2>3, <1>a, <1>e DEF Exists
  <2>5. AttachingOnDisk'
    BY <2>1, <2>2, <2>3, <1>f DEF AttachingOnDisk, Exists
  <2>6. QED
    BY <2>4, <2>5
<1>12. CASE Crash
  BY <1>12, <1>k, <1>i DEF Crash
<1>13. CASE UNCHANGED vars
  BY <1>13, <1>k, <1>n DEF vars
<1>14. QED
  BY <1>1, <1>2, <1>3, <1>4, <1>5, <1>6, <1>7, <1>8, <1>9, <1>10, <1>11, <1>12, <1>13
     DEF Next, Run

\* A count of failures or restarts that is zero was zero before, and a step
\* that uses one leaves it above zero.
LEMMA Undisturbed ==
    ASSUME BackupTypes, [Next]_vars
    PROVE  /\ \A v \in {"faults", "updates", "crashes"} : used'[v] = 0 => used[v] = 0
           /\ \A v \in {"faults", "updates", "crashes"} : used'[v] = 0 => ~Use(v)
<1>1. used \in [Bounds -> Nat]
  BY DEF BackupTypes, ScheduleTypes
<1>2. ASSUME NEW w \in Bounds, Use(w)
      PROVE  \A v \in Bounds : used'[v] = 0 => used[v] = 0
  BY <1>1, <1>2, UseCounts
<1>3. UNCHANGED used \/ \E w \in Bounds : Use(w)
  <2> DEFINE Counts == \E w \in Bounds : Use(w)
  <2>1. \A w \in Bounds : Use(w) => Counts
    OBVIOUS
  <2>2. /\ "manual" \in Bounds /\ "deletes" \in Bounds /\ "updates" \in Bounds
        /\ "faults" \in Bounds /\ "slots" \in Bounds /\ "crashes" \in Bounds
    BY DEF Bounds
  <2> HIDE DEF Counts
  <2>3. CASE NewDay \/ SlotComes \/ Tick \/ Fire \/ UpdateSchedule \/ CreateByHand \/ Attach
               \/ Detach \/ DeleteCheck \/ Delete \/ Crash
    BY <2>1, <2>2, <2>3 DEF NewDay, SlotComes, Tick, Fire, UpdateSchedule, CreateByHand,
       Attach, Detach, DeleteCheck, Delete, Crash
  <2>4. CASE Run
    BY <2>1, <2>2, <2>4 DEF Run, Acquire, NoSlot, BackupTables, BackupFails, AuthFails,
       WriteSource, Prune, Persist, RestoreBegins, RestoreEnds, RestoreFails, SetAttached,
       Mark, DropShadow, DropFails, DropStops
  <2>5. CASE UNCHANGED vars
    BY <2>5 DEF vars
  <2>6. QED
    BY <2>3, <2>4, <2>5 DEF Next, Counts
<1>4. \A v \in Bounds : used'[v] = 0 => used[v] = 0
  BY <1>2, <1>3
<1>5. \A v \in Bounds : Use(v) => used'[v] # 0
  BY <1>1, UseCounts
<1>6. QED
  BY <1>4, <1>5 DEF Bounds

\* While no DROP stops half-way, no write of the marker fails and the process
\* is not restarted, the shadow tables are behind the marker only inside a job.
LEMMA ShadowStep == BackupTypes /\ ShadowKnown /\ [Next]_vars => ShadowKnown'
<1> SUFFICES ASSUME BackupTypes, ShadowKnown, [Next]_vars,
                    used'["faults"] = 0, used'["crashes"] = 0
             PROVE  /\ job'.step \notin {"restore", "marker"} => attached' = 0 \/ shadow' = attached'
                    /\ job'.step = "marker" /\ job'.kind = "attach" => shadow' = job'.name
  BY DEF ShadowKnown
<1>t. JobTypes /\ VolumeTypes
  BY DEF BackupTypes
<1>u. used["faults"] = 0 /\ used["crashes"] = 0 /\ ~Use("faults") /\ ~Use("crashes")
  BY Undisturbed
<1>h. /\ job.step \notin {"restore", "marker"} => attached = 0 \/ shadow = attached
      /\ job.step = "marker" /\ job.kind = "attach" => shadow = job.name
  BY <1>u DEF ShadowKnown
<1>s. ASSUME NEW s \in Steps, Step(s)
      PROVE  job'.step = s /\ job'.kind = job.kind /\ job'.name = job.name
  BY <1>s, <1>t DEF Step, JobTypes
<1>i. ASSUME NEW kind, NEW source, NEW name, NEW date, Start(kind, source, name, date)
      PROVE  job.step = "idle" /\ job'.step = "acquire"
  BY <1>i DEF Start, NoJob
<1>n. NoJob.step = "idle" /\ NoJob.kind = "none"
  BY DEF NoJob
<1> USE DEF volume
<1>1. CASE NewDay \/ SlotComes \/ Tick \/ UpdateSchedule \/ DeleteCheck \/ Delete \/ UNCHANGED vars
  BY <1>1, <1>h DEF NewDay, SlotComes, Tick, UpdateSchedule, DeleteCheck, Delete, vars
<1>2. CASE Fire \/ CreateByHand \/ Attach \/ Detach
  <2>1. job' = job \/ (job.step = "idle" /\ job'.step = "acquire")
    BY <1>2, <1>i DEF Fire, CreateByHand, Attach, Detach
  <2>2. QED
    BY <1>2, <2>1, <1>h DEF Fire, CreateByHand, Attach, Detach
<1>3. CASE Acquire
  <2>1. job'.step = "run"
    BY <1>3, <1>s DEF Acquire, Steps
  <2>2. QED
    BY <1>3, <2>1, <1>h DEF Acquire
<1>4. CASE NoSlot \/ BackupFails \/ AuthFails \/ Persist
  BY <1>4, <1>h, <1>n DEF NoSlot, BackupFails, AuthFails, Failed, Persist
<1>5. CASE BackupTables
  <2>1. job'.step = "mark"
    BY <1>5, <1>t DEF BackupTables, JobTypes
  <2>2. QED
    BY <1>5, <2>1, <1>h DEF BackupTables
<1>6. CASE WriteSource \/ Prune
  <2>1. job'.step \in {"prune", "persist"}
    BY <1>6, <1>s DEF WriteSource, Prune, Steps
  <2>2. QED
    BY <1>6, <2>1, <1>h DEF WriteSource, Prune
<1>7. CASE RestoreBegins
  <2>1. job'.step = "restore"
    BY <1>7, <1>s DEF RestoreBegins, Steps
  <2>2. QED
    BY <2>1
<1>8. CASE RestoreEnds
  <2>1. job'.step = "marker" /\ job'.name = job.name
    BY <1>8, <1>s DEF RestoreEnds, Steps
  <2>2. QED
    BY <1>8, <2>1 DEF RestoreEnds
<1>9. CASE RestoreFails
  BY <1>9, <1>u, <1>n DEF RestoreFails
<1>10. CASE SetAttached
  <2>1. attached' = IF job.kind = "attach" THEN job.name ELSE 0
    BY <1>10, <1>u DEF SetAttached, Mark
  <2>2. QED
    BY <1>10, <2>1, <1>h, <1>n DEF SetAttached
<1>11. CASE DropShadow
  <2>1. job'.step = "marker" /\ job'.kind = "detach"
    BY <1>11, <1>s DEF DropShadow, Steps
  <2>2. QED
    BY <2>1
<1>12. CASE DropFails
  BY <1>12, <1>u, <1>h, <1>n DEF DropFails, DropStops
<1>13. CASE Crash
  BY <1>13, <1>u DEF Crash
<1>14. QED
  BY <1>1, <1>2, <1>3, <1>4, <1>5, <1>6, <1>7, <1>8, <1>9, <1>10, <1>11, <1>12, <1>13
     DEF Next, Run

\* A new backup has no source file until its own job writes it.
LEMMA UnmarkedStep == BackupTypes /\ NewIsUnmarked /\ [Next]_vars => NewIsUnmarked'
<1> SUFFICES ASSUME BackupTypes, NewIsUnmarked, [Next]_vars, job'.step = "mark",
                    NEW b \in disk', b.name = job'.name
             PROVE  b.source = "none"
  BY DEF NewIsUnmarked
<1>t. JobTypes /\ VolumeTypes
  BY DEF BackupTypes
<1>s. ASSUME NEW s \in Steps, Step(s)
      PROVE  job'.step = s
  BY <1>s, <1>t DEF Step, JobTypes
<1>n. NoJob.step # "mark"
  BY DEF NoJob
<1>k. ASSUME disk' \subseteq disk, UNCHANGED job
      PROVE  b.source = "none"
  BY <1>k DEF NewIsUnmarked
<1> USE DEF volume
<1>1. CASE NewDay \/ SlotComes \/ Tick \/ UpdateSchedule \/ DeleteCheck \/ Delete \/ UNCHANGED vars
  BY <1>1, <1>k DEF NewDay, SlotComes, Tick, UpdateSchedule, DeleteCheck, Delete, Without, vars
<1>2. CASE Fire \/ CreateByHand \/ Attach \/ Detach
  <2>1. job' = job \/ job'.step = "acquire"
    BY <1>2 DEF Fire, CreateByHand, Attach, Detach, Start
  <2>2. QED
    BY <1>2, <2>1, <1>k DEF Fire, CreateByHand, Attach, Detach
<1>3. CASE Acquire \/ WriteSource \/ Prune \/ RestoreBegins \/ RestoreEnds \/ DropShadow
  <2>1. job'.step \in {"run", "prune", "persist", "restore", "marker"}
    BY <1>3, <1>s DEF Acquire, WriteSource, Prune, RestoreBegins, RestoreEnds, DropShadow, Steps
  <2>2. QED
    BY <2>1
<1>4. CASE NoSlot \/ BackupFails \/ AuthFails \/ Persist \/ RestoreFails \/ SetAttached
           \/ DropFails \/ Crash
  BY <1>4, <1>n DEF NoSlot, BackupFails, AuthFails, Failed, Persist, RestoreFails, SetAttached,
                    DropFails, Crash
<1>5. CASE BackupTables
  <2>1. job'.name = made + 1
    BY <1>5, <1>t DEF BackupTables, JobTypes
  <2>2. b \in disk \/ b = [name |-> made + 1, day |-> day, source |-> "none"]
    BY <1>5 DEF BackupTables, BackedUp
  <2>3. b \notin disk
    BY <2>1, <1>t DEF VolumeTypes
  <2>4. QED
    BY <2>2, <2>3
<1>6. QED
  BY <1>1, <1>2, <1>3, <1>4, <1>5 DEF Next, Run

\* A day that is quiet after a step was quiet before: days pass once, and a
\* volume that has lost a backup never has all of them again.
LEMMA QuietBefore ==
    ASSUME BackupTypes, [Next]_vars, Quiet'
    PROVE  /\ Quiet /\ UNCHANGED day
           /\ ~Use("faults") /\ ~Use("updates") /\ ~Use("crashes")
           /\ disk' # disk => \/ BackupTables
                              \/ WriteSource /\ disk' = Sourced(job.name, job.source)
<1>t. JobTypes /\ VolumeTypes /\ ScheduleTypes
  BY DEF BackupTypes
<1>q. /\ day' = 1 /\ Cardinality(disk') = made'
      /\ used'["faults"] = 0 /\ used'["updates"] = 0 /\ used'["crashes"] = 0
  BY DEF Quiet
<1>u. /\ used["faults"] = 0 /\ used["updates"] = 0 /\ used["crashes"] = 0
      /\ ~Use("faults") /\ ~Use("updates") /\ ~Use("crashes")
  BY <1>q, Undisturbed
<1>d. day' = day
  <2>1. day' \in {day, day + 1}
    <3>1. CASE NewDay
      BY <3>1 DEF NewDay
    <3>2. CASE Next /\ ~NewDay
      BY <3>2 DEF Next, Run, clock, SlotComes, Tick, Fire, UpdateSchedule, CreateByHand,
       Attach, Detach, DeleteCheck, Delete, Crash, Acquire, NoSlot, BackupTables, BackupFails,
       AuthFails, WriteSource, Prune, Persist, RestoreBegins, RestoreEnds, RestoreFails,
       SetAttached, DropShadow, DropFails
    <3>3. CASE UNCHANGED vars
      BY <3>3 DEF vars
    <3>4. QED
      BY <3>1, <3>2, <3>3
  <2>2. QED
    BY <2>1, <1>q, <1>t DEF ScheduleTypes
<1>n. Cardinality(disk) \in Nat
  BY <1>t, FS_CardinalityType DEF VolumeTypes
<1>w. (disk' = disk /\ made' = made) \/ BackupTables \/ (WriteSource /\ disk' = Sourced(job.name, job.source))
         \/ (disk' \in SUBSET disk /\ made' = made)
  <2> USE DEF volume
  <2>1. CASE WriteSource
    BY <2>1 DEF WriteSource
  <2>2. CASE Prune \/ Delete
    BY <2>2 DEF Prune, Kept, Delete, Without
  <2>3. CASE Next /\ ~WriteSource /\ ~Prune /\ ~Delete /\ ~BackupTables
    BY <2>3 DEF Next, Run, SlotComes, NewDay, Tick, Fire, UpdateSchedule, CreateByHand,
       Attach, Detach, DeleteCheck, Crash, Acquire, NoSlot, BackupFails,
       AuthFails, Persist, RestoreBegins, RestoreEnds, RestoreFails,
       SetAttached, DropShadow, DropFails
  <2>4. CASE UNCHANGED vars
    BY <2>4 DEF vars
  <2>5. QED
    BY <2>1, <2>2, <2>3, <2>4
<1>1. CASE disk' = disk /\ made' = made
  BY <1>1, <1>q, <1>u, <1>d DEF Quiet
<1>2. CASE BackupTables
  <2>1. PICK b : b = [name |-> made + 1, day |-> day, source |-> "none"]
    OBVIOUS
  <2>2. disk' = disk \cup {b} /\ made' = made + 1
    BY <1>2, <2>1 DEF BackupTables, BackedUp
  <2>3. Cardinality(disk \cup {b}) = Cardinality(disk) + 1
    BY <2>1, <1>t, AddedIsNew
  <2>4. Cardinality(disk) = made
    BY <2>2, <2>3, <1>q, <1>n, <1>t DEF VolumeTypes
  <2>5. QED
    BY <1>2, <2>4, <1>q, <1>u, <1>d DEF Quiet
<1>3. CASE WriteSource /\ disk' = Sourced(job.name, job.source)
  <2>1. /\ IsFiniteSet(disk')
        /\ Cardinality(disk') <= Cardinality(disk)
    BY <1>3, <1>t, SourcedKeeps DEF JobTypes
  <2>2. Cardinality(disk') \in Nat /\ made' = made
    BY <1>3, <2>1, FS_CardinalityType DEF WriteSource
  <2>3. Cardinality(disk) = made
    BY <2>1, <2>2, <1>q, <1>n, <1>t DEF VolumeTypes
  <2>4. QED
    BY <1>3, <2>3, <1>q, <1>u, <1>d DEF Quiet
<1>4. CASE disk' \in SUBSET disk /\ made' = made
  <2>1. disk' = disk /\ Cardinality(disk) = made
    BY <1>4, <1>q, <1>t, ErasedKeeps
  <2>2. QED
    BY <2>1, <1>q, <1>u, <1>d DEF Quiet
<1>5. QED
  BY <1>w, <1>1, <1>2, <1>3, <1>4

\* On a quiet day the date of the last run, once set, is never taken back.
LEMMA QuietReads ==
    ASSUME BackupTypes, QuietSchedule, Quiet
    PROVE  LastRun = last /\ FireDate = lastFire
<1>1. CASE last = 0
  BY <1>1 DEF LastRun, FireDate, Stale
<1>2. CASE last # 0
  <2>1. PICK b \in disk : b.source = "schedule"
    BY <1>2 DEF QuietSchedule, Scheduled
  <2>2. b.day = 1 /\ last = 1
    BY <1>2 DEF BackupTypes, VolumeTypes, ScheduleTypes, Quiet
  <2>3. ~Stale
    BY <2>1, <2>2 DEF Stale
  <2>4. QED
    BY <2>3 DEF LastRun, FireDate
<1>3. QED
  BY <1>1, <1>2

\* The schedule makes one backup on a quiet first day.
LEMMA QuietStep ==
    BackupTypes /\ NewIsUnmarked /\ QuietSchedule /\ [Next]_vars => QuietSchedule'
<1> DEFINE Live(j) == j.source = "schedule" /\ j.step \in {"acquire", "run", "mark"}
           Done(j) == j.source = "schedule" /\ j.step \in {"prune", "persist"}
<1> SUFFICES ASSUME BackupTypes, NewIsUnmarked, QuietSchedule, [Next]_vars, Quiet'
             PROVE  /\ served'[1] <= 1
                    /\ served'[1] = 1 => lastFire' = 1 /\ Scheduled'
                    /\ last' # 0 => served'[1] = 1
                    /\ Live(job') => lastFire' = 1 /\ served'[1] = 0
                    /\ Done(job') => served'[1] = 1
  BY DEF QuietSchedule
<1>t. JobTypes /\ VolumeTypes /\ ScheduleTypes
  BY DEF BackupTypes
<1>q. /\ Quiet /\ UNCHANGED day
      /\ ~Use("faults") /\ ~Use("updates") /\ ~Use("crashes")
      /\ disk' # disk => \/ BackupTables
                         \/ WriteSource /\ disk' = Sourced(job.name, job.source)
  BY QuietBefore
<1>d. /\ day = 1 /\ last \in 0 .. 1 /\ lastFire \in 0 .. 1 /\ tick \in 0 .. 1
      /\ served[1] \in Nat
      /\ job.source = "schedule" => job.date = 1
  BY <1>q, <1>t, BackupAssumption DEF Quiet, ScheduleTypes, JobTypes
<1>h. /\ served[1] <= 1
      /\ served[1] = 1 => lastFire = 1 /\ Scheduled
      /\ last # 0 => served[1] = 1
      /\ Live(job) => lastFire = 1 /\ served[1] = 0
      /\ Done(job) => served[1] = 1
  BY <1>q DEF QuietSchedule
<1>r. LastRun = last /\ FireDate = lastFire
  BY <1>q, QuietReads
<1>c. Scheduled => Scheduled'
  <2>1. CASE disk' = disk
    BY <2>1 DEF Scheduled
  <2>2. CASE BackupTables
    BY <2>2 DEF BackupTables, BackedUp, Scheduled
  <2>3. CASE WriteSource /\ disk' = Sourced(job.name, job.source)
    <3> SUFFICES ASSUME Scheduled PROVE Scheduled'
      OBVIOUS
    <3>1. PICK b \in disk : b.source = "schedule"
      BY DEF Scheduled
    <3>2. b.name # job.name
      BY <2>3, <3>1 DEF WriteSource, NewIsUnmarked
    <3>3. job.name \in Nat /\ job.source \in Sources
      BY <1>t DEF JobTypes
    <3>4. PICK e \in Sourced(job.name, job.source) :
             e.source = IF b.name = job.name THEN job.source ELSE b.source
      BY <1>t, <3>3, SourcedKeeps
    <3>5. QED
      BY <2>3, <3>1, <3>2, <3>4 DEF Scheduled
  <2>4. QED
    BY <1>q, <2>1, <2>2, <2>3
<1>s. ASSUME NEW s \in Steps, Step(s)
      PROVE  job'.step = s /\ job'.source = job.source
  BY <1>s, <1>t DEF Step, JobTypes
<1>n. NoJob.source = "none"
  BY DEF NoJob
<1>k. ASSUME UNCHANGED <<last, lastFire, served>>,
             Live(job') => Live(job),
             Done(job') => Done(job)
      PROVE  /\ served'[1] <= 1
             /\ served'[1] = 1 => lastFire' = 1 /\ Scheduled'
             /\ last' # 0 => served'[1] = 1
             /\ Live(job') => lastFire' = 1 /\ served'[1] = 0
             /\ Done(job') => served'[1] = 1
  BY <1>k, <1>h, <1>c
<1> USE DEF schedule
<1>1. CASE NewDay
  BY <1>1, <1>q, <1>d DEF NewDay
<1>2. CASE SlotComes \/ DeleteCheck \/ Delete \/ UNCHANGED vars
  BY <1>2, <1>k DEF SlotComes, DeleteCheck, Delete, vars
<1>3. CASE Tick
  BY <1>3, <1>k, <1>r DEF Tick, GetSchedule
<1>4. CASE Fire
  <2>1. tick = 1 /\ UNCHANGED <<last, served>>
    BY <1>4, <1>d DEF Fire
  <2>2. CASE UNCHANGED <<lastFire, job>>
    BY <2>1, <2>2, <1>k
  <2>3. CASE lastFire # tick /\ Start("create", "schedule", 0, tick) /\ lastFire' = tick
    <3>1. served[1] = 0 /\ ~Done(job')
      BY <2>1, <2>3, <1>h, <1>d DEF Start
    <3>2. QED
      BY <2>1, <2>3, <3>1, <1>h
  <2>4. CASE lastFire # tick /\ lastFire' = 0 /\ UNCHANGED job
    <3>1. served[1] = 0 /\ ~Live(job)
      BY <2>1, <2>4, <1>h, <1>d
    <3>2. QED
      BY <2>1, <2>4, <3>1, <1>h
  <2>5. QED
    BY <1>4, <2>2, <2>3, <2>4 DEF Fire
<1>5. CASE CreateByHand \/ Attach \/ Detach
  <2>1. job'.source \in {"manual", "none"}
    BY <1>5 DEF CreateByHand, Attach, Detach, Start
  <2>2. QED
    BY <1>5, <2>1, <1>k DEF CreateByHand, Attach, Detach
<1>6. CASE Acquire \/ RestoreBegins \/ RestoreEnds \/ DropShadow
  <2>1. job'.step \in {"run", "restore", "marker"} /\ job'.source = job.source
    BY <1>6, <1>s DEF Acquire, RestoreBegins, RestoreEnds, DropShadow, Steps
  <2>2. job'.step = "run" => job.step = "acquire"
    BY <1>6, <1>s DEF Acquire, RestoreBegins, RestoreEnds, DropShadow, Steps
  <2>3. QED
    BY <1>6, <2>1, <2>2, <1>k DEF Acquire, RestoreBegins, RestoreEnds, DropShadow
<1>7. CASE NoSlot \/ RestoreFails \/ SetAttached \/ DropFails
  BY <1>7, <1>k, <1>n DEF NoSlot, RestoreFails, SetAttached, DropFails
<1>8. CASE BackupTables
  <2>1. job'.source = job.source /\ job.step = "run" /\ job'.step = "mark"
    BY <1>8, <1>t DEF BackupTables, JobTypes
  <2>2. QED
    BY <1>8, <2>1, <1>k, <1>r DEF BackupTables, GetSchedule
<1>9. CASE BackupFails
  <2>1. job' = NoJob /\ UNCHANGED <<last, served>> /\ job.step = "run"
    BY <1>9, <1>r DEF BackupFails, Failed
  <2>2. lastFire' = IF job.source = "schedule" THEN 0 ELSE lastFire
    BY <1>9, <1>r DEF BackupFails, Failed
  <2>3. CASE job.source = "schedule"
    BY <2>1, <2>2, <2>3, <1>h, <1>n
  <2>4. CASE job.source # "schedule"
    BY <2>1, <2>2, <2>4, <1>k, <1>n
  <2>5. QED
    BY <2>3, <2>4
<1>10. CASE WriteSource
  <2>1. job'.step = "prune" /\ job'.source = job.source /\ job.step = "mark"
    BY <1>10, <1>s DEF WriteSource, Steps
  <2>2. UNCHANGED <<last, lastFire>> /\ disk' = Sourced(job.name, job.source)
    BY <1>10, <1>q DEF WriteSource
  <2>3. CASE job.source = "schedule"
    <3>1. served' = [served EXCEPT ![1] = @ + 1]
      BY <1>10, <2>3, <1>d DEF WriteSource
    <3>2. served'[1] = 1
      BY <3>1, <2>1, <2>3, <1>h, <1>t, BackupAssumption DEF ScheduleTypes
    <3>3. PICK b \in disk : b.name = job.name
      BY <1>10 DEF WriteSource, Exists
    <3>4. job.name \in Nat /\ job.source \in Sources
      BY <1>t DEF JobTypes
    <3>5. PICK e \in Sourced(job.name, job.source) :
             e.source = IF b.name = job.name THEN job.source ELSE b.source
      BY <1>t, <3>4, SourcedKeeps
    <3>6. Scheduled'
      BY <2>2, <2>3, <3>3, <3>5 DEF Scheduled
    <3>7. QED
      BY <2>1, <2>2, <2>3, <3>2, <3>6, <1>h
  <2>4. CASE job.source # "schedule"
    BY <1>10, <2>1, <2>2, <2>4, <1>k DEF WriteSource
  <2>5. QED
    BY <2>3, <2>4
<1>11. CASE Prune
  <2>1. job'.step = "persist" /\ job'.source = job.source /\ job.step = "prune"
    BY <1>11, <1>s DEF Prune, Steps
  <2>2. QED
    BY <1>11, <2>1, <1>k DEF Prune
<1>12. CASE Persist
  <2>1. job' = NoJob /\ job.step = "persist" /\ UNCHANGED served
    BY <1>12 DEF Persist
  <2>2. lastFire' = lastFire
    BY <1>12, <1>q, <1>r DEF Persist
  <2>3. CASE job.source = "schedule"
    BY <2>1, <2>2, <2>3, <1>h, <1>c, <1>n
  <2>4. CASE job.source # "schedule"
    BY <1>12, <2>1, <2>2, <2>4, <1>k, <1>n DEF Persist
  <2>5. QED
    BY <2>3, <2>4
<1>13. CASE UpdateSchedule \/ AuthFails \/ Crash
  BY <1>13, <1>q DEF UpdateSchedule, AuthFails, Crash
<1>14. QED
  BY <1>1, <1>2, <1>3, <1>4, <1>5, <1>6, <1>7, <1>8, <1>9, <1>10, <1>11, <1>12, <1>13
     DEF Next, Run

\* The inductive invariant holds in every behaviour of the backups.
LEMMA BackupInvHolds == Spec => []BackupInv
<1>1. BackupInv /\ [Next]_vars => BackupInv'
  BY BackupTypeStep, AttachedStep, ShadowStep, UnmarkedStep, QuietStep DEF BackupInv
<1>2. QED
  BY <1>1, InitBackupInv, PTL DEF Spec

\* The backup whose data the map shows stays on the volume through retention,
\* deletions, failures and restarts, unless its deletion overlapped an attach.
THEOREM AttachedBackupKept == Spec => []AttachedOnDisk
<1>1. BackupInv => AttachedOnDisk
  BY DEF BackupInv
<1>2. QED
  BY <1>1, BackupInvHolds, PTL

\* With no job at work the marker names the backup that the shadow tables
\* hold, whatever restores failed, as long as no DROP stopped half-way, no
\* write of the marker failed and the process was not restarted.
THEOREM MarkerIsTrue == Spec => []MarkerTruthful
<1>1. BackupInv => MarkerTruthful
  BY DEF BackupInv, ShadowKnown, MarkerTruthful, NoJob
<1>2. QED
  BY <1>1, BackupInvHolds, PTL

\* Ticks, failed runs and jobs by hand never make the schedule serve a quiet
\* first day twice.
THEOREM QuietDayServedOnce == Spec => []OncePerQuietDay
<1>1. BackupInv => OncePerQuietDay
  BY DEF BackupInv, QuietSchedule, Quiet, OncePerQuietDay
<1>2. QED
  BY <1>1, BackupInvHolds, PTL
=============================================================================
