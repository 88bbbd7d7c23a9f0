------------------------------ MODULE GeoJobs ------------------------------
(***************************************************************************)
(* adapter/geojob.Scheduler: a newer Schedule* cancels the job before it,  *)
(* jobs queue on the heavy-task slot and on workMu, a job that is no longer*)
(* the newest gives up, Shutdown cancels the newest and waits for all.     *)
(***************************************************************************)
EXTENDS Integers, FiniteSets

CONSTANTS
    Jobs,       \* calls of Schedule*
    JobKind(_),    \* "reload", "enrich" or "maintenance"
    Slots,      \* capacity of the heavy-task limiter
    NoJob       \* no job: the mutex is free, nothing to cancel

ASSUME JobsAssumption ==
    /\ \A j \in Jobs : JobKind(j) \in {"reload", "enrich", "maintenance"}
    /\ Slots \in Nat \ {0} /\ IsFiniteSet(Jobs) /\ NoJob \notin Jobs

VARIABLES
    gen,        \* s.gen
    num,        \* the generation of each job, 0 before it is scheduled
    newest,     \* the job whose cancel function s.cancel is
    cancelled,  \* jobs whose context is done
    place,         \* what each job does next
    workMu,     \* the job that holds workMu
    others,     \* slots held by backup, anomaly and reputation work
    gate,       \* SkipGate gives a reason to skip maintenance
    shutdown,   \* "no", "waiting", "done" or "timeout"
    begun       \* history: generation of the last body that began

jobVars == <<gen, num, newest, cancelled, place, workMu, others, gate, shutdown, begun>>

Body == {"reload", "enrich", "edges", "geoedges"}
AtSlot == {"lock", "ctx", "gen", "recheck"} \cup Body

JobInit ==
    /\ gen = 0
    /\ num = [j \in Jobs |-> 0]
    /\ newest = NoJob
    /\ cancelled = {}
    /\ place = [j \in Jobs |-> "new"]
    /\ workMu = NoJob
    /\ others = 0
    /\ gate = FALSE
    /\ shutdown = "no"
    /\ begun = 0

JobGoto(j, to) == place' = [place EXCEPT ![j] = to]

\* Mutant: the job before it is not cancelled.
ScheduleKeeps(j) ==
    /\ place[j] = "new"
    /\ gen' = gen + 1
    /\ num' = [num EXCEPT ![j] = gen + 1]
    /\ newest' = j
    /\ JobGoto(j, IF JobKind(j) = "maintenance" THEN "gate" ELSE "acquire")
    /\ UNCHANGED <<cancelled, workMu, others, gate, shutdown, begun>>

\* schedule: under mu, then a goroutine that runs the job.
Schedule(j) ==
    /\ place[j] = "new"
    /\ cancelled' = cancelled \cup ({newest} \ {NoJob})
    /\ gen' = gen + 1
    /\ num' = [num EXCEPT ![j] = gen + 1]
    /\ newest' = j
    /\ JobGoto(j, IF JobKind(j) = "maintenance" THEN "gate" ELSE "acquire")
    /\ UNCHANGED <<workMu, others, gate, shutdown, begun>>

\* The deadline of the job's context.
Timeout(j) ==
    /\ place[j] \notin {"new", "done"} /\ j \notin cancelled
    /\ cancelled' = cancelled \cup {j}
    /\ UNCHANGED <<gen, num, newest, place, workMu, others, gate, shutdown, begun>>

CheckGate(j) ==
    /\ place[j] = "gate"
    /\ JobGoto(j, IF gate THEN "done" ELSE "acquire")
    /\ UNCHANGED <<gen, num, newest, cancelled, workMu, others, gate, shutdown, begun>>

Holders == {j \in Jobs : place[j] \in AtSlot}

Acquire(j) ==
    /\ place[j] = "acquire"
    /\ Cardinality(Holders) + others < Slots
    /\ JobGoto(j, "lock")
    /\ UNCHANGED <<gen, num, newest, cancelled, workMu, others, gate, shutdown, begun>>

\* Mutant: a task that waits does not look at its context.
AcquireDeaf(j) ==
    /\ place[j] = "acquire" /\ j \in cancelled
    /\ UNCHANGED jobVars

AcquireCancelled(j) ==
    /\ place[j] = "acquire" /\ j \in cancelled
    /\ JobGoto(j, "done")
    /\ UNCHANGED <<gen, num, newest, cancelled, workMu, others, gate, shutdown, begun>>

\* Mutant: the job does not wait for workMu.
LockAtOnce(j) ==
    /\ place[j] = "lock"
    /\ workMu' = j
    /\ JobGoto(j, "ctx")
    /\ UNCHANGED <<gen, num, newest, cancelled, others, gate, shutdown, begun>>

Lock(j) ==
    /\ place[j] = "lock" /\ workMu = NoJob
    /\ workMu' = j
    /\ JobGoto(j, "ctx")
    /\ UNCHANGED <<gen, num, newest, cancelled, others, gate, shutdown, begun>>

\* The deferred Unlock, Release and wg.Done.
Exit(j) ==
    /\ JobGoto(j, "done")
    /\ workMu' = NoJob

CheckCtx(j) ==
    /\ place[j] = "ctx"
    /\ IF j \in cancelled THEN Exit(j) ELSE JobGoto(j, "gen") /\ UNCHANGED workMu
    /\ UNCHANGED <<gen, num, newest, cancelled, others, gate, shutdown, begun>>

\* The body begins at its first statement.
FirstOf(j) ==
    CASE JobKind(j) = "maintenance" -> "edges"
      [] JobKind(j) = "reload" -> "reload"
      [] JobKind(j) = "enrich" -> "enrich"

BeginBody(j) ==
    /\ JobGoto(j, FirstOf(j))
    /\ begun' = num[j]
    /\ UNCHANGED workMu

CheckGen(j) ==
    /\ place[j] = "gen"
    /\ \/ num[j] # gen /\ Exit(j) /\ UNCHANGED begun
       \/ num[j] = gen /\ JobKind(j) # "maintenance" /\ BeginBody(j)
       \/ num[j] = gen /\ JobKind(j) = "maintenance" /\ JobGoto(j, "recheck")
          /\ UNCHANGED <<workMu, begun>>
    /\ UNCHANGED <<gen, num, newest, cancelled, others, gate, shutdown>>

Recheck(j) ==
    /\ place[j] = "recheck"
    /\ \/ gate /\ Exit(j) /\ UNCHANGED begun
       \/ ~gate /\ BeginBody(j)
    /\ UNCHANGED <<gen, num, newest, cancelled, others, gate, shutdown>>

\* A statement of the body ends well and the next one begins.  A reload that
\* failed still goes on to the enrichment; the others give up.
Advance(j) ==
    /\ place[j] \in Body /\ j \notin cancelled
    /\ \/ place[j] = "reload" /\ JobGoto(j, "enrich") /\ UNCHANGED workMu
       \/ place[j] = "edges" /\ JobGoto(j, "geoedges") /\ UNCHANGED workMu
       \/ place[j] = "geoedges" /\ JobGoto(j, "enrich") /\ UNCHANGED workMu
       \/ place[j] = "enrich" /\ Exit(j)
    /\ UNCHANGED <<gen, num, newest, cancelled, others, gate, shutdown, begun>>

\* An error of ClickHouse, an empty index after the backfill, or a context
\* that is done.
GiveUp(j) ==
    /\ place[j] \in Body
    /\ place[j] = "reload" => j \in cancelled
    /\ Exit(j)
    /\ UNCHANGED <<gen, num, newest, cancelled, others, gate, shutdown, begun>>

-----------------------------------------------------------------------------
(* The rest of the program *)

OtherAcquires ==
    /\ Cardinality(Holders) + others < Slots
    /\ others' = others + 1
    /\ UNCHANGED <<gen, num, newest, cancelled, place, workMu, gate, shutdown, begun>>

OtherReleases ==
    /\ others > 0
    /\ others' = others - 1
    /\ UNCHANGED <<gen, num, newest, cancelled, place, workMu, gate, shutdown, begun>>

GateMoves ==
    /\ gate' = ~gate
    /\ UNCHANGED <<gen, num, newest, cancelled, place, workMu, others, shutdown, begun>>

Shutdown ==
    /\ shutdown = "no"
    /\ shutdown' = "waiting"
    /\ cancelled' = cancelled \cup ({newest} \ {NoJob})
    /\ UNCHANGED <<gen, num, newest, place, workMu, others, gate, begun>>

\* The wait group is at zero, or the context of Shutdown is done.
ShutdownDone ==
    /\ shutdown = "waiting"
    /\ \A j \in Jobs : place[j] \in {"new", "done"}
    /\ shutdown' = "done"
    /\ UNCHANGED <<gen, num, newest, cancelled, place, workMu, others, gate, begun>>

ShutdownTimeout ==
    /\ shutdown = "waiting"
    /\ shutdown' = "timeout"
    /\ UNCHANGED <<gen, num, newest, cancelled, place, workMu, others, gate, begun>>

Step(j) ==
    \/ CheckGate(j) \/ AcquireCancelled(j) \/ Lock(j) \/ CheckCtx(j) \/ CheckGen(j)
    \/ Recheck(j) \/ Advance(j) \/ GiveUp(j)

JobNext ==
    \/ \E j \in Jobs : Schedule(j) \/ Timeout(j) \/ Acquire(j) \/ Step(j)
    \/ OtherAcquires \/ OtherReleases \/ GateMoves
    \/ Shutdown \/ ShutdownDone \/ ShutdownTimeout

JobSpec == JobInit /\ [][JobNext]_jobVars

\* Goroutines that can run do run, and ClickHouse answers a cancelled query.
\* Nothing is assumed of queries that are not cancelled, of the deadline, or
\* of the other holders of the slot.
JobFairness ==
    /\ \A j \in Jobs : WF_jobVars(CheckGate(j) \/ AcquireCancelled(j) \/ Lock(j) \/ CheckCtx(j)
                               \/ CheckGen(j) \/ Recheck(j))
    /\ \A j \in Jobs : WF_jobVars(j \in cancelled /\ GiveUp(j))
    /\ WF_jobVars(ShutdownDone)

JobFairSpec == JobSpec /\ JobFairness

-----------------------------------------------------------------------------
(* Properties *)

\* The type of the state; the slots of the limiter are never overdrawn.
JobTypeOK ==
    /\ gen \in Nat /\ begun \in 0 .. gen
    /\ num \in [Jobs -> 0 .. gen]
    /\ newest \in Jobs \cup {NoJob}
    /\ cancelled \subseteq Jobs
    /\ place \in [Jobs -> {"new", "gate", "acquire", "done"} \cup AtSlot]
    /\ workMu \in Jobs \cup {NoJob}
    /\ others \in Nat /\ Cardinality(Holders) + others <= Slots
    /\ gate \in BOOLEAN
    /\ shutdown \in {"no", "waiting", "done", "timeout"}

\* Several Schedule* never run several INSERT and DELETE at once: at most one
\* job is in its body, however many slots the limiter has.
OneBody == \A i, j \in Jobs : place[i] \in Body /\ place[j] \in Body => i = j

\* Bodies begin in the order in which they were scheduled: a job that was
\* superseded while it waited never works after the job that superseded it.
BodiesInOrder ==
    [][\A j \in Jobs : place[j] \notin Body /\ place'[j] \in Body => num[j] > begun]_jobVars

\* Every unfinished job but the newest is cancelled, so that Shutdown, which
\* cancels only the newest, waits for jobs that have all been told to stop.
OnlyNewestRuns ==
    \A j \in Jobs : place[j] \notin {"new", "done"} /\ j # newest => j \in cancelled

\* workMu is held from Lock to Exit, and the generations tell jobs apart: a job
\* that has passed the generation check is younger than any that has begun.
Order ==
    \A j \in Jobs :
        /\ place[j] \in AtSlot \ {"lock"} => workMu = j
        /\ place[j] = "new" <=> num[j] = 0
        /\ place[j] \in {"gate", "acquire", "lock", "ctx", "gen"} => begun # num[j]
        /\ place[j] = "recheck" => begun < num[j]
        /\ \A i \in Jobs : num[i] = num[j] /\ num[j] # 0 => i = j

JobInv == JobTypeOK /\ Order /\ OnlyNewestRuns

\* Shutdown, which has cancelled the newest job, does not wait for ever, even if
\* the heavy slot is never released and no query ends before it is cancelled.
\* A job that is scheduled while it waits is nobody's to cancel and is excepted.
ShutdownReturns ==
    LET stuck == shutdown = "waiting" /\ newest \in cancelled \cup {NoJob}
    IN  stuck ~> ~stuck
=============================================================================
