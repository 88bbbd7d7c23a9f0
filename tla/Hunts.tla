------------------------------- MODULE Hunts -------------------------------
(***************************************************************************)
(* Saved hunts (usecase/hunts, huntsfile, huntjob, huntadapter): a user    *)
(* edits a hunt and runs it by hand, the scheduler runs it every interval. *)
(* A run works on a copy of the hunt: it takes the heavy slot, queries the *)
(* map, releases the slot and only then saves the copy by its id.          *)
(***************************************************************************)
EXTENDS Anomaly

CONSTANTS
    HuntTick,       \* the scheduler among the tasks of the heavy slot
    HuntNow,        \* a user's request to run a hunt, another task
    HuntIds,        \* the ids newID can return
    MaxHuntsAll,    \* MaxHuntsAll (and MaxPerUser: the users share it here)
    MaxRunHistory,  \* MaxRunHistory
    IntervalMin, EdgeThreshold, EdgeRatio,  \* the schedule of every hunt
    EdgeCounts,     \* what a map query may count
    MaxEdits, MaxHuntRuns   \* bounds

VARIABLES
    hunts,          \* the file: a function from ids to hunts
    huntRun,        \* what each of the two tasks is doing
    gone,           \* ids that were deleted
    edited,         \* the last accepted definition of each hunt
    shared,         \* ids edited while a run held a copy of them
    huntsRun        \* ticks and runs by hand so far

huntVars == <<hunts, huntRun, gone, edited, shared, huntsRun>>

HuntTasks == {HuntTick, HuntNow}
NoRun == [at |-> "idle"]
Never == -1     \* an empty LastRunAt

HuntInit ==
    /\ hunts = << >>
    /\ huntRun = [t \in HuntTasks |-> NoRun]
    /\ gone = {}
    /\ edited = << >>
    /\ shared = {} /\ huntsRun = 0

\* The ids of which a run holds a copy.
Copied(t) ==
    IF huntRun[t].at = "idle" THEN {}
    ELSE DOMAIN huntRun[t].pending
            \cup (IF huntRun[t].at = "pick" THEN {} ELSE {huntRun[t].id})

-----------------------------------------------------------------------------
(* The file store; a save that fails leaves the file as it was *)

WithHunt(f, id, x) == [i \in DOMAIN f \cup {id} |-> IF i = id THEN x ELSE f[i]]

HuntEdits == UNCHANGED <<huntRun, huntsRun, anomVars, vars>>

Create(id) ==
    /\ Cardinality(DOMAIN hunts) < MaxHuntsAll
    /\ id \notin DOMAIN hunts \cup gone
    /\ hunts' = WithHunt(hunts, id, [def |-> 0, runs |-> << >>, last |-> Never])
    /\ edited' = WithHunt(edited, id, 0)
    /\ UNCHANGED <<gone, shared>>
    /\ HuntEdits

\* The definition is the user's, runs and last run stay the file's.
Update(id) ==
    /\ id \in DOMAIN hunts
    /\ edited[id] < MaxEdits
    /\ hunts' = [hunts EXCEPT ![id].def = edited[id] + 1]
    /\ edited' = [edited EXCEPT ![id] = @ + 1]
    /\ shared' = shared \cup {i \in {id} : \E t \in HuntTasks : i \in Copied(t)}
    /\ UNCHANGED gone
    /\ HuntEdits

Delete(id) ==
    /\ id \in DOMAIN hunts
    /\ hunts' = [i \in DOMAIN hunts \ {id} |-> hunts[i]]
    /\ gone' = gone \cup {id}
    /\ UNCHANGED <<edited, shared>>
    /\ HuntEdits

\* Mutant: a hunt the file does not have is added back.
SaveRunUpserts(id, hunt) == hunts' = WithHunt(hunts, id, hunt)

\* SaveRun replaces the hunt of that id, ErrNotFound if there is none.
SaveRun(id, hunt) ==
    hunts' = IF id \in DOMAIN hunts THEN [hunts EXCEPT ![id] = hunt] ELSE hunts

-----------------------------------------------------------------------------
(* Decisions of a run *)

shouldRunScheduled(h, now) == h.last = Never \/ now - h.last >= IntervalMin

\* The last run with edges, 0 if there is none.
previousEdgeCount(runs) ==
    LET counted == {i \in DOMAIN runs : runs[i] > 0}
    IN  IF counted = {} THEN 0 ELSE runs[Max(counted)]

evaluateBreach(edges, prev) ==
    \/ EdgeThreshold > 0 /\ edges >= EdgeThreshold
    \/ prev > 0 /\ edges >= prev * EdgeRatio

trimRuns(runs) ==
    IF Len(runs) <= MaxRunHistory THEN runs
    ELSE SubSeq(runs, Len(runs) - MaxRunHistory + 1, Len(runs))

WithRun(h, edges, now) ==
    [h EXCEPT !.runs = Append(trimRuns(@), edges), !.last = now]

-----------------------------------------------------------------------------
(* Runs *)

HuntGoes(t, r) == huntRun' = [huntRun EXCEPT ![t] = r]
Unedited == UNCHANGED <<hunts, gone, edited, shared>>
HuntOnly == Unedited /\ UNCHANGED huntsRun
CountRun == huntsRun < MaxHuntRuns /\ huntsRun' = huntsRun + 1

\* TickScheduled lists all hunts once; every copy in the list is as of now.
TickScheduled ==
    /\ huntRun[HuntTick].at = "idle" /\ pc[HuntTick] = "idle"
    /\ HuntGoes(HuntTick, [at |-> "pick", pending |-> hunts, now |-> clock])
    /\ CountRun /\ Unedited /\ UNCHANGED <<anomVars, vars>>

TickNext ==
    LET r == huntRun[HuntTick]
    IN  /\ r.at = "pick"
        /\ IF r.pending = << >> THEN HuntGoes(HuntTick, NoRun)
           ELSE \E id \in DOMAIN r.pending :
                  LET rest == [i \in DOMAIN r.pending \ {id} |-> r.pending[i]]
                  IN  HuntGoes(HuntTick,
                        IF shouldRunScheduled(r.pending[id], r.now)
                        THEN [at |-> "execute", pending |-> rest, now |-> r.now,
                              id |-> id, hunt |-> r.pending[id], breach |-> FALSE]
                        ELSE [r EXCEPT !.pending = rest])
        /\ HuntOnly /\ UNCHANGED <<anomVars, vars>>

RunNow(id) ==
    /\ huntRun[HuntNow].at = "idle" /\ pc[HuntNow] = "idle"
    /\ id \in DOMAIN hunts
    /\ HuntGoes(HuntNow, [at |-> "execute", pending |-> << >>, now |-> clock,
                          id |-> id, hunt |-> hunts[id], breach |-> FALSE])
    /\ CountRun /\ Unedited /\ UNCHANGED <<anomVars, vars>>

\* Back to the list, or to the caller of RunNow.
Over(t) ==
    IF t = HuntNow THEN NoRun
    ELSE [at |-> "pick", pending |-> huntRun[t].pending, now |-> huntRun[t].now]

\* execute without a free slot is an error.
HuntBusy(t) ==
    /\ huntRun[t].at = "execute"
    /\ TryAcquireFails(t)
    /\ HuntGoes(t, Over(t))
    /\ HuntOnly /\ UNCHANGED anomVars

HuntAcquires(t) ==
    /\ huntRun[t].at = "execute"
    /\ TryAcquire(t)
    /\ HuntGoes(t, [huntRun[t] EXCEPT !.at = "query"])
    /\ HuntOnly /\ UNCHANGED anomVars

AtQuery(t) == huntRun[t].at = "query" /\ pc[t] = "held"

\* A scheduled query that is too heavy is skipped without an error.
HuntTooHeavy ==
    /\ AtQuery(HuntTick)
    /\ HuntGoes(HuntTick, [huntRun[HuntTick] EXCEPT !.at = "release"])
    /\ HuntOnly /\ UNCHANGED <<anomVars, vars>>

HuntQueryFails(t) ==
    /\ AtQuery(t)
    /\ HuntGoes(t, [huntRun[t] EXCEPT !.at = "failed"])
    /\ HuntOnly /\ UNCHANGED <<anomVars, vars>>

\* ReportHuntBreach; its error is ignored.
Report(id, now) ==
    \/ InsertSynthetic(FingerprintForHunt(id, now), now)
    \/ UNCHANGED alerts

\* The query counted edges; a run by hand reports a breach at once.
HuntCounts(t, edges) ==
    LET r == huntRun[t]
        breach == evaluateBreach(edges, previousEdgeCount(r.hunt.runs))
    IN  /\ AtQuery(t)
        /\ HuntGoes(t, [r EXCEPT !.at = "release", !.breach = breach,
                          !.hunt = WithRun(@, edges, r.now)])
        /\ IF breach /\ t = HuntNow THEN Report(r.id, r.now)
           ELSE UNCHANGED alerts
        /\ HuntOnly
        /\ UNCHANGED <<clock, logs, acks, suppressions, assignments, scan,
                       scans, acking, vars>>

\* The deferred Release; after a failed query nothing is saved.
HuntReleases(t) ==
    /\ huntRun[t].at \in {"release", "failed"}
    /\ Release(t)
    /\ HuntGoes(t, IF huntRun[t].at = "failed" THEN Over(t)
                   ELSE [huntRun[t] EXCEPT !.at = "save"])
    /\ HuntOnly /\ UNCHANGED anomVars

\* The copy is saved, or its save fails; the scheduler reports in any case.
HuntSaves(t) ==
    LET r == huntRun[t]
    IN  /\ r.at = "save" /\ pc[t] = "idle"
        /\ SaveRun(r.id, r.hunt) \/ UNCHANGED hunts
        /\ IF r.breach /\ t = HuntTick THEN Report(r.id, r.now)
           ELSE UNCHANGED alerts
        /\ HuntGoes(t, Over(t))
        /\ UNCHANGED <<gone, edited, shared, huntsRun, clock, logs, acks,
                       suppressions, assignments, scan, scans, acking, vars>>

HuntStep ==
    \/ \E id \in HuntIds : Create(id) \/ Update(id) \/ Delete(id) \/ RunNow(id)
    \/ TickScheduled \/ TickNext \/ HuntTooHeavy
    \/ \E t \in HuntTasks :
          \/ HuntBusy(t) \/ HuntAcquires(t) \/ HuntQueryFails(t)
          \/ \E edges \in EdgeCounts : HuntCounts(t, edges)
          \/ HuntReleases(t) \/ HuntSaves(t)

\* The hunts, the anomaly scan and the other tasks of the slot together.
HuntNext ==
    \/ HuntStep
    \/ AnomStep /\ UNCHANGED huntVars
    \/ /\ \/ \E t \in HuntTasks \cup {AnomTask} :
                MarkBusy(t) \/ CheckEmpty(t) \/ ClearBusy(t)
          \/ \E t \in Tasks \ (HuntTasks \cup {AnomTask}) : Task(t)
       /\ UNCHANGED <<anomVars, huntVars>>

HuntSpec ==
    /\ Init /\ AnomInit /\ HuntInit
    /\ [][HuntNext]_<<vars, anomVars, huntVars>>

-----------------------------------------------------------------------------
(* Properties *)

\* A run never brings a deleted hunt back, and a hunt that was not edited
\* while a run held a copy of it is as its user last left it.
HuntsNotClobbered ==
    /\ gone \cap DOMAIN hunts = {}
    /\ \A id \in DOMAIN hunts \ shared : hunts[id].def = edited[id]
=============================================================================
