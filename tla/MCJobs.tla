------------------------------- MODULE MCJobs -------------------------------
(* The jobs that share the heavy slot, one at a time with its contenders: *)
(* focus says whose state moves in a behaviour.                           *)
EXTENDS Hunts, Reputation

CONSTANT MaxAcks    \* acknowledged alerts

VARIABLE focus

allVars == <<vars, anomVars, huntVars, repVars, focus>>

MCWin == [portScan |-> 1, horizontal |-> 1, blocked |-> 1, hour |-> 4,
          day |-> 8, lateral |-> 1, rep |-> 1, repLookback |-> 8, beacon |-> 8,
          baselineDays |-> 1, blockedCooldown |-> 6, countryCooldown |-> 8,
          learning |-> 4]

MCTh == [PortScanPorts |-> 2, PortScanEvents |-> 2, HorizontalHosts |-> 2,
         HorizontalEvents |-> 2, SurgeRatio |-> 2, SurgeAbsMin |-> 2,
         SurgeFloor |-> 1, NewCountryMin |-> 1, NewCountryBaseline |-> 1,
         NewCountryMinShare |-> 25, RepMinEvents |-> 1, ByteSurgeRatio |-> 2,
         ByteSurgeAbsMin |-> 4, ByteSurgeFloor |-> 1, BeaconMinHours |-> 2,
         BeaconMaxAvgBytes |-> 1, BeaconMinRegularity |-> 50,
         LateralHosts |-> 2, LateralEvents |-> 2]

MCNets == {[lo |-> 1, hi |-> 3, name |-> "office"]}

Row(src, dst, port, country, blocked, bytes) ==
    [src |-> src, dst |-> dst, port |-> port, country |-> country,
     blocked |-> blocked, bytes |-> bytes]

Table(rows, times) ==
    {[id |-> i, at |-> times[i]] @@ rows[i] : i \in DOMAIN rows}

\* Histories: a surge of blocks with a port scan, a fan-out inside the office,
\* steady small traffic to one peer, bytes that rise and a listed peer.
MCStartLogs ==
    {Table(<<Row(1, 8, 1, "FR", TRUE, 0), Row(1, 8, 1, "FR", TRUE, 0),
             Row(1, 8, 2, "FR", TRUE, 0)>>, <<13, 14, 14>>),
     Table(<<Row(1, 2, 1, "", FALSE, 0), Row(1, 3, 1, "", FALSE, 0)>>,
           <<14, 14>>),
     Table(<<Row(1, 8, 1, "FR", FALSE, 1), Row(1, 8, 1, "FR", FALSE, 1)>>,
           <<9, 14>>),
     Table(<<Row(2, 8, 1, "FR", FALSE, 1), Row(2, 9, 1, "FR", FALSE, 4)>>,
           <<10, 14>>)}

MCLogRows == {Row(1, 8, 1, "DE", TRUE, 0)}

ASSUME MCRoles ==
    Cardinality({AnomTask, HuntTick, HuntNow, RepTask}) = 4

MCInit ==
    /\ Init /\ AnomInit /\ HuntInit /\ RepInit
    /\ focus \in {"slot", "anomaly", "hunts", "reputation"}
    /\ focus # "anomaly" => logs = CHOOSE L \in StartLogs : TRUE

\* The rest of a TryAcquire, Acquire or Release that a job has begun.
SlotSteps == \E t \in Tasks : MarkBusy(t) \/ CheckEmpty(t) \/ ClearBusy(t)

\* Another task holds the slot for a while.
Contender ==
    LET t == CHOOSE x \in Tasks : x \notin HuntTasks \cup {AnomTask, RepTask}
    IN  TryAcquire(t) \/ Release(t)

\* Steps that commute with the detectors (acknowledging, assigning, the passing
\* of time and of the deadline) are taken where they can matter: between scans
\* and around the lookups.
AnomNext ==
    \/ ScanStep /\ (scan.at = "detect" => ~scan'.expired)
    \/ /\ scan.at \notin {"gate", "detect", "done"}
       /\ AckStep
       /\ Cardinality(acks') <= MaxAcks
    \/ scan.at = "idle" /\ acking # NoAck /\ AssignStep
    \/ scan.at \in {"idle", "existing"} /\ ClockTick
    \/ scan.at = "detect" /\ \E r \in LogRows : LogArrives(r)

\* Nobody reads the flag in these parts: a job's channel operation and its
\* flag store are taken together here, and apart in the focus "slot".
Settled == \A t \in Tasks : pc[t] \in {"idle", "waiting", "held"}

MCNext ==
    /\ UNCHANGED focus
    /\ \/ /\ focus = "slot"
          /\ Next
          /\ UNCHANGED <<anomVars, huntVars, repVars>>
       \/ /\ focus # "slot" /\ ~Settled
          /\ SlotSteps
          /\ UNCHANGED <<anomVars, huntVars, repVars>>
       \/ /\ focus = "anomaly" /\ Settled
          /\ \/ AnomNext
             \/ scan.at = "idle" /\ Contender /\ UNCHANGED anomVars
          /\ UNCHANGED <<huntVars, repVars>>
       \/ /\ focus = "hunts" /\ Settled
          /\ \/ HuntStep
             \/ clock < StartClock + 1 /\ ClockTick /\ UNCHANGED huntVars
          /\ UNCHANGED repVars
       \/ /\ focus = "reputation" /\ Settled
          /\ RepStep /\ (remote' # remote => userOps = RepUserOps /\ job.at = "idle")
          /\ UNCHANGED <<anomVars, huntVars>>

MCSpec == MCInit /\ [][MCNext]_allVars
=============================================================================
