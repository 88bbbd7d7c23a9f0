------------------------------- MODULE MCGeo -------------------------------
(***************************************************************************)
(* The GeoIP data, one part at a time.                                     *)
(* The table: two uploads that overlap, an empty list and a truncate.      *)
(* The index: four networks; an appended range and a clear, an upload and  *)
(* a restart, or a changed range and a restart.                            *)
(* The jobs: a reload after an edit, a maintenance backfill and the        *)
(* enrichment of the start-up, with two slots so that workMu decides.      *)
(***************************************************************************)
EXTENDS TableSwap, GeoIndex, GeoJobs

CONSTANTS upload, correction, empty, truncate, append, update, clear, reload, maintenance, enrich

MCWriters == {upload, correction, empty, truncate}
MCTruncates == {truncate}
MCWant(w) ==
    CASE w = upload -> {1, 2}
      [] w = correction -> {2, 3, 4}
      [] OTHER -> {}

Row(n, m) == [net |-> n, meta |-> m]

MCCallKind(c) ==
    CASE c = upload -> "upload" [] c = append -> "append"
      [] c = update -> "update" [] c = clear -> "clear"

\* Every call brings a network of its own.
MCBrought(c) ==
    CASE c = upload -> {Row(2, "a"), Row(3, "a")}
      [] c = append -> {Row(2, "b")}
      [] c = update -> {Row(4, "a")}
      [] OTHER -> {}

MCScenarios == {[calls |-> {append, clear}, restarts |-> 0],
                [calls |-> {upload}, restarts |-> 1],
                [calls |-> {update}, restarts |-> 1]}
MCOriginal(c) == 1
MCInitialRanges == {Row(1, "a")}

MCJobKind(j) == IF j = maintenance THEN "maintenance" ELSE IF j = enrich THEN "enrich" ELSE "reload"

\* The part that moves.
VARIABLE focus

geoVars == <<vars, indexVars, jobVars, focus>>

\* What does not move is in one of its initial states.
GeoInit ==
    /\ Init /\ IndexInit /\ JobInit
    /\ focus \in {"table", "index", "jobs"}
    /\ focus # "index" => file = NoFile /\ step[update] = "idle"

GeoNext ==
    /\ UNCHANGED focus
    /\ \/ focus = "table" /\ Next /\ UNCHANGED <<indexVars, jobVars>>
       \/ focus = "index" /\ IndexNext /\ UNCHANGED <<vars, jobVars>>
       \/ focus = "jobs" /\ JobNext /\ UNCHANGED <<vars, indexVars>>

GeoSpec ==
    /\ GeoInit /\ [][GeoNext]_geoVars
    /\ \A j \in Jobs :
          /\ WF_geoVars(/\ focus = "jobs" /\ UNCHANGED <<vars, indexVars, focus>>
                        /\ \/ CheckGate(j) \/ AcquireCancelled(j) \/ Lock(j) \/ CheckCtx(j)
                           \/ CheckGen(j) \/ Recheck(j))
          /\ WF_geoVars(/\ focus = "jobs" /\ UNCHANGED <<vars, indexVars, focus>>
                        /\ j \in cancelled /\ GiveUp(j))
    /\ WF_geoVars(focus = "jobs" /\ ShutdownDone /\ UNCHANGED <<vars, indexVars, focus>>)
=============================================================================
