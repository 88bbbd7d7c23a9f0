------------------------------ MODULE Settings ------------------------------
(***************************************************************************)
(* The settings that administrators change at run time: retention          *)
(* (usecase/retention, clickhouse/retention.go), the login policy          *)
(* (httpapi/login_policy.go), the anomaly engine (usecase/anomaly/         *)
(* settings.go), the certificate of the web server (usecase/tls) and the   *)
(* search templates of each user (searchtemplatesfile).                    *)
(*                                                                         *)
(* A PUT validates, saves a JSON file (jsonfile, FileAtomic) and then      *)
(* brings the parts of the running system into line, one after the other:  *)
(* time-to-live clauses of tables, fields in memory, a ticker.  PUTs of    *)
(* several administrators interleave between any two of these steps; any   *)
(* step may fail; the process may restart and then applies what the files  *)
(* hold: in memory before it serves requests, to the tables while it does. *)
(* The value of a settings record is one number.                           *)
(***************************************************************************)
EXTENDS Integers, Sequences, FiniteSets

CONSTANTS
    Putters,            \* requests that can be in flight together
    Kinds,              \* kinds of settings that this behaviour changes
    Values,             \* values that requests carry, valid or not
    LowValue, HighValue,    \* the range that a validator accepts
    DefaultValue,       \* what a missing or unusable file stands for
    HourlyCap,          \* the 7 days of the hourly aggregate
    Owners, TemplateIds,
    MaxPerUser, MaxTemplatesAll,
    MaxPuts,            \* bound of the model: requests
    MaxSettingFaults    \* bound of the model: failed steps and restarts

ASSUME SettingsAssumption ==
    /\ IsFiniteSet(Putters) /\ IsFiniteSet(TemplateIds) /\ "boot" \notin Putters
    /\ Kinds \subseteq {"retention", "policy", "anomaly", "tls", "templates"}
    /\ Values \subseteq Nat /\ {LowValue, HighValue, DefaultValue, HourlyCap} \subseteq Nat \ {0}
    /\ DefaultValue \in LowValue..HighValue
    /\ {MaxPerUser, MaxTemplatesAll, MaxPuts, MaxSettingFaults} \subseteq Nat

VARIABLES
    kind,       \* the kind of settings of this behaviour
    stored,     \* its JSON file; 0 when there is none
    parts,      \* the state of each part of the running system
    tables,     \* the parts of the retention settings whose table exists
    spc,        \* the step a request is at; "apply" goes through sreq.at
    sreq,
    up,         \* the process serves requests
    settled,    \* history: the value that was reported last, 0 when in doubt
    templates,  \* search templates: users to sets of ids
    puts, settingFaults

settingVars == <<kind, stored, parts, tables, spc, sreq, up, settled, templates, puts,
                 settingFaults>>

(* The order in which applyAll, ApplyEdges, Update of the anomaly settings *)
(* and Update of the certificate touch the parts.                          *)
Order ==
    CASE kind = "retention" -> <<"traffic_logs", "edges_daily", "edges_hourly", "parse_errors", "system_metrics">>
      [] kind = "policy"    -> <<"limiter">>
      [] kind = "anomaly"   -> <<"config", "interval">>
      [] kind = "tls"       -> <<"cert", "key">>
      [] OTHER              -> <<>>

Parts == {Order[i] : i \in DOMAIN Order}

\* Parts in the memory of the process; tables and files outlive it.
Volatile == kind \in {"policy", "anomaly"}

(* The start-up sequence applies retention like one more request.          *)
Requests == Putters \union {"boot"}

NoPut == [value |-> 0, at |-> 0, alone |-> TRUE]

(* The value a part takes: the hourly aggregate is never kept longer than  *)
(* HourlyCap days, and the ticker not run more often than every minute.    *)
Applied(part, v) ==
    IF part = "edges_hourly" /\ v > HourlyCap THEN HourlyCap ELSE v

validate(v) == v \in LowValue..HighValue

validateLoginPolicy(v) == v \in LowValue..HighValue

validateSettings(v) == v \in LowValue..HighValue

\* The key belongs to the certificate, which has not expired.
validatePair(v) == v \in LowValue..HighValue

normalizeOrDefaults(v) == IF v \in LowValue..HighValue THEN v ELSE DefaultValue

normalizeLoginPolicy(v) == IF v = 0 THEN DefaultValue ELSE v

normalizeSettings(v) ==
    IF v < LowValue THEN DefaultValue ELSE IF v > HighValue THEN HighValue ELSE v

(* What the file stands for: Load of jsonfile answers a missing file with  *)
(* a zero value, LoadLoginPolicy and loadNormalized put defaults in.       *)
Loaded ==
    CASE kind = "retention" -> normalizeOrDefaults(stored)
      [] kind = "policy"    -> normalizeLoginPolicy(stored)
      [] kind = "anomaly"   -> normalizeSettings(stored)
      [] OTHER              -> stored

\* Only retention is left to the background.
Started == [c \in Requests |-> IF c = "boot" /\ kind = "retention" THEN "load" ELSE "idle"]

(* A first start: no files, tables with the default clause.                *)
SettingsInit ==
    /\ kind \in Kinds /\ stored = 0
    /\ tables \in IF kind = "retention" THEN {Parts, Parts \ {"edges_hourly"}} ELSE {Parts}
    /\ parts = [p \in Parts |-> IF kind = "tls" THEN 0 ELSE Applied(p, DefaultValue)]
    /\ spc = Started /\ sreq = [c \in Requests |-> NoPut]
    /\ up = FALSE /\ settled = 0
    /\ templates = [u \in Owners |-> {}]
    /\ puts = 0 /\ settingFaults = 0

SettingFault == settingFaults < MaxSettingFaults /\ settingFaults' = settingFaults + 1

SDone(c) == spc' = [spc EXCEPT ![c] = "idle"] /\ sreq' = [sreq EXCEPT ![c] = NoPut]

InFlight == {c \in Requests : spc[c] # "idle"}

-----------------------------------------------------------------------------
\* A request begins at step l; one that a validator refuses changes nothing.
Begin(c, v, valid, l) ==
    /\ up /\ spc[c] = "idle" /\ puts < MaxPuts /\ puts' = puts + 1
    /\ IF valid
       THEN /\ spc' = [spc EXCEPT ![c] = l]
            /\ sreq' = [d \in Requests |->
                          IF d = c THEN [value |-> v, at |-> 1, alone |-> InFlight = {}]
                          ELSE [sreq[d] EXCEPT !.alone = @ /\ d \notin InFlight]]
            /\ settled' = 0
       ELSE UNCHANGED <<spc, sreq, settled>>
    /\ UNCHANGED <<kind, stored, parts, tables, up, templates, settingFaults>>

PutRetention(c) == kind = "retention" /\ \E v \in Values : Begin(c, v, validate(v), "save")

PutLoginPolicy(c) == kind = "policy" /\ \E v \in Values : Begin(c, v, validateLoginPolicy(v), "save")

PutAnomalySettings(c) == kind = "anomaly" /\ \E v \in Values : Begin(c, v, validateSettings(v), "save")

\* There is no JSON file behind the certificate: its two files are the parts.
PutTLS(c) == kind = "tls" /\ \E v \in Values : Begin(c, v, validatePair(v), "apply")

(* Save of jsonfile, or saveLoginPolicy.                                   *)
Save(c) ==
    /\ spc[c] = "save"
    /\ \/ stored' = sreq[c].value /\ spc' = [spc EXCEPT ![c] = "apply"] /\ UNCHANGED <<sreq, settingFaults>>
       \/ SettingFault /\ SDone(c) /\ UNCHANGED stored
    /\ UNCHANGED <<kind, parts, tables, up, settled, templates, puts>>

\* The next part of the request; one that is not there is skipped.
ApplyPart(c, p) ==
    /\ spc[c] = "apply" /\ sreq[c].at <= Len(Order) /\ p = Order[sreq[c].at]
    /\ parts' = IF p \in tables THEN [parts EXCEPT ![p] = Applied(p, sreq[c].value)] ELSE parts
    /\ sreq' = [sreq EXCEPT ![c].at = @ + 1]
    /\ UNCHANGED <<kind, stored, tables, spc, up, settled, templates, puts, settingFaults>>

modifyTTL(c) == kind = "retention" /\ \E p \in Parts : ApplyPart(c, p)

SetLimiter(c) == kind = "policy" /\ ApplyPart(c, "limiter")

ApplySettings(c) == kind = "anomaly" /\ ApplyPart(c, "config")

\* SetInterval resets the ticker, or leaves the value for the one to come.
SetInterval(c) == kind = "anomaly" /\ ApplyPart(c, "interval")

writeAtomic(c) == kind = "tls" /\ \E p \in Parts : ApplyPart(c, p)

ApplyFailsGoesOn(c) ==
    /\ spc[c] = "apply" /\ sreq[c].at <= Len(Order) /\ ~Volatile
    /\ SettingFault /\ sreq' = [sreq EXCEPT ![c].at = @ + 1]
    /\ UNCHANGED <<kind, stored, parts, tables, spc, up, settled, templates, puts>>

(* applyAll and Update return at the first error; fields in memory cannot  *)
(* fail.                                                                   *)
ApplyFails(c) ==
    /\ spc[c] = "apply" /\ sreq[c].at <= Len(Order) /\ ~Volatile
    /\ SettingFault /\ SDone(c)
    /\ UNCHANGED <<kind, stored, parts, tables, up, settled, templates, puts>>

(* The request is answered with success.                                   *)
Succeed(c) ==
    /\ spc[c] = "apply" /\ sreq[c].at > Len(Order)
    /\ settled' = IF sreq[c].alone THEN sreq[c].value ELSE 0
    /\ SDone(c)
    /\ UNCHANGED <<kind, stored, parts, tables, up, templates, puts, settingFaults>>

(* The process ends; memory is lost, requests in flight too.               *)
SettingsRestart ==
    /\ SettingFault
    /\ up' = FALSE
    /\ parts' = IF Volatile THEN [p \in Parts |-> Applied(p, DefaultValue)] ELSE parts
    /\ spc' = Started /\ sreq' = [c \in Requests |-> NoPut]
    /\ settled' = IF kind = "tls" THEN settled ELSE 0
    /\ UNCHANGED <<kind, stored, tables, templates, puts>>

(* LoadLoginPolicy and LoadAndApply before the server listens.             *)
LoadAndApply ==
    /\ ~up /\ up' = TRUE
    /\ parts' = IF Volatile THEN [p \in Parts |-> Applied(p, Loaded)] ELSE parts
    /\ settled' = IF Volatile THEN Loaded ELSE settled
    /\ UNCHANGED <<kind, stored, tables, spc, sreq, templates, puts, settingFaults>>

(* ApplyFromStore in the background; an error is logged and no more.       *)
ApplyFromStore ==
    /\ spc["boot"] = "load"
    /\ spc' = [spc EXCEPT !["boot"] = "apply"]
    /\ sreq' = [sreq EXCEPT !["boot"] = [value |-> Loaded, at |-> 1, alone |-> InFlight = {"boot"}]]
    /\ UNCHANGED <<kind, stored, parts, tables, up, settled, templates, puts, settingFaults>>

-----------------------------------------------------------------------------
(* Search templates: each operation loads the file, changes it and saves   *)
(* it under one mutex, so each is one step; a failed save changes nothing. *)
Total == Cardinality({e \in Owners \X TemplateIds : e[2] \in templates[e[1]]})

saveUnlocked(new, total) ==
    \/ total <= MaxTemplatesAll /\ templates' = new /\ UNCHANGED settingFaults
    \/ SettingFault /\ UNCHANGED templates

StoreCreateTemplate(u, t) ==
    /\ \A o \in Owners : t \notin templates[o]
    /\ Cardinality(templates[u]) < MaxPerUser
    /\ saveUnlocked([templates EXCEPT ![u] = @ \union {t}], Total + 1)

\* Update changes the name and the query of a template of its owner.
StoreUpdateTemplate(u, t) == t \in templates[u] /\ saveUnlocked(templates, Total)

StoreDeleteTemplate(u, t) ==
    t \in templates[u] /\ saveUnlocked([templates EXCEPT ![u] = @ \ {t}], Total - 1)

\* The handlers take the owner from the session.
TemplateRequest ==
    /\ kind = "templates" /\ puts < MaxPuts /\ puts' = puts + 1
    /\ UNCHANGED <<kind, stored, parts, tables, spc, sreq, up, settled>>

CreateMine == TemplateRequest /\ \E u \in Owners, t \in TemplateIds : StoreCreateTemplate(u, t)

UpdateMine == TemplateRequest /\ \E u \in Owners, t \in TemplateIds : StoreUpdateTemplate(u, t)

DeleteMine == TemplateRequest /\ \E u \in Owners, t \in TemplateIds : StoreDeleteTemplate(u, t)

SettingsNext ==
    \/ \E c \in Putters :
         PutRetention(c) \/ PutLoginPolicy(c) \/ PutAnomalySettings(c) \/ PutTLS(c) \/ Save(c)
    \/ \E c \in Requests :
         \/ modifyTTL(c) \/ SetLimiter(c) \/ ApplySettings(c) \/ SetInterval(c) \/ writeAtomic(c)
         \/ ApplyFails(c) \/ Succeed(c)
    \/ SettingsRestart \/ LoadAndApply \/ ApplyFromStore
    \/ CreateMine \/ UpdateMine \/ DeleteMine

SettingsSpec == SettingsInit /\ [][SettingsNext]_settingVars

-----------------------------------------------------------------------------
(* A value that was reported as set, by a request that no other (nor the   *)
(* start-up) overlapped, or that a start applied without an error, is the  *)
(* one the file holds and the one every part of the system works with,     *)
(* until another request or a restart begins; for the certificate, the two *)
(* files belong together.                                                  *)
ReportedIsEffective ==
    settled # 0 =>
        /\ kind # "tls" => Loaded = settled
        /\ \A p \in Parts \intersect tables : parts[p] = Applied(p, settled)
=============================================================================
