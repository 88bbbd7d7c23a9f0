----------------------------- MODULE Reputation -----------------------------
(***************************************************************************)
(* Reputation lists (usecase/reputation, reputationjob, repstore,          *)
(* reputationfeedsfile): a table of ranges and an in-memory index of them, *)
(* filled by the feed job and by CSV uploads.  Every change of one list    *)
(* reads the whole table, changes the copy and replaces the table, then    *)
(* does the same to the index; only the replacement itself is locked.      *)
(***************************************************************************)
EXTENDS HeavySlot

CONSTANTS
    RepTask,        \* the feed job among the tasks of the heavy slot
    Feeds,          \* the names a feed or an uploaded list may have
    SeedFeeds,      \* DefaultFeeds, for a missing feeds file
    MaxVersion,     \* bound: versions of a feed's content
    RepUserOps      \* bound: operations of users and restarts

ASSUME RepAssumption ==
    /\ RepTask \in Tasks
    /\ SeedFeeds \subseteq Feeds
    /\ MaxVersion \in Nat \ {0} /\ RepUserOps \in Nat

VARIABLES
    table,          \* reputation_ranges: a function from list names to content
    index,          \* the in-memory index, likewise
    feedFile,       \* reputation_feeds.json, NoFile before the first save
    jobFeeds,       \* Scheduler.feeds
    remote,         \* the version each feed's server has
    etag,           \* the version of each feed's last ETag, 0 for none
    job,            \* the feed job's run
    edit,           \* a change of one list in progress, per actor
    userOps,        \* what is left of RepUserOps
    stored,         \* all content ever committed to the table
    quiet           \* no operation of a user, no failure since the run began

repVars == <<table, index, feedFile, jobFeeds, remote, etag, job, edit,
             userOps, stored, quiet>>

Actors == {"job", "user", "boot"}
NoFile == {"no file"}
NoEdit == [at |-> "idle"]
Idle == [at |-> "idle"]

Without(f, name) == [n \in DOMAIN f \ {name} |-> f[n]]
With(f, name, content) ==
    [n \in DOMAIN f \cup {name} |-> IF n = name THEN content ELSE f[n]]

RepInit ==
    /\ table = << >> /\ index = << >>
    /\ feedFile = NoFile
    /\ jobFeeds = {}
    /\ remote = [f \in Feeds |-> 1]
    /\ etag = [f \in Feeds |-> 0]
    /\ job = [at |-> "down"]
    /\ edit = [a \in Actors |-> NoEdit]
    /\ userOps = RepUserOps
    /\ stored = {}
    /\ quiet = FALSE

-----------------------------------------------------------------------------
(* A change of one list, for any of the actors.  content = NoContent is a  *)
(* deletion.                                                               *)

NoContent == [ver |-> 0, src |-> "none"]

EditGoes(a, r) == edit' = [edit EXCEPT ![a] = r]
Changed(f, name, content) ==
    IF content = NoContent THEN Without(f, name) ELSE With(f, name, content)
EditOnly == UNCHANGED <<feedFile, jobFeeds, remote, etag, job, userOps, vars>>

StartEdit(name, content) ==
    [at |-> "load", name |-> name, content |-> content]

\* ReplaceList and DeleteList of the store read the whole table ...
StoreLoads(a) ==
    /\ edit[a].at = "load"
    /\ EditGoes(a, [at |-> "replace", name |-> edit[a].name,
                    content |-> edit[a].content, copy |-> table])
    /\ EditOnly /\ UNCHANGED <<table, index, stored, quiet>>

\* ... and replace it by the changed copy.
StoreReplaces(a) ==
    LET e == edit[a] IN
    /\ e.at = "replace"
    /\ table' = Changed(e.copy, e.name, e.content)
    /\ stored' = stored \cup ({<<e.name, e.content>>} \ {<<e.name, NoContent>>})
    /\ EditGoes(a, [e EXCEPT !.at = "index"])
    /\ EditOnly /\ UNCHANGED <<index, quiet>>

\* Either statement fails: the caller gets the error, the index is untouched.
StoreFails(a) ==
    /\ edit[a].at \in {"load", "replace"}
    /\ EditGoes(a, [at |-> "failed"])
    /\ quiet' = FALSE
    /\ EditOnly /\ UNCHANGED <<table, index, stored>>

\* Index.ReplaceList and DeleteList load the snapshot ...
IndexLoads(a) ==
    LET e == edit[a] IN
    /\ e.at = "index"
    /\ EditGoes(a, [at |-> "publish", name |-> e.name, content |-> e.content,
                    copy |-> index])
    /\ EditOnly /\ UNCHANGED <<table, index, stored, quiet>>

\* ... and publish the changed copy.
IndexPublishes(a) ==
    LET e == edit[a] IN
    /\ e.at = "publish"
    /\ index' = Changed(e.copy, e.name, e.content)
    /\ EditGoes(a, [at |-> "done"])
    /\ EditOnly /\ UNCHANGED <<table, stored, quiet>>

EditStep(a) ==
    \/ StoreLoads(a) \/ StoreReplaces(a) \/ StoreFails(a)
    \/ IndexLoads(a) \/ IndexPublishes(a)

-----------------------------------------------------------------------------
(* Operations of users *)

MayAct == userOps > 0 /\ edit["user"].at = "idle" /\ job.at # "down"
UserActs == userOps' = userOps - 1 /\ quiet' = FALSE
UserOnly == UNCHANGED <<table, index, remote, etag, job, stored, vars>>

\* AddFeed, under the service's lock: the file is read, changed and saved,
\* then the job gets the new set.
AddFeed(name) ==
    /\ MayAct /\ name \notin feedFile
    /\ feedFile' = feedFile \cup {name}
    /\ jobFeeds' = feedFile'
    /\ UserActs /\ UserOnly /\ UNCHANGED edit

\* RemoveFeed and DeleteList first take the feed from the file and the job
\* (removeFeedConfig), then delete the list's data.
RemoveFeed(name) ==
    /\ MayAct
    /\ feedFile' = feedFile \ {name}
    /\ jobFeeds' = IF name \in feedFile THEN feedFile' ELSE jobFeeds
    /\ EditGoes("user", StartEdit(name, NoContent))
    /\ UserActs /\ UserOnly

\* UploadCSV replaces the list that the file names.
UploadCSV(name) ==
    /\ MayAct
    /\ EditGoes("user", StartEdit(name, [ver |-> 0, src |-> "upload"]))
    /\ UserActs /\ UserOnly /\ UNCHANGED <<feedFile, jobFeeds>>

UserDone ==
    /\ edit["user"].at \in {"done", "failed"}
    /\ EditGoes("user", NoEdit)
    /\ UserOnly /\ UNCHANGED <<feedFile, jobFeeds, userOps, quiet>>

-----------------------------------------------------------------------------
(* The feed job *)

JobGoes(r) == job' = r
JobOnly == UNCHANGED <<table, index, feedFile, jobFeeds, remote, userOps, stored>>

\* runOnce waits for the heavy slot and gives up when it is cancelled.
RunWaits ==
    /\ job.at = "idle" /\ AcquireWaits(RepTask)
    /\ JobGoes([at |-> "wait"])
    /\ JobOnly /\ UNCHANGED <<etag, edit, quiet>>

RunAcquires ==
    /\ job.at = "wait" /\ Acquire(RepTask)
    /\ JobGoes([at |-> "begin"])
    /\ JobOnly /\ UNCHANGED <<etag, edit, quiet>>

RunCancelled ==
    /\ job.at = "wait" /\ AcquireCancelled(RepTask)
    /\ JobGoes(Idle)
    /\ JobOnly /\ UNCHANGED <<etag, edit, quiet>>

JobAt(place) == job.at = place /\ pc[RepTask] = "held"

\* The set of feeds is read once; force ignores the entity tags.
RunBegins(force) ==
    /\ JobAt("begin")
    /\ JobGoes([at |-> "feeds", keep |-> jobFeeds, todo |-> jobFeeds,
                force |-> force])
    /\ quiet' = (edit["user"].at = "idle" /\ edit["boot"].at = "idle")
    /\ JobOnly /\ UNCHANGED <<etag, edit, vars>>

\* fetchOne: the server answers 304 when the tag sent is its version.
FetchNotModified(f) ==
    /\ JobAt("feeds") /\ f \in job.todo
    /\ ~job.force /\ etag[f] = remote[f]
    /\ JobGoes([job EXCEPT !.todo = @ \ {f}])
    /\ JobOnly /\ UNCHANGED <<etag, edit, quiet, vars>>

\* No answer, a bad status, an empty or unreadable body.
FetchFails(f) ==
    /\ JobAt("feeds") /\ f \in job.todo
    /\ JobGoes([job EXCEPT !.todo = @ \ {f}])
    /\ quiet' = FALSE
    /\ JobOnly /\ UNCHANGED <<etag, edit, vars>>

Fetched(f) ==
    /\ JobAt("feeds") /\ f \in job.todo
    /\ job.force \/ etag[f] # remote[f]
    /\ JobGoes([at |-> "apply", keep |-> job.keep, todo |-> job.todo \ {f},
                force |-> job.force, feed |-> f, ver |-> remote[f]])
    /\ EditGoes("job", StartEdit(f, [ver |-> remote[f], src |-> "url"]))
    /\ JobOnly /\ UNCHANGED <<etag, quiet, vars>>

\* Mutant: the tag is kept whether or not the list was applied.
AppliedTagAlways ==
    /\ JobAt("apply") /\ edit["job"].at \in {"done", "failed"}
    /\ etag' = [etag EXCEPT ![job.feed] = job.ver]
    /\ EditGoes("job", NoEdit)
    /\ JobGoes([at |-> "feeds", keep |-> job.keep, todo |-> job.todo,
                force |-> job.force])
    /\ JobOnly /\ UNCHANGED <<quiet, vars>>

\* The tag is kept once the list is in the table and in the index.
Applied ==
    /\ JobAt("apply") /\ edit["job"].at \in {"done", "failed"}
    /\ etag' = IF edit["job"].at = "done" THEN [etag EXCEPT ![job.feed] = job.ver]
               ELSE etag
    /\ EditGoes("job", NoEdit)
    /\ JobGoes([at |-> "feeds", keep |-> job.keep, todo |-> job.todo,
                force |-> job.force])
    /\ JobOnly /\ UNCHANGED <<quiet, vars>>

\* ListLists: the index, or the table when the index is empty.
ListLists == IF index # << >> THEN index ELSE table

\* Mutant: the lists of the table are pruned, whatever the index holds.
PruneBeginsByTable ==
    /\ JobAt("feeds") /\ job.todo = {}
    /\ JobGoes([at |-> "prune",
                todo |-> {n \in DOMAIN table \ job.keep : table[n].src = "url"}])
    /\ JobOnly /\ UNCHANGED <<etag, edit, quiet, vars>>

\* pruneObsoleteURLLists: URL lists that the run's own set of feeds does not
\* name; uploads are left alone.
PruneBegins ==
    /\ JobAt("feeds") /\ job.todo = {}
    /\ JobGoes([at |-> "prune",
                todo |-> {n \in DOMAIN ListLists \ job.keep :
                              ListLists[n].src = "url"}])
    /\ JobOnly /\ UNCHANGED <<etag, edit, quiet, vars>>

\* The lists cannot be read: nothing is pruned.
PruneUnlisted ==
    /\ JobAt("feeds") /\ job.todo = {} /\ index = << >>
    /\ JobGoes([at |-> "prune", todo |-> {}])
    /\ quiet' = FALSE
    /\ JobOnly /\ UNCHANGED <<etag, edit, vars>>

Prune(n) ==
    /\ JobAt("prune") /\ n \in job.todo
    /\ edit["job"].at \in {"idle", "done", "failed"}
    /\ EditGoes("job", StartEdit(n, NoContent))
    /\ JobGoes([job EXCEPT !.todo = @ \ {n}])
    /\ JobOnly /\ UNCHANGED <<etag, quiet, vars>>

\* The deferred Release.
RunEnds ==
    /\ job.at = "prune" /\ job.todo = {}
    /\ edit["job"].at \in {"idle", "done", "failed"}
    /\ Release(RepTask)
    /\ EditGoes("job", NoEdit)
    /\ JobGoes([at |-> "idle"])
    /\ JobOnly /\ UNCHANGED <<etag, quiet>>

-----------------------------------------------------------------------------
(* Start, restart and the servers *)

\* LoadOrSeed; the index is filled by a reload of its own.
RepStart ==
    /\ job.at = "down"
    /\ feedFile' = IF feedFile = NoFile THEN SeedFeeds ELSE feedFile
    /\ jobFeeds' = feedFile'
    /\ JobGoes(Idle)
    /\ EditGoes("boot", [at |-> "reload"])
    /\ UNCHANGED <<table, index, remote, etag, userOps, stored, quiet, vars>>

\* Reload reads the table ...
ReloadReads ==
    /\ edit["boot"].at = "reload"
    /\ EditGoes("boot", [at |-> "fill", copy |-> table])
    /\ UNCHANGED <<table, index, feedFile, jobFeeds, remote, etag, job, userOps,
                   stored, quiet, vars>>

\* ... and replaces the whole index by it, or fails and leaves it.
ReloadFills(ok) ==
    /\ edit["boot"].at = "fill"
    /\ index' = IF ok THEN edit["boot"].copy ELSE index
    /\ quiet' = FALSE
    /\ EditGoes("boot", NoEdit)
    /\ UNCHANGED <<table, feedFile, jobFeeds, remote, etag, job, userOps,
                   stored, vars>>

\* The process ends; the table and the file stay.
RepCrash ==
    /\ job.at # "down" /\ userOps > 0
    /\ userOps' = userOps - 1
    /\ index' = << >> /\ jobFeeds' = {}
    /\ etag' = [f \in Feeds |-> 0]
    /\ job' = [at |-> "down"]
    /\ edit' = [a \in Actors |-> NoEdit]
    /\ sem' = 0 /\ busy' = FALSE /\ pc' = [t \in Tasks |-> "idle"]
    /\ quiet' = FALSE
    /\ UNCHANGED <<table, feedFile, remote, stored>>

\* A feed's server publishes a new version.
Published(f) ==
    /\ \A g \in Feeds : remote[g] < MaxVersion
    /\ remote' = [remote EXCEPT ![f] = @ + 1]
    /\ UNCHANGED <<table, index, feedFile, jobFeeds, etag, job, edit, userOps,
                   stored, quiet, vars>>

RepStep ==
    \/ \E a \in {"job", "user"} : EditStep(a)
    \/ \E f \in Feeds :
          \/ AddFeed(f) \/ RemoveFeed(f) \/ UploadCSV(f) \/ Published(f)
          \/ FetchNotModified(f) \/ FetchFails(f) \/ Fetched(f) \/ Prune(f)
    \/ UserDone \/ RunWaits \/ RunAcquires \/ RunCancelled
    \/ \E force \in BOOLEAN : RunBegins(force)
    \/ Applied \/ PruneBegins \/ PruneUnlisted \/ RunEnds
    \/ RepStart \/ ReloadReads \/ (\E ok \in BOOLEAN : ReloadFills(ok)) \/ RepCrash

\* The job among the other tasks of the heavy slot.
RepNext ==
    \/ RepStep
    \/ /\ \/ MarkBusy(RepTask) \/ CheckEmpty(RepTask) \/ ClearBusy(RepTask)
          \/ \E t \in Tasks \ {RepTask} : Task(t)
       /\ UNCHANGED repVars

RepSpec == Init /\ RepInit /\ [][RepNext]_<<vars, repVars>>

-----------------------------------------------------------------------------
(* Properties *)

\* What Lookup answers from, and what an entity tag stands for, was once in
\* the table: a failed replacement never shows up in the index, and never
\* makes the next request conditional on a version that was not applied.
CommittedBeforeSeen ==
    /\ \A n \in DOMAIN index : <<n, index[n]>> \in stored
    /\ \A f \in Feeds : etag[f] # 0 =>
          <<f, [ver |-> etag[f], src |-> "url"]>> \in stored

\* A run that met no user and no failure leaves no list of a removed feed in
\* the index: what an earlier run brought back after its removal is gone.
PruneComplete ==
    (job.at = "idle" /\ quiet) =>
        \A n \in DOMAIN index : index[n].src = "url" => n \in feedFile
=============================================================================
