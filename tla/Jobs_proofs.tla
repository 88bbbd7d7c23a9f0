----------------------------- MODULE Jobs_proofs -----------------------------
(***************************************************************************)
(* The slot of the heavy tasks and the jobs that share it: the semaphore   *)
(* and its flag, the reputation lists and the saved hunts, for any number  *)
(* of tasks, slots, feeds, hunts, runs and restarts.                       *)
(***************************************************************************)
EXTENDS Hunts, Reputation, TLAPS, FiniteSetTheorems

-----------------------------------------------------------------------------
(* The semaphore *)

\* The flag is up only while a slot is taken or its releaser is still busy.
FlagJustified ==
    busy => sem > 0 \/ \E t \in Tasks : pc[t] \in {"received", "clear"}

IInv == TypeOK /\ SlotsExact /\ FlagJustified

\* Before the first task the semaphore is empty and the flag is down.
LEMMA InitIInv == Init => IInv
<1> SUFFICES ASSUME Init
             PROVE  IInv
  OBVIOUS
<1>1. TypeOK
  <2>1. sem \in 0 .. Slots
    BY SlotAssumption DEF Init
  <2>2. pc \in [Tasks -> Places]
    BY DEF Init, Places
  <2>3. busy \in BOOLEAN
    BY Zenon DEF Init
  <2>4. QED
    BY <2>1, <2>2, <2>3 DEF TypeOK
<1>2. Holders = {}
  BY DEF Init, Holders
<1>3. SlotsExact
  BY <1>2, FS_EmptySet DEF SlotsExact, Init
<1>4. QED
  BY <1>1, <1>3 DEF IInv, FlagJustified, Init

\* The holders are finitely many.
LEMMA HoldersFinite == IsFiniteSet(Holders) /\ Cardinality(Holders) \in Nat
BY SlotAssumption, FS_Subset, FS_CardinalityType DEF Holders

\* A task that enters the critical part adds one to the holders.
LEMMA HolderAdded ==
    ASSUME NEW t \in Tasks, t \notin Holders, Holders' = Holders \cup {t}
    PROVE  Cardinality(Holders') = Cardinality(Holders) + 1
BY HoldersFinite, FS_AddElement

\* A task that releases takes one from the holders, who were not none.
LEMMA HolderRemoved ==
    ASSUME NEW t \in Tasks, t \in Holders, Holders' = Holders \ {t}
    PROVE  /\ Cardinality(Holders') = Cardinality(Holders) - 1
           /\ Cardinality(Holders) > 0
<1>1. Cardinality(Holders \ {t}) = Cardinality(Holders) - 1
  BY HoldersFinite, FS_RemoveElement
<1>2. Holders # {}
  OBVIOUS
<1>3. Cardinality(Holders) # 0
  BY <1>2, HoldersFinite, FS_EmptySet
<1>4. QED
  BY <1>1, <1>3, HoldersFinite

\* Every step of every task preserves the invariant.
LEMMA NextIInv == IInv /\ [Next]_vars => IInv'
<1> SUFFICES ASSUME IInv, [Next]_vars
             PROVE  IInv'
  OBVIOUS
<1>0. /\ sem \in 0 .. Slots /\ busy \in BOOLEAN /\ pc \in [Tasks -> Places]
      /\ sem = Cardinality(Holders) /\ Slots \in Nat
  BY SlotAssumption DEF IInv, TypeOK, SlotsExact
<1>1. ASSUME NEW t \in Tasks, Task(t)
      PROVE  IInv'
  <2> USE DEF Goto, Places
  <2>1. CASE TryAcquire(t) \/ Acquire(t)
    <3>1. t \notin Holders /\ Holders' = Holders \cup {t}
      BY <1>0, <2>1 DEF TryAcquire, Acquire, Send, Holders
    <3>2. sem' = sem + 1 /\ sem < Slots /\ busy' = busy
      BY <2>1 DEF TryAcquire, Acquire, Send
    <3>3. SlotsExact'
      BY <1>0, <3>1, <3>2, HolderAdded DEF SlotsExact
    <3>4. TypeOK'
      BY <1>0, <2>1, <3>2 DEF TryAcquire, Acquire, Send, TypeOK
    <3>5. FlagJustified'
      BY <1>0, <3>2 DEF FlagJustified
    <3>6. QED
      BY <3>3, <3>4, <3>5 DEF IInv
  <2>2. CASE TryAcquireFails(t)
    BY <2>2 DEF TryAcquireFails, vars, IInv, TypeOK, SlotsExact, FlagJustified, Holders
  <2>3. CASE AcquireWaits(t) \/ AcquireCancelled(t)
    <3>1. Holders' = Holders
      BY <1>0, <2>3 DEF AcquireWaits, AcquireCancelled, Holders
    <3>2. TypeOK'
      BY <1>0, <2>3 DEF AcquireWaits, AcquireCancelled, TypeOK
    <3>3. FlagJustified'
      BY <1>0, <2>3 DEF AcquireWaits, AcquireCancelled, FlagJustified, IInv
    <3>4. QED
      BY <1>0, <2>3, <3>1, <3>2, <3>3
         DEF AcquireWaits, AcquireCancelled, IInv, SlotsExact
  <2>4. CASE MarkBusy(t)
    <3>1. Holders' = Holders /\ t \in Holders
      BY <1>0, <2>4 DEF MarkBusy, Holders
    <3>2. sem > 0
      <4>1. Holders # {}
        BY <3>1
      <4>2. QED
        BY <1>0, <4>1, HoldersFinite, FS_EmptySet
    <3>3. TypeOK'
      BY <1>0, <2>4 DEF MarkBusy, TypeOK
    <3>4. QED
      BY <1>0, <2>4, <3>1, <3>2, <3>3 DEF MarkBusy, IInv, SlotsExact, FlagJustified
  <2>5. CASE Release(t)
    <3>1. t \in Holders /\ Holders' = Holders \ {t}
      BY <1>0, <2>5 DEF Release, Holders
    <3>2. sem' = sem - 1 /\ busy' = busy /\ pc'[t] = "received"
      BY <1>0, <2>5 DEF Release
    <3>3. sem > 0 /\ SlotsExact'
      BY <1>0, <3>1, <3>2, HolderRemoved DEF SlotsExact
    <3>4. TypeOK'
      BY <1>0, <2>5, <3>2, <3>3 DEF Release, TypeOK
    <3>5. QED
      BY <3>2, <3>3, <3>4 DEF IInv, FlagJustified
  <2>6. CASE CheckEmpty(t)
    <3>1. Holders' = Holders
      BY <1>0, <2>6 DEF CheckEmpty, Holders
    <3>2. TypeOK'
      BY <1>0, <2>6 DEF CheckEmpty, TypeOK
    <3>3. FlagJustified'
      BY <1>0, <2>6 DEF CheckEmpty, FlagJustified, IInv
    <3>4. QED
      BY <1>0, <2>6, <3>1, <3>2, <3>3 DEF CheckEmpty, IInv, SlotsExact
  <2>7. CASE ClearBusy(t)
    <3>1. Holders' = Holders
      BY <1>0, <2>7 DEF ClearBusy, Holders
    <3>2. QED
      BY <1>0, <2>7, <3>1 DEF ClearBusy, IInv, TypeOK, SlotsExact, FlagJustified
  <2>8. QED
    BY <1>1, <2>1, <2>2, <2>3, <2>4, <2>5, <2>6, <2>7 DEF Task
<1>2. CASE UNCHANGED vars
  BY <1>2 DEF vars, IInv, TypeOK, SlotsExact, FlagJustified, Holders
<1>3. QED
  BY <1>1, <1>2 DEF Next

\* The inductive invariant holds in every behaviour of the limiter.
LEMMA IInvHolds == Spec => []IInv
BY InitIInv, NextIInv, PTL DEF Spec

\* The semaphore is never overdrawn or overfull and counts exactly the tasks
\* that own a slot, whatever is cancelled and whoever races.
THEOREM SemaphoreExact == Spec => []SlotsExact
<1>1. IInv => SlotsExact
  BY DEF IInv
<1>2. QED
  BY <1>1, IInvHolds, PTL

\* When the last task has left, Busy is false: no interleaving of releases
\* leaves ingest slowed down for good.
THEOREM FlagComesDown == Spec => []NeverStuckBusy
<1>1. IInv => NeverStuckBusy
  <2> SUFFICES ASSUME IInv, \A t \in Tasks : pc[t] \in {"idle", "waiting"}
               PROVE  ~busy
    BY DEF NeverStuckBusy
  <2>1. Holders = {}
    BY DEF Holders
  <2>2. sem = 0
    BY <2>1, FS_EmptySet DEF IInv, SlotsExact
  <2>3. QED
    BY <2>2 DEF IInv, FlagJustified
<1>2. QED
  BY <1>1, IInvHolds, PTL

-----------------------------------------------------------------------------
(* The reputation lists *)

\* Every list of f was once in the table.
WasStored(f) == \A n \in DOMAIN f : <<n, f[n]>> \in stored

Fields(e) == e = [at |-> e.at, name |-> e.name, content |-> e.content, copy |-> e.copy]

UrlContent(v) == [ver |-> v, src |-> "url"]

JobTypes ==
    /\ job.at \in {"down", "idle", "wait", "begin", "feeds", "apply", "prune"}
    /\ job.at = "feeds" =>
          job = [at |-> "feeds", keep |-> job.keep, todo |-> job.todo, force |-> job.force]
    /\ job.at = "prune" => job = [at |-> "prune", todo |-> job.todo]

EditTypes(e) ==
    /\ e.at \in {"idle", "load", "replace", "index", "publish", "done", "failed"}
    /\ e.at \in {"replace", "index", "publish"} => Fields(e)

RepTypes ==
    /\ edit = [a \in Actors |-> edit[a]]
    /\ etag = [f \in Feeds |-> etag[f]]
    /\ quiet \in BOOLEAN
    /\ JobTypes
    /\ edit["boot"].at \in {"idle", "reload", "fill"}
    /\ \A a \in {"job", "user"} : EditTypes(edit[a])

\* What a change of a list has in its hands.
EditStored ==
    /\ edit["boot"].at = "fill" => WasStored(edit["boot"].copy)
    /\ \A a \in {"job", "user"} :
          /\ edit[a].at \in {"replace", "publish"} => WasStored(edit[a].copy)
          /\ edit[a].at \in {"index", "publish"} =>
                edit[a].content = NoContent \/ <<edit[a].name, edit[a].content>> \in stored

\* The feed being applied is the one the job fetched.
Applying ==
    job.at = "apply" =>
        /\ edit["job"].at \in {"load", "replace", "index", "publish"} =>
              edit["job"].name = job.feed /\ edit["job"].content = UrlContent(job.ver)
        /\ edit["job"].at = "done" => <<job.feed, UrlContent(job.ver)>> \in stored

StoredInv ==
    /\ RepTypes
    /\ WasStored(table) /\ WasStored(index)
    /\ \A f \in Feeds : etag[f] # 0 => <<f, UrlContent(etag[f])>> \in stored
    /\ EditStored /\ Applying

\* Nobody but the job has changed anything since a quiet run began.
Undisturbed ==
    /\ job.at = "down" => ~quiet
    /\ job.at # "down" => jobFeeds = feedFile
    /\ quiet => edit["user"].at = "idle" /\ edit["boot"].at = "idle"
    /\ job.at \in {"down", "idle", "wait", "begin", "feeds"} => edit["job"].at = "idle"
    /\ quiet /\ edit["job"].at = "publish" => edit["job"].copy = index

Obsolete == {n \in DOMAIN index : index[n].src = "url" /\ n \notin feedFile}

\* The list that the job is deleting.
Deleting ==
    IF edit["job"].at \in {"load", "replace", "index", "publish"} THEN {edit["job"].name} ELSE {}

\* The lists of removed feeds are those the job has yet to delete.
Pruning ==
    /\ quiet /\ job.at \in {"feeds", "apply"} => job.keep = feedFile
    /\ job.at = "prune" /\ edit["job"].at \in {"load", "replace", "index", "publish"} =>
          edit["job"].content = NoContent
    /\ quiet /\ job.at = "prune" => Obsolete \subseteq job.todo \cup Deleting
    /\ quiet /\ job.at \in {"idle", "wait", "begin"} => Obsolete = {}

RepInv == StoredInv /\ Undisturbed /\ Pruning

LEMMA ChangedStored ==
    ASSUME NEW f, NEW name, NEW content, WasStored(f),
           content = NoContent \/ <<name, content>> \in stored
    PROVE  WasStored(Changed(f, name, content))
BY DEF Changed, With, Without, WasStored

LEMMA InitStored == RepInit => StoredInv
<1> SUFFICES ASSUME RepInit PROVE StoredInv
  OBVIOUS
<1>1. \A a \in Actors : edit[a].at = "idle"
  BY DEF RepInit, NoEdit
<1>2. RepTypes
  BY <1>1 DEF RepInit, RepTypes, JobTypes, EditTypes, Actors
<1>3. \A f \in Feeds : etag[f] = 0
  BY DEF RepInit
<1>4. WasStored(table) /\ WasStored(index)
  BY DEF RepInit, WasStored
<1>5. EditStored /\ Applying
  BY <1>1 DEF EditStored, Applying, Actors, RepInit
<1>6. QED
  BY <1>2, <1>3, <1>4, <1>5 DEF StoredInv

\* A change of one list: what it leaves of the others, and what it goes on with.
LEMMA EditKeepsTypes ==
    ASSUME RepTypes, NEW a \in {"job", "user"}, NEW r, EditGoes(a, r), UNCHANGED <<etag, job>>,
           quiet' \in BOOLEAN,
           EditTypes(r)
    PROVE  RepTypes' /\ edit'[a] = r /\ \A b \in Actors \ {a} : edit'[b] = edit[b]
<1>1. edit'[a] = r /\ \A b \in Actors \ {a} : edit'[b] = edit[b]
  BY DEF RepTypes, EditGoes, Actors
<1>2. edit' = [b \in Actors |-> edit'[b]]
  BY DEF RepTypes, EditGoes
<1>3. \A b \in {"job", "user"} : EditTypes(edit'[b])
  BY <1>1 DEF RepTypes, Actors
<1>4. edit'["boot"].at \in {"idle", "reload", "fill"}
  BY <1>1 DEF RepTypes, Actors
<1>5. JobTypes' /\ etag' = [f \in Feeds |-> etag'[f]]
  BY DEF RepTypes, JobTypes
<1>6. QED
  BY <1>1, <1>2, <1>3, <1>4, <1>5 DEF RepTypes, EditTypes

\* The record that goes on from the table to the index.
LEMMA FieldsExcept ==
    ASSUME NEW e, Fields(e), NEW at
    PROVE  [e EXCEPT !.at = at] = [at |-> at, name |-> e.name, content |-> e.content, copy |-> e.copy]
<1>1. PICK n, c, k, old : e = [at |-> old, name |-> n, content |-> c, copy |-> k]
  BY DEF Fields
<1>2. e.name = n /\ e.content = c /\ e.copy = k
  BY <1>1
<1>3. [e EXCEPT !.at = at] = [at |-> at, name |-> n, content |-> c, copy |-> k]
  BY <1>1
<1>4. QED
  BY <1>2, <1>3

\* The new value of actor a's change, in every kind of step.
LEMMA EditRecord ==
    ASSUME RepTypes, NEW a \in {"job", "user"}, EditStep(a)
    PROVE  \E r : /\ EditGoes(a, r)
                  /\ r.at \in {"replace", "index", "publish", "done", "failed"}
                  /\ r.at \in {"replace", "index", "publish"} =>
                        Fields(r) /\ r.name = edit[a].name /\ r.content = edit[a].content
                  /\ r.at = "replace" => StoreLoads(a) /\ r.copy = table
                  /\ r.at = "index" => StoreReplaces(a)
                  /\ r.at = "publish" => IndexLoads(a) /\ r.copy = index
                  /\ r.at = "failed" => StoreFails(a)
                  /\ r.at = "done" => IndexPublishes(a)
<1>1. CASE StoreLoads(a)
  <2>1. PICK r : /\ r = [at |-> "replace", name |-> edit[a].name, content |-> edit[a].content, copy |-> table]
                 /\ EditGoes(a, r)
    BY <1>1 DEF StoreLoads
  <2>2. QED
    BY <1>1, <2>1 DEF Fields
<1>2. CASE StoreReplaces(a)
  <2>1. Fields(edit[a])
    BY <1>2 DEF StoreReplaces, RepTypes, EditTypes
  <2>2. PICK r : /\ r = [edit[a] EXCEPT !.at = "index"]
                 /\ EditGoes(a, r)
    BY <1>2 DEF StoreReplaces
  <2>3. r = [at |-> "index", name |-> edit[a].name, content |-> edit[a].content, copy |-> edit[a].copy]
    BY <2>1, <2>2, FieldsExcept
  <2>4. QED
    BY <1>2, <2>2, <2>3 DEF Fields
<1>3. CASE IndexLoads(a)
  <2>1. PICK r : /\ r = [at |-> "publish", name |-> edit[a].name,
                          content |-> edit[a].content, copy |-> index]
                 /\ EditGoes(a, r)
    BY <1>3 DEF IndexLoads
  <2>2. QED
    BY <1>3, <2>1 DEF Fields
<1>4. CASE StoreFails(a)
  <2>1. PICK r : r = [at |-> "failed"] /\ EditGoes(a, r)
    BY <1>4 DEF StoreFails
  <2>2. QED
    BY <1>4, <2>1
<1>5. CASE IndexPublishes(a)
  <2>1. PICK r : r = [at |-> "done"] /\ EditGoes(a, r)
    BY <1>5 DEF IndexPublishes
  <2>2. QED
    BY <1>5, <2>1
<1>6. QED
  BY <1>1, <1>2, <1>3, <1>4, <1>5 DEF EditStep

LEMMA EditStoredStep ==
    ASSUME StoredInv, NEW a \in {"job", "user"}, EditStep(a)
    PROVE  StoredInv'
<1>1. PICK r : /\ EditGoes(a, r)
               /\ r.at \in {"replace", "index", "publish", "done", "failed"}
               /\ r.at \in {"replace", "index", "publish"} =>
                     Fields(r) /\ r.name = edit[a].name /\ r.content = edit[a].content
               /\ r.at = "replace" => StoreLoads(a) /\ r.copy = table
               /\ r.at = "index" => StoreReplaces(a)
               /\ r.at = "publish" => IndexLoads(a) /\ r.copy = index
               /\ r.at = "failed" => StoreFails(a)
               /\ r.at = "done" => IndexPublishes(a)
  BY EditRecord DEF StoredInv
<1>2. UNCHANGED <<etag, job>> /\ stored \subseteq stored'
  BY DEF EditStep, StoreLoads, StoreReplaces, StoreFails, IndexLoads, IndexPublishes, EditOnly
<1>3. quiet' \in BOOLEAN
  BY DEF EditStep, StoreLoads, StoreReplaces, StoreFails, IndexLoads, IndexPublishes, StoredInv, RepTypes
<1>4. RepTypes' /\ edit'[a] = r /\ \A b \in Actors \ {a} : edit'[b] = edit[b]
  BY <1>1, <1>2, <1>3, EditKeepsTypes DEF StoredInv, EditTypes
<1>5. WasStored(table)'
  <2>1. CASE StoreReplaces(a)
    <3>1. /\ table' = Changed(edit[a].copy, edit[a].name, edit[a].content)
          /\ stored' = stored \cup ({<<edit[a].name, edit[a].content>>} \ {<<edit[a].name, NoContent>>})
          /\ WasStored(edit[a].copy)
      BY <2>1 DEF StoreReplaces, StoredInv, EditStored
    <3>2. edit[a].content = NoContent \/ <<edit[a].name, edit[a].content>> \in stored'
      BY <3>1
    <3>3. QED
      <4>1. CASE edit[a].content = NoContent
        BY <1>2, <3>1, <4>1, ChangedStored DEF WasStored
      <4>2. CASE edit[a].content # NoContent
        BY <1>2, <3>1, <3>2, <4>2 DEF Changed, With, WasStored
      <4>3. QED
        BY <4>1, <4>2
  <2>2. CASE ~StoreReplaces(a)
    <3>1. table' = table
      BY <2>2 DEF EditStep, StoreLoads, StoreFails, IndexLoads, IndexPublishes
    <3>2. QED
      BY <1>2, <3>1 DEF StoredInv, WasStored
  <2>3. QED
    BY <2>1, <2>2
<1>6. WasStored(index)'
  <2>1. CASE IndexPublishes(a)
    <3>1. /\ index' = Changed(edit[a].copy, edit[a].name, edit[a].content)
          /\ stored' = stored
          /\ WasStored(edit[a].copy)
          /\ edit[a].content = NoContent \/ <<edit[a].name, edit[a].content>> \in stored
      BY <2>1 DEF IndexPublishes, StoredInv, EditStored
    <3>2. QED
      BY <3>1, ChangedStored DEF WasStored
  <2>2. CASE ~IndexPublishes(a)
    <3>1. index' = index
      BY <2>2 DEF EditStep, StoreLoads, StoreReplaces, StoreFails, IndexLoads
    <3>2. QED
      BY <1>2, <3>1 DEF StoredInv, WasStored
  <2>3. QED
    BY <2>1, <2>2
<1>7. \A f \in Feeds : etag'[f] # 0 => <<f, UrlContent(etag'[f])>> \in stored'
  BY <1>2 DEF StoredInv
<1>8. r.at \in {"index", "publish"} => r.content = NoContent \/ <<r.name, r.content>> \in stored'
  <2>1. r.at = "index" => stored' = stored \cup ({<<edit[a].name, edit[a].content>>}
                                                    \ {<<edit[a].name, NoContent>>})
    BY <1>1 DEF StoreReplaces
  <2>2. r.at = "publish" => edit[a].at = "index"
    BY <1>1 DEF IndexLoads
  <2>3. QED
    BY <1>1, <1>2, <2>1, <2>2 DEF StoredInv, EditStored
<1>9. EditStored'
  <2>1. edit'["boot"] = edit["boot"]
    BY <1>4 DEF Actors
  <2>2. \A b \in {"job", "user"} \ {a} : edit'[b] = edit[b]
    BY <1>4 DEF Actors
  <2>3. r.at \in {"replace", "publish"} => WasStored(r.copy)
    BY <1>1 DEF StoredInv
  <2>4. QED
    BY <1>2, <1>4, <1>8, <2>1, <2>2, <2>3 DEF StoredInv, EditStored, WasStored
<1>10. Applying'
  <2>1. CASE a = "user"
    BY <1>2, <1>4, <2>1 DEF StoredInv, Applying, Actors
  <2>2. CASE a = "job" /\ job.at = "apply"
    <3>1. r.at \in {"replace", "index", "publish"} => edit["job"].at \in {"load", "replace", "index"}
      BY <1>1, <2>2 DEF StoreLoads, StoreReplaces, IndexLoads
    <3>2. r.at = "done" => edit["job"].at = "publish"
      BY <1>1, <2>2 DEF IndexPublishes
    <3>3. \A v : UrlContent(v) # NoContent
      BY DEF UrlContent, NoContent
    <3>4. QED
      BY <1>1, <1>2, <1>4, <2>2, <3>1, <3>2, <3>3 DEF StoredInv, Applying, EditStored
  <2>3. QED
    BY <1>2, <2>1, <2>2 DEF Applying
<1>11. QED
  BY <1>4, <1>5, <1>6, <1>7, <1>9, <1>10 DEF StoredInv

\* Steps that leave what was stored alone.
LEMMA StoredKept ==
    ASSUME StoredInv, UNCHANGED <<table, index, etag, stored>>, RepTypes', EditStored', Applying'
    PROVE  StoredInv'
BY DEF StoredInv, WasStored

\* The job moves, and no change of a list does.
LEMMA JobMoves ==
    ASSUME StoredInv, UNCHANGED <<table, index, etag, stored, edit>>, JobTypes',
           quiet' \in BOOLEAN, job'.at = "apply" => job' = job
    PROVE  StoredInv'
<1>1. RepTypes'
  BY DEF StoredInv, RepTypes, EditTypes, Fields
<1>2. EditStored'
  BY DEF StoredInv, EditStored, WasStored
<1>3. Applying'
  BY DEF StoredInv, Applying
<1>4. QED
  BY <1>1, <1>2, <1>3, StoredKept

\* An actor gets a change to make, or is done with one.
LEMMA EditMoves ==
    ASSUME StoredInv, UNCHANGED <<table, index, etag, stored>>, JobTypes',
           quiet' \in BOOLEAN, NEW a \in {"job", "user"}, NEW r, EditGoes(a, r),
           r.at \in {"idle", "load"}, Applying'
    PROVE  StoredInv'
<1>1. edit'[a] = r /\ \A b \in Actors \ {a} : edit'[b] = edit[b]
  BY DEF StoredInv, RepTypes, EditGoes, Actors
<1>2. RepTypes'
  <2>1. edit' = [b \in Actors |-> edit'[b]]
    BY DEF StoredInv, RepTypes, EditGoes
  <2>2. \A b \in {"job", "user"} : EditTypes(edit'[b])
    BY <1>1 DEF StoredInv, RepTypes, Actors, EditTypes
  <2>3. edit'["boot"].at \in {"idle", "reload", "fill"}
    BY <1>1 DEF StoredInv, RepTypes, Actors
  <2>4. etag' = [f \in Feeds |-> etag'[f]]
    BY DEF StoredInv, RepTypes
  <2>5. QED
    BY <2>1, <2>2, <2>3, <2>4 DEF RepTypes, EditTypes, Fields
<1>3. EditStored'
  <2>1. \A b \in {"job", "user"} \ {a} : edit'[b] = edit[b]
    BY <1>1 DEF Actors
  <2>2. edit'["boot"] = edit["boot"]
    BY <1>1 DEF Actors
  <2>3. QED
    BY <1>1, <2>1, <2>2 DEF StoredInv, EditStored, WasStored
<1>4. QED
  BY <1>2, <1>3, StoredKept

\* What the run does with the record it carries.
LEMMA JobRecord ==
    ASSUME JobTypes, job.at \in {"feeds", "prune"}, NEW f, job' = [job EXCEPT !.todo = @ \ {f}]
    PROVE  /\ job'.at = job.at /\ job'.todo = job.todo \ {f} /\ JobTypes'
           /\ job.at = "feeds" => job'.keep = job.keep
<1>1. CASE job.at = "feeds"
  <2>1. PICK k, t, g : job = [at |-> "feeds", keep |-> k, todo |-> t, force |-> g]
    BY <1>1 DEF JobTypes
  <2>2. job' = [at |-> "feeds", keep |-> k, todo |-> t \ {f}, force |-> g]
    BY <2>1
  <2>3. QED
    BY <1>1, <2>1, <2>2 DEF JobTypes
<1>2. CASE job.at = "prune"
  <2>1. PICK t : job = [at |-> "prune", todo |-> t]
    BY <1>2 DEF JobTypes
  <2>2. job' = [at |-> "prune", todo |-> t \ {f}]
    BY <2>1
  <2>3. QED
    BY <1>2, <2>1, <2>2 DEF JobTypes
<1>3. QED
  BY <1>1, <1>2

\* The steps in which no change of a list goes on.
LEMMA JobStoredStep ==
    ASSUME StoredInv, NEW f,
           \/ AddFeed(f) \/ Published(f) \/ RunWaits \/ RunAcquires \/ RunCancelled
           \/ (\E force \in BOOLEAN : RunBegins(force)) \/ FetchNotModified(f) \/ FetchFails(f)
           \/ PruneBegins \/ PruneUnlisted
    PROVE  StoredInv'
<1>1. UNCHANGED <<table, index, etag, stored, edit>>
  BY DEF AddFeed, Published, RunWaits, RunAcquires, RunCancelled, RunBegins, FetchNotModified, FetchFails,
         PruneBegins, PruneUnlisted, UserOnly, JobOnly
<1>2. quiet \in BOOLEAN /\ JobTypes
  BY DEF StoredInv, RepTypes
<1>3. quiet' \in BOOLEAN
  <2>1. CASE \E force \in BOOLEAN : RunBegins(force)
    BY <2>1, Zenon DEF RunBegins
  <2>2. CASE ~\E force \in BOOLEAN : RunBegins(force)
    BY <1>2, <2>2 DEF AddFeed, Published, RunWaits, RunAcquires, RunCancelled, FetchNotModified, FetchFails,
         PruneBegins, PruneUnlisted, UserActs
  <2>3. QED
    BY <2>1, <2>2
<1>4. JobTypes' /\ (job'.at = "apply" => job' = job)
  <2>1. CASE FetchNotModified(f) \/ FetchFails(f)
    <3>1. job.at = "feeds" /\ job' = [job EXCEPT !.todo = @ \ {f}]
      BY <2>1 DEF FetchNotModified, FetchFails, JobAt, JobGoes
    <3>2. QED
      BY <1>2, <3>1, JobRecord
  <2>2. CASE AddFeed(f) \/ Published(f)
    BY <1>2, <2>2 DEF AddFeed, Published, UserOnly, JobTypes
  <2>3. CASE RunWaits \/ RunAcquires \/ RunCancelled
    BY <2>3 DEF RunWaits, RunAcquires, RunCancelled, JobGoes, Idle, JobTypes
  <2>4. CASE \E force \in BOOLEAN : RunBegins(force)
    BY <2>4 DEF RunBegins, JobGoes, JobTypes
  <2>5. CASE PruneBegins \/ PruneUnlisted
    <3>1. PICK t : job' = [at |-> "prune", todo |-> t]
      BY <2>5 DEF PruneBegins, PruneUnlisted, JobGoes
    <3>2. QED
      BY <3>1 DEF JobTypes
  <2>6. QED
    BY <2>1, <2>2, <2>3, <2>4, <2>5
<1>5. QED
  BY <1>1, <1>3, <1>4, JobMoves

\* The steps that hand out a change of a list.
LEMMA HandedStoredStep ==
    ASSUME StoredInv, NEW f,
           RemoveFeed(f) \/ UploadCSV(f) \/ UserDone \/ Fetched(f) \/ Prune(f) \/ RunEnds
    PROVE  StoredInv'
<1>1. UNCHANGED <<table, index, etag, stored>>
  BY DEF RemoveFeed, UploadCSV, UserDone, Fetched, Prune, RunEnds, UserOnly, JobOnly
<1>2. quiet \in BOOLEAN /\ JobTypes
  BY DEF StoredInv, RepTypes
<1>3. quiet' \in BOOLEAN
  BY <1>2 DEF RemoveFeed, UploadCSV, UserDone, Fetched, Prune, RunEnds, UserActs
<1>4. CASE RemoveFeed(f) \/ UploadCSV(f) \/ UserDone
  <2>1. PICK r : EditGoes("user", r) /\ r.at \in {"idle", "load"}
    BY <1>4 DEF RemoveFeed, UploadCSV, UserDone, StartEdit, NoEdit
  <2>2. job' = job
    BY <1>4 DEF RemoveFeed, UploadCSV, UserDone, UserOnly
  <2>3. edit'["job"] = edit["job"]
    BY <2>1 DEF StoredInv, RepTypes, EditGoes, Actors
  <2>4. JobTypes' /\ Applying'
    BY <1>1, <1>2, <2>2, <2>3 DEF JobTypes, Applying, StoredInv
  <2>5. QED
    BY <1>1, <1>3, <2>1, <2>4, EditMoves
<1>5. CASE Fetched(f)
  <2>1. PICK r : EditGoes("job", r) /\ r = StartEdit(f, UrlContent(remote[f]))
    BY <1>5 DEF Fetched, UrlContent
  <2>2. edit'["job"] = r
    BY <2>1 DEF StoredInv, RepTypes, EditGoes, Actors
  <2>3. job'.at = "apply" /\ job'.feed = f /\ job'.ver = remote[f]
    BY <1>5 DEF Fetched, JobGoes
  <2>4. JobTypes'
    BY <2>3 DEF JobTypes
  <2>5. r.at = "load" /\ r.name = f /\ r.content = UrlContent(remote[f])
    BY <2>1 DEF StartEdit
  <2>6. Applying'
    BY <2>2, <2>3, <2>5 DEF Applying, UrlContent
  <2>7. QED
    BY <1>1, <1>3, <2>1, <2>4, <2>5, <2>6, EditMoves
<1>6. CASE Prune(f)
  <2>1. PICK r : EditGoes("job", r) /\ r = StartEdit(f, NoContent)
    BY <1>6 DEF Prune
  <2>2. r.at = "load"
    BY <2>1 DEF StartEdit
  <2>3. job'.at = "prune" /\ JobTypes'
    <3>1. job.at = "prune" /\ job' = [job EXCEPT !.todo = @ \ {f}]
      BY <1>6 DEF Prune, JobAt, JobGoes
    <3>2. QED
      BY <1>2, <3>1, JobRecord
  <2>4. QED
    BY <1>1, <1>3, <2>1, <2>2, <2>3, EditMoves DEF Applying
<1>7. CASE RunEnds
  <2>1. PICK r : EditGoes("job", r) /\ r.at = "idle"
    BY <1>7 DEF RunEnds, NoEdit
  <2>2. job'.at = "idle"
    BY <1>7 DEF RunEnds, JobGoes
  <2>3. JobTypes' /\ Applying'
    BY <2>2 DEF JobTypes, Applying
  <2>4. QED
    BY <1>1, <1>3, <2>1, <2>3, EditMoves
<1>8. QED
  BY <1>4, <1>5, <1>6, <1>7

\* The entity tag is the version that was applied.
LEMMA AppliedStoredStep ==
    ASSUME StoredInv, Applied
    PROVE  StoredInv'
<1>1. /\ UNCHANGED <<table, index, stored, quiet>>
      /\ job.at = "apply"
      /\ edit["job"].at \in {"done", "failed"}
      /\ EditGoes("job", NoEdit)
      /\ job' = [at |-> "feeds", keep |-> job.keep, todo |-> job.todo, force |-> job.force]
  BY DEF Applied, JobOnly, JobAt, JobGoes
<1>2. edit'["job"] = NoEdit /\ \A b \in Actors \ {"job"} : edit'[b] = edit[b]
  BY <1>1 DEF StoredInv, RepTypes, EditGoes, Actors
<1>3. JobTypes' /\ job'.at = "feeds"
  BY <1>1 DEF JobTypes
<1>4. etag' = [g \in Feeds |-> etag'[g]]
  BY DEF Applied, StoredInv, RepTypes
<1>5. \A g \in Feeds : etag'[g] # 0 => <<g, UrlContent(etag'[g])>> \in stored
  <2>1. CASE edit["job"].at = "done"
    <3>1. etag' = [etag EXCEPT ![job.feed] = job.ver]
      BY <2>1 DEF Applied
    <3>2. <<job.feed, UrlContent(job.ver)>> \in stored
      BY <1>1, <2>1 DEF StoredInv, Applying
    <3>3. \A g \in Feeds : etag'[g] = IF g = job.feed THEN job.ver ELSE etag[g]
      BY <3>1 DEF StoredInv, RepTypes
    <3>4. QED
      BY <3>2, <3>3 DEF StoredInv
  <2>2. CASE edit["job"].at # "done"
    BY <2>2 DEF Applied, StoredInv
  <2>3. QED
    BY <2>1, <2>2
<1>6. RepTypes'
  <2>1. edit' = [b \in Actors |-> edit'[b]]
    BY <1>1 DEF StoredInv, RepTypes, EditGoes
  <2>2. EditTypes(edit'["job"])
    BY <1>2 DEF NoEdit, EditTypes
  <2>3. EditTypes(edit'["user"])
    BY <1>2 DEF StoredInv, RepTypes, Actors, EditTypes
  <2>4. edit'["boot"].at \in {"idle", "reload", "fill"}
    BY <1>2 DEF StoredInv, RepTypes, Actors
  <2>5. quiet' \in BOOLEAN
    BY <1>1 DEF StoredInv, RepTypes
  <2>6. QED
    BY <1>3, <1>4, <2>1, <2>2, <2>3, <2>4, <2>5 DEF RepTypes, EditTypes, Fields
<1>7. EditStored' /\ Applying'
  <2>1. edit'["boot"] = edit["boot"] /\ edit'["user"] = edit["user"] /\ edit'["job"].at = "idle"
    BY <1>2 DEF Actors, NoEdit
  <2>2. QED
    BY <1>1, <1>3, <2>1 DEF StoredInv, EditStored, Applying, WasStored
<1>8. QED
  BY <1>1, <1>5, <1>6, <1>7 DEF StoredInv, WasStored

\* The steps of a start and of the reload it begins.
LEMMA BootStoredStep ==
    ASSUME StoredInv, RepStart \/ ReloadReads \/ (\E ok \in BOOLEAN : ReloadFills(ok))
    PROVE  StoredInv'
<1>1. UNCHANGED <<table, etag, stored>> /\ (job' = job \/ job'.at = "idle")
  BY DEF RepStart, ReloadReads, ReloadFills, JobGoes, Idle
<1>2. PICK r : /\ EditGoes("boot", r) /\ r.at \in {"idle", "reload", "fill"}
               /\ r.at = "fill" => r.copy = table
  BY DEF RepStart, ReloadReads, ReloadFills, NoEdit
<1>3. edit'["boot"] = r /\ \A b \in {"job", "user"} : edit'[b] = edit[b]
  BY <1>2 DEF StoredInv, RepTypes, EditGoes, Actors
<1>4. WasStored(index)'
  <2>1. CASE \E ok \in BOOLEAN : ReloadFills(ok)
    BY <1>1, <2>1 DEF ReloadFills, StoredInv, EditStored, WasStored
  <2>2. CASE RepStart \/ ReloadReads
    BY <1>1, <2>2 DEF RepStart, ReloadReads, StoredInv, WasStored
  <2>3. QED
    BY <2>1, <2>2
<1>5. RepTypes'
  <2>1. edit' = [b \in Actors |-> edit'[b]] /\ etag' = [f \in Feeds |-> etag'[f]]
    BY <1>1, <1>2 DEF StoredInv, RepTypes, EditGoes
  <2>2. JobTypes'
    BY <1>1 DEF StoredInv, RepTypes, JobTypes
  <2>3. quiet' \in BOOLEAN
    BY DEF RepStart, ReloadReads, ReloadFills, StoredInv, RepTypes
  <2>4. \A b \in {"job", "user"} : EditTypes(edit'[b])
    BY <1>3 DEF StoredInv, RepTypes
  <2>5. QED
    BY <1>2, <1>3, <2>1, <2>2, <2>3, <2>4 DEF RepTypes, EditTypes, Fields
<1>6. EditStored'
  BY <1>1, <1>2, <1>3 DEF StoredInv, EditStored, WasStored
<1>7. Applying'
  BY <1>1, <1>3 DEF StoredInv, Applying
<1>8. QED
  BY <1>1, <1>4, <1>5, <1>6, <1>7 DEF StoredInv, WasStored

\* After a restart the table is all there is.
LEMMA CrashStoredStep ==
    ASSUME StoredInv, RepCrash
    PROVE  StoredInv'
<1>1. \A a \in Actors : edit'[a].at = "idle"
  BY DEF RepCrash, NoEdit
<1>2. edit' = [a \in Actors |-> edit'[a]]
  BY DEF RepCrash
<1>3. etag' = [f \in Feeds |-> 0] /\ job'.at = "down" /\ quiet' \in BOOLEAN
  BY DEF RepCrash
<1>4. RepTypes'
  BY <1>1, <1>2, <1>3 DEF RepTypes, JobTypes, EditTypes, Actors
<1>5. WasStored(index)' /\ WasStored(table)'
  BY DEF RepCrash, StoredInv, WasStored
<1>6. EditStored' /\ Applying'
  BY <1>1, <1>3 DEF EditStored, Applying, Actors
<1>7. QED
  BY <1>3, <1>4, <1>5, <1>6 DEF StoredInv

LEMMA UntouchedStored ==
    ASSUME StoredInv, UNCHANGED repVars
    PROVE  StoredInv'
<1>1. UNCHANGED <<table, index, etag, stored, edit, job, quiet>>
  BY DEF repVars
<1>2. JobTypes' /\ quiet' \in BOOLEAN
  BY <1>1 DEF StoredInv, RepTypes, JobTypes
<1>3. QED
  BY <1>1, <1>2, JobMoves

LEMMA StoredStep ==
    ASSUME StoredInv, [RepNext]_<<vars, repVars>>
    PROVE  StoredInv'
<1>1. CASE RepStep
  <2>1. CASE \E a \in {"job", "user"} : EditStep(a)
    BY <2>1, EditStoredStep
  <2>2. CASE \E f \in Feeds : AddFeed(f) \/ Published(f) \/ FetchNotModified(f) \/ FetchFails(f)
    BY <2>2, JobStoredStep
  <2>3. CASE \E f \in Feeds : RemoveFeed(f) \/ UploadCSV(f) \/ Fetched(f) \/ Prune(f)
    BY <2>3, HandedStoredStep
  <2>4. CASE \/ RunWaits \/ RunAcquires \/ RunCancelled
             \/ (\E force \in BOOLEAN : RunBegins(force)) \/ PruneBegins \/ PruneUnlisted
    BY <2>4, JobStoredStep
  <2>5. CASE UserDone \/ RunEnds
    BY <2>5, HandedStoredStep
  <2>6. CASE Applied
    BY <2>6, AppliedStoredStep
  <2>7. CASE RepStart \/ ReloadReads \/ (\E ok \in BOOLEAN : ReloadFills(ok))
    BY <2>7, BootStoredStep
  <2>8. CASE RepCrash
    BY <2>8, CrashStoredStep
  <2>9. QED
    BY <1>1, <2>1, <2>2, <2>3, <2>4, <2>5, <2>6, <2>7, <2>8 DEF RepStep
<1>2. CASE UNCHANGED repVars
  BY <1>2, UntouchedStored
<1>3. QED
  BY <1>1, <1>2 DEF RepNext

\* What Lookup answers from was once in the table, and an entity tag stands
\* for a version that was applied.
THEOREM AnswersWereCommitted == RepSpec => []CommittedBeforeSeen
<1>1. Init /\ RepInit => StoredInv
  BY InitStored
<1>2. StoredInv /\ [RepNext]_<<vars, repVars>> => StoredInv'
  BY StoredStep
<1>3. StoredInv => CommittedBeforeSeen
  BY DEF StoredInv, CommittedBeforeSeen, WasStored, UrlContent
<1>4. QED
  BY <1>1, <1>2, <1>3, PTL DEF RepSpec

-----------------------------------------------------------------------------
(* A quiet run of the feed job prunes the lists of all removed feeds. *)

\* What is left to show of a step after which the run is not quiet.
LEMMA NotQuiet ==
    ASSUME ~quiet',
           job'.at # "down" => jobFeeds' = feedFile',
           job'.at \in {"down", "idle", "wait", "begin", "feeds"} => edit'["job"].at = "idle",
           job'.at = "prune" /\ edit'["job"].at \in {"load", "replace", "index", "publish"} =>
              edit'["job"].content = NoContent
    PROVE  Undisturbed' /\ Pruning'
BY DEF Undisturbed, Pruning

\* Steps of which a quiet run would not be one, and which do not move the job.
LEMMA DisturbingStep ==
    ASSUME RepInv, NEW f,
           \/ AddFeed(f) \/ RemoveFeed(f) \/ UploadCSV(f) \/ UserDone \/ EditStep("user")
           \/ ReloadReads \/ (\E ok \in BOOLEAN : ReloadFills(ok))
    PROVE  Undisturbed' /\ Pruning'
<1>1. job' = job
  BY DEF AddFeed, RemoveFeed, UploadCSV, UserDone, ReloadReads, ReloadFills, UserOnly, EditStep, EditOnly,
         StoreLoads, StoreReplaces, StoreFails, IndexLoads, IndexPublishes
<1>2. edit'["job"] = edit["job"]
  <2>1. CASE AddFeed(f)
    BY <2>1 DEF AddFeed
  <2>2. CASE ~AddFeed(f)
    <3>1. PICK a \in {"user", "boot"} : \E r : EditGoes(a, r)
      BY <2>2 DEF RemoveFeed, UploadCSV, UserDone, ReloadReads, ReloadFills, EditStep,
                  StoreLoads, StoreReplaces, StoreFails, IndexLoads, IndexPublishes
    <3>2. QED
      BY <3>1 DEF RepInv, StoredInv, RepTypes, EditGoes, Actors
  <2>3. QED
    BY <2>1, <2>2
<1>3. ~quiet'
  <2>1. CASE AddFeed(f) \/ RemoveFeed(f) \/ UploadCSV(f) \/ (\E ok \in BOOLEAN : ReloadFills(ok))
    BY <2>1 DEF AddFeed, RemoveFeed, UploadCSV, ReloadFills, UserActs
  <2>2. CASE UserDone \/ EditStep("user") \/ ReloadReads
    <3>1. edit["user"].at # "idle" \/ edit["boot"].at # "idle"
      BY <2>2 DEF UserDone, ReloadReads, EditStep, StoreLoads, StoreReplaces, StoreFails,
                  IndexLoads, IndexPublishes
    <3>2. ~quiet
      BY <3>1 DEF RepInv, Undisturbed
    <3>3. QED
      BY <2>2, <3>2 DEF UserDone, ReloadReads, EditStep, StoreLoads, StoreReplaces, StoreFails,
                  IndexLoads, IndexPublishes
  <2>3. QED
    BY <2>1, <2>2
<1>4. job'.at # "down" => jobFeeds' = feedFile'
  <2>1. job.at # "down" => jobFeeds = feedFile
    BY DEF RepInv, Undisturbed
  <2>2. CASE AddFeed(f)
    BY <2>2 DEF AddFeed
  <2>3. CASE RemoveFeed(f)
    BY <1>1, <2>1, <2>3 DEF RemoveFeed
  <2>4. CASE ~AddFeed(f) /\ ~RemoveFeed(f)
    <3>1. UNCHANGED <<jobFeeds, feedFile>>
      BY <2>4 DEF UploadCSV, UserDone, ReloadReads, ReloadFills, UserOnly, EditStep, EditOnly,
                  StoreLoads, StoreReplaces, StoreFails, IndexLoads, IndexPublishes
    <3>2. QED
      BY <1>1, <2>1, <3>1
  <2>5. QED
    BY <2>2, <2>3, <2>4
<1>5. QED
  BY <1>1, <1>2, <1>3, <1>4, NotQuiet DEF RepInv, Undisturbed, Pruning

\* Steps of the job that disturb its run, and restarts.
LEMMA FailingStep ==
    ASSUME RepInv, NEW f,
           FetchFails(f) \/ PruneUnlisted \/ StoreFails("job") \/ RepStart \/ RepCrash
    PROVE  Undisturbed' /\ Pruning'
<1>1. CASE FetchFails(f)
  <2>1. job.at = "feeds" /\ job' = [job EXCEPT !.todo = @ \ {f}] /\ JobTypes
    BY <1>1 DEF FetchFails, JobAt, JobGoes, RepInv, StoredInv, RepTypes
  <2>2. job'.at = "feeds"
    BY <2>1, JobRecord
  <2>3. UNCHANGED <<edit, jobFeeds, feedFile>> /\ ~quiet'
    BY <1>1 DEF FetchFails, JobOnly
  <2>4. QED
    BY <2>1, <2>2, <2>3, NotQuiet DEF RepInv, Undisturbed
<1>2. CASE PruneUnlisted
  <2>1. job.at = "feeds" /\ job'.at = "prune"
    BY <1>2 DEF PruneUnlisted, JobAt, JobGoes
  <2>2. UNCHANGED <<edit, jobFeeds, feedFile>> /\ ~quiet'
    BY <1>2 DEF PruneUnlisted, JobOnly
  <2>3. QED
    BY <2>1, <2>2, NotQuiet DEF RepInv, Undisturbed
<1>3. CASE StoreFails("job")
  <2>1. /\ edit["job"].at \in {"load", "replace"} /\ EditGoes("job", [at |-> "failed"])
        /\ UNCHANGED <<job, jobFeeds, feedFile>> /\ ~quiet'
    BY <1>3 DEF StoreFails, EditOnly
  <2>2. edit'["job"].at = "failed"
    BY <2>1 DEF RepInv, StoredInv, RepTypes, EditGoes, Actors
  <2>3. QED
    BY <2>1, <2>2, NotQuiet DEF RepInv, Undisturbed
<1>4. CASE RepStart
  <2>1. /\ job.at = "down" /\ job'.at = "idle" /\ quiet' = quiet /\ jobFeeds' = feedFile'
        /\ EditGoes("boot", [at |-> "reload"])
    BY <1>4 DEF RepStart, JobGoes, Idle
  <2>2. edit'["job"] = edit["job"]
    BY <2>1 DEF RepInv, StoredInv, RepTypes, EditGoes, Actors
  <2>3. QED
    BY <2>1, <2>2, NotQuiet DEF RepInv, Undisturbed
<1>5. CASE RepCrash
  <2>1. edit'["job"].at = "idle" /\ job'.at = "down" /\ ~quiet'
    BY <1>5 DEF RepCrash, NoEdit, Actors
  <2>2. QED
    BY <2>1, NotQuiet
<1>6. QED
  BY <1>1, <1>2, <1>3, <1>4, <1>5

\* The run up to the pruning.
LEMMA RunningStep ==
    ASSUME RepInv, NEW f,
           \/ RunWaits \/ RunAcquires \/ RunCancelled \/ (\E force \in BOOLEAN : RunBegins(force))
           \/ FetchNotModified(f) \/ Fetched(f) \/ Applied
    PROVE  Undisturbed' /\ Pruning'
<1>1. UNCHANGED <<index, feedFile, jobFeeds>>
  BY DEF RunWaits, RunAcquires, RunCancelled, RunBegins, FetchNotModified, Fetched, Applied, JobOnly
<1>2. \A b \in {"user", "boot"} : edit'[b] = edit[b]
  <2>1. edit' = edit \/ \E r : EditGoes("job", r)
    BY DEF RunWaits, RunAcquires, RunCancelled, RunBegins, FetchNotModified, Fetched, Applied
  <2>2. QED
    BY <2>1 DEF RepInv, StoredInv, RepTypes, EditGoes, Actors
<1>3. Obsolete' = Obsolete
  BY <1>1 DEF Obsolete
<1>4. CASE RunWaits \/ RunAcquires \/ RunCancelled
  <2>1. /\ job.at \in {"idle", "wait"} /\ job'.at \in {"idle", "wait", "begin"}
        /\ UNCHANGED <<edit, quiet>>
    BY <1>4 DEF RunWaits, RunAcquires, RunCancelled, JobGoes, Idle
  <2>2. QED
    BY <1>1, <1>3, <2>1 DEF RepInv, Undisturbed, Pruning
<1>5. CASE \E force \in BOOLEAN : RunBegins(force)
  <2>1. /\ job.at = "begin" /\ job'.at = "feeds" /\ job'.keep = jobFeeds
        /\ edit' = edit
    BY <1>5 DEF RunBegins, JobAt, JobGoes
  <2>2. quiet' => edit["user"].at = "idle" /\ edit["boot"].at = "idle"
    BY <1>5 DEF RunBegins
  <2>3. QED
    BY <1>1, <2>1, <2>2 DEF RepInv, Undisturbed, Pruning
<1>6. CASE FetchNotModified(f)
  <2>1. job.at = "feeds" /\ job' = [job EXCEPT !.todo = @ \ {f}] /\ JobTypes
    BY <1>6 DEF FetchNotModified, JobAt, JobGoes, RepInv, StoredInv, RepTypes
  <2>2. job'.at = "feeds" /\ job'.keep = job.keep
    BY <2>1, JobRecord
  <2>3. UNCHANGED <<edit, quiet>>
    BY <1>6 DEF FetchNotModified
  <2>4. QED
    BY <1>1, <2>1, <2>2, <2>3 DEF RepInv, Undisturbed, Pruning
<1>7. CASE Fetched(f)
  <2>1. job.at = "feeds" /\ job'.at = "apply" /\ job'.keep = job.keep /\ quiet' = quiet
    BY <1>7 DEF Fetched, JobAt, JobGoes
  <2>2. edit'["job"].at = "load"
    BY <1>7 DEF Fetched, StartEdit, RepInv, StoredInv, RepTypes, EditGoes, Actors
  <2>3. QED
    BY <1>1, <1>2, <2>1, <2>2 DEF RepInv, Undisturbed, Pruning
<1>8. CASE Applied
  <2>1. job.at = "apply" /\ job'.at = "feeds" /\ job'.keep = job.keep /\ quiet' = quiet
    BY <1>8 DEF Applied, JobAt, JobGoes
  <2>2. edit'["job"].at = "idle"
    BY <1>8 DEF Applied, NoEdit, RepInv, StoredInv, RepTypes, EditGoes, Actors
  <2>3. QED
    BY <1>1, <1>2, <2>1, <2>2 DEF RepInv, Undisturbed, Pruning
<1>9. QED
  BY <1>4, <1>5, <1>6, <1>7, <1>8

\* The pruning itself.
LEMMA PruningStep ==
    ASSUME RepInv, NEW f, PruneBegins \/ Prune(f) \/ RunEnds
    PROVE  Undisturbed' /\ Pruning'
<1>1. UNCHANGED <<index, feedFile, jobFeeds, quiet>>
  BY DEF PruneBegins, Prune, RunEnds, JobOnly
<1>2. Obsolete' = Obsolete
  BY <1>1 DEF Obsolete
<1>3. CASE PruneBegins
  <2>1. /\ job.at = "feeds" /\ edit' = edit
        /\ job' = [at |-> "prune",
                   todo |-> {n \in DOMAIN ListLists \ job.keep : ListLists[n].src = "url"}]
    BY <1>3 DEF PruneBegins, JobAt, JobGoes
  <2>2. job'.at = "prune" /\ job'.todo = {n \in DOMAIN ListLists \ job.keep : ListLists[n].src = "url"}
    BY <2>1
  <2>3. edit["job"].at = "idle"
    BY <2>1 DEF RepInv, Undisturbed
  <2>4. quiet => Obsolete \subseteq job'.todo
    <3> SUFFICES ASSUME quiet, NEW n \in Obsolete PROVE n \in job'.todo
      OBVIOUS
    <3>1. job.keep = feedFile
      BY <2>1 DEF RepInv, Pruning
    <3>2. ListLists = index
      BY DEF Obsolete, ListLists
    <3>3. QED
      BY <2>2, <3>1, <3>2 DEF Obsolete
  <2>5. QED
    BY <1>1, <1>2, <2>1, <2>2, <2>3, <2>4 DEF RepInv, Undisturbed, Pruning
<1>4. CASE Prune(f)
  <2>1. /\ job.at = "prune" /\ job' = [job EXCEPT !.todo = @ \ {f}] /\ JobTypes
        /\ edit["job"].at \in {"idle", "done", "failed"}
        /\ EditGoes("job", StartEdit(f, NoContent))
    BY <1>4 DEF Prune, JobAt, JobGoes, RepInv, StoredInv, RepTypes
  <2>2. job'.at = "prune" /\ job'.todo = job.todo \ {f}
    BY <2>1, JobRecord
  <2>3. edit'["job"] = StartEdit(f, NoContent) /\ \A b \in {"user", "boot"} : edit'[b] = edit[b]
    BY <2>1 DEF RepInv, StoredInv, RepTypes, EditGoes, Actors
  <2>4. edit'["job"].at = "load" /\ edit'["job"].name = f /\ edit'["job"].content = NoContent
    BY <2>3 DEF StartEdit
  <2>5. Deleting = {} /\ Deleting' = {f}
    BY <2>1, <2>4 DEF Deleting
  <2>6. quiet => Obsolete \subseteq job'.todo \cup {f}
    BY <2>1, <2>2, <2>5 DEF RepInv, Pruning
  <2>7. QED
    BY <1>1, <1>2, <2>1, <2>2, <2>3, <2>4, <2>5, <2>6 DEF RepInv, Undisturbed, Pruning
<1>5. CASE RunEnds
  <2>1. /\ job.at = "prune" /\ job.todo = {} /\ job'.at = "idle"
        /\ edit["job"].at \in {"idle", "done", "failed"}
        /\ EditGoes("job", NoEdit)
    BY <1>5 DEF RunEnds, JobGoes
  <2>2. edit'["job"].at = "idle" /\ \A b \in {"user", "boot"} : edit'[b] = edit[b]
    BY <2>1 DEF NoEdit, RepInv, StoredInv, RepTypes, EditGoes, Actors
  <2>3. quiet => Obsolete = {}
    BY <2>1 DEF RepInv, Pruning, Deleting
  <2>4. QED
    BY <1>1, <1>2, <2>1, <2>2, <2>3 DEF RepInv, Undisturbed, Pruning
<1>6. QED
  BY <1>3, <1>4, <1>5

\* The job's own change of a list, other than its failure.
LEMMA ChangingStep ==
    ASSUME RepInv, EditStep("job"), ~StoreFails("job")
    PROVE  Undisturbed' /\ Pruning'
<1>1. UNCHANGED <<job, jobFeeds, feedFile, quiet>>
  BY DEF EditStep, EditOnly, StoreLoads, StoreReplaces, IndexLoads, IndexPublishes
<1>2. PICK r : /\ EditGoes("job", r)
               /\ r.at \in {"replace", "index", "publish", "done", "failed"}
               /\ r.at \in {"replace", "index", "publish"} =>
                     Fields(r) /\ r.name = edit["job"].name /\ r.content = edit["job"].content
               /\ r.at = "replace" => StoreLoads("job")
               /\ r.at = "index" => StoreReplaces("job")
               /\ r.at = "publish" => IndexLoads("job") /\ r.copy = index
               /\ r.at = "failed" => StoreFails("job")
               /\ r.at = "done" => IndexPublishes("job")
  BY EditRecord DEF RepInv, StoredInv
<1>3. edit'["job"] = r /\ \A b \in {"user", "boot"} : edit'[b] = edit[b]
  BY <1>2 DEF RepInv, StoredInv, RepTypes, EditGoes, Actors
<1>4. edit["job"].at \in {"load", "replace", "index", "publish"}
  BY DEF EditStep, StoreLoads, StoreReplaces, StoreFails, IndexLoads, IndexPublishes
<1>5. job.at \notin {"down", "idle", "wait", "begin", "feeds"}
  BY <1>4 DEF RepInv, Undisturbed
<1>6. r.at = "publish" => index' = index
  BY <1>2 DEF IndexLoads
<1>7. Undisturbed'
  BY <1>1, <1>2, <1>3, <1>5, <1>6 DEF RepInv, Undisturbed
<1>8. CASE r.at # "done"
  <2>1. index' = index
    BY <1>2, <1>8 DEF StoreLoads, StoreReplaces, IndexLoads
  <2>2. Obsolete' = Obsolete /\ Deleting' = Deleting
    BY <1>1, <1>2, <1>3, <1>4, <1>8, <2>1 DEF Obsolete, Deleting
  <2>3. QED
    BY <1>1, <1>2, <1>3, <1>4, <1>7, <1>8, <2>2 DEF RepInv, Pruning
<1>9. CASE r.at = "done"
  <2>1. /\ edit["job"].at = "publish"
        /\ index' = Changed(edit["job"].copy, edit["job"].name, edit["job"].content)
    BY <1>2, <1>9 DEF IndexPublishes
  <2>2. quiet /\ job.at = "prune" => Obsolete' \subseteq job.todo
    <3> SUFFICES ASSUME quiet, job.at = "prune" PROVE Obsolete' \subseteq job.todo
      OBVIOUS
    <3>1. edit["job"].copy = index /\ edit["job"].content = NoContent
      BY <2>1 DEF RepInv, Undisturbed, Pruning
    <3>2. index' = Without(index, edit["job"].name)
      BY <2>1, <3>1 DEF Changed
    <3>3. Obsolete' = Obsolete \ {edit["job"].name}
      BY <1>1, <3>2 DEF Obsolete, Without
    <3>4. Obsolete \subseteq job.todo \cup {edit["job"].name}
      BY <1>4 DEF RepInv, Pruning, Deleting
    <3>5. QED
      BY <3>3, <3>4
  <2>3. Deleting' = {}
    BY <1>3, <1>9 DEF Deleting
  <2>4. QED
    BY <1>1, <1>3, <1>5, <1>7, <1>9, <2>2, <2>3 DEF RepInv, Pruning
<1>10. QED
  BY <1>7, <1>8, <1>9

\* Neither a feed's server nor another task of the slot changes anything here.
LEMMA ForeignStep ==
    ASSUME RepInv, NEW f, Published(f) \/ UNCHANGED repVars
    PROVE  Undisturbed' /\ Pruning'
<1>1. UNCHANGED <<index, feedFile, jobFeeds, quiet, edit, job>>
  BY DEF Published, repVars
<1>2. Obsolete' = Obsolete /\ Deleting' = Deleting
  BY <1>1 DEF Obsolete, Deleting
<1>3. QED
  BY <1>1, <1>2 DEF RepInv, Undisturbed, Pruning

LEMMA RepStepKeeps ==
    ASSUME RepInv, [RepNext]_<<vars, repVars>>
    PROVE  RepInv'
<1>1. SUFFICES Undisturbed' /\ Pruning'
  BY StoredStep DEF RepInv
<1>2. CASE RepStep
  <2>1. CASE \E a \in {"job", "user"} : EditStep(a)
    BY <2>1, DisturbingStep, FailingStep, ChangingStep
  <2>2. CASE \E f \in Feeds : AddFeed(f) \/ RemoveFeed(f) \/ UploadCSV(f)
    BY <2>2, DisturbingStep
  <2>3. CASE \E f \in Feeds : Published(f)
    BY <2>3, ForeignStep
  <2>4. CASE \E f \in Feeds : FetchNotModified(f) \/ Fetched(f)
    BY <2>4, RunningStep
  <2>5. CASE \E f \in Feeds : FetchFails(f)
    BY <2>5, FailingStep
  <2>6. CASE \E f \in Feeds : Prune(f)
    BY <2>6, PruningStep
  <2>7. CASE UserDone \/ ReloadReads \/ (\E ok \in BOOLEAN : ReloadFills(ok))
    BY <2>7, DisturbingStep
  <2>8. CASE RunWaits \/ RunAcquires \/ RunCancelled \/ (\E force \in BOOLEAN : RunBegins(force)) \/ Applied
    BY <2>8, RunningStep
  <2>9. CASE PruneBegins \/ RunEnds
    BY <2>9, PruningStep
  <2>10. CASE PruneUnlisted \/ RepStart \/ RepCrash
    BY <2>10, FailingStep
  <2>11. QED
    BY <1>2, <2>1, <2>2, <2>3, <2>4, <2>5, <2>6, <2>7, <2>8, <2>9, <2>10 DEF RepStep
<1>3. CASE UNCHANGED repVars
  BY <1>3, ForeignStep
<1>4. QED
  BY <1>2, <1>3 DEF RepNext

LEMMA RepInvHolds == RepSpec => []RepInv
<1>1. Init /\ RepInit => RepInv
  <2> SUFFICES ASSUME RepInit PROVE RepInv
    OBVIOUS
  <2>1. \A a \in Actors : edit[a].at = "idle"
    BY DEF RepInit, NoEdit
  <2>2. job.at = "down" /\ ~quiet
    BY DEF RepInit
  <2>3. QED
    BY <2>1, <2>2, InitStored DEF RepInv, Undisturbed, Pruning, Actors
<1>2. RepInv /\ [RepNext]_<<vars, repVars>> => RepInv'
  BY RepStepKeeps
<1>3. QED
  BY <1>1, <1>2, PTL DEF RepSpec

\* A run that met no user and no failure leaves no list of a removed feed.
THEOREM QuietRunPrunes == RepSpec => []PruneComplete
<1>1. RepInv => PruneComplete
  BY DEF RepInv, Pruning, Obsolete, PruneComplete
<1>2. QED
  BY <1>1, RepInvHolds, PTL

-----------------------------------------------------------------------------
(* The saved hunts *)

IsHunt(h) == h = [def |-> h.def, runs |-> h.runs, last |-> h.last]

RunFields(r) ==
    r = [at |-> r.at, pending |-> r.pending, now |-> r.now, id |-> r.id,
         hunt |-> r.hunt, breach |-> r.breach]

\* A run is idle, holds a list of hunts, or a list and the hunt it is running.
RunTypes(r) ==
    /\ r.at \in {"idle", "pick", "execute", "query", "release", "failed", "save"}
    /\ r.at = "pick" => r = [at |-> "pick", pending |-> r.pending, now |-> r.now]
    /\ r.at \in {"execute", "query", "release", "failed", "save"} => RunFields(r)

HuntTypes ==
    /\ huntRun = [t \in HuntTasks |-> huntRun[t]]
    /\ \A t \in HuntTasks : RunTypes(huntRun[t])

\* The copies a run holds, with the ids they are of.
CopiesIn(r) ==
    IF r.at = "idle" THEN {}
    ELSE {<<i, r.pending[i]>> : i \in DOMAIN r.pending}
            \cup (IF r.at = "pick" THEN {} ELSE {<<r.id, r.hunt>>})

\* A copy is of a hunt that is there or was deleted; unless it was edited in
\* the meantime, it has its user's definition.
CopyTrue(c) ==
    /\ IsHunt(c[2])
    /\ c[1] \in DOMAIN hunts \cup gone
    /\ c[1] \in DOMAIN hunts \ shared => c[2].def = edited[c[1]]

FileTrue ==
    /\ DOMAIN hunts \subseteq DOMAIN edited
    /\ \A id \in DOMAIN hunts : IsHunt(hunts[id])
    /\ HuntsNotClobbered

HuntInv ==
    /\ HuntTypes
    /\ FileTrue
    /\ \A t \in HuntTasks : \A c \in CopiesIn(huntRun[t]) : CopyTrue(c)

LEMMA InitHuntInv == HuntInit => HuntInv
<1> SUFFICES ASSUME HuntInit PROVE HuntInv
  OBVIOUS
<1>1. \A t \in HuntTasks : huntRun[t].at = "idle"
  BY DEF HuntInit, NoRun
<1>2. HuntTypes
  BY <1>1 DEF HuntInit, HuntTypes, RunTypes
<1>3. FileTrue
  BY DEF HuntInit, FileTrue, HuntsNotClobbered
<1>4. QED
  BY <1>1, <1>2, <1>3 DEF HuntInv, CopiesIn

\* The ids of the copies a run holds.
LEMMA CopiedIds ==
    ASSUME NEW t \in HuntTasks, NEW c \in CopiesIn(huntRun[t])
    PROVE  c[1] \in Copied(t)
<1>1. huntRun[t].at # "idle"
  BY DEF CopiesIn
<1>2. CASE c \in {<<i, huntRun[t].pending[i]>> : i \in DOMAIN huntRun[t].pending}
  BY <1>1, <1>2 DEF Copied
<1>3. CASE huntRun[t].at # "pick" /\ c = <<huntRun[t].id, huntRun[t].hunt>>
  BY <1>1, <1>3 DEF Copied
<1>4. QED
  BY <1>1, <1>2, <1>3 DEF CopiesIn

\* A user's edit of the file, while the runs keep their copies.
LEMMA EditsKeep ==
    ASSUME HuntInv, NEW id, Create(id) \/ Update(id) \/ Delete(id)
    PROVE  HuntInv'
<1>1. huntRun' = huntRun /\ HuntTypes'
  BY DEF Create, Update, Delete, HuntEdits, HuntInv, HuntTypes
<1>2. CASE Create(id)
  <2>1. /\ id \notin DOMAIN hunts \cup gone /\ UNCHANGED <<gone, shared>>
        /\ hunts' = WithHunt(hunts, id, [def |-> 0, runs |-> << >>, last |-> Never])
        /\ edited' = WithHunt(edited, id, 0)
    BY <1>2 DEF Create
  <2>2. DOMAIN hunts' = DOMAIN hunts \cup {id} /\ DOMAIN edited' = DOMAIN edited \cup {id}
    BY <2>1 DEF WithHunt
  <2>3. hunts'[id] = [def |-> 0, runs |-> << >>, last |-> Never] /\ edited'[id] = 0
    BY <2>1 DEF WithHunt
  <2>4. \A i \in DOMAIN hunts : hunts'[i] = hunts[i] /\ edited'[i] = edited[i]
    BY <2>1 DEF WithHunt, HuntInv, FileTrue
  <2>5. IsHunt(hunts'[id]) /\ hunts'[id].def = 0
    BY <2>3 DEF IsHunt
  <2>6. FileTrue'
    BY <2>1, <2>2, <2>3, <2>4, <2>5 DEF HuntInv, FileTrue, HuntsNotClobbered, IsHunt
  <2>7. \A c : c[1] # id /\ CopyTrue(c) => CopyTrue(c)'
    BY <2>1, <2>2, <2>4 DEF CopyTrue, IsHunt
  <2>8. \A t \in HuntTasks : \A c \in CopiesIn(huntRun[t]) : CopyTrue(c)'
    BY <2>1, <2>7 DEF HuntInv, CopyTrue
  <2>9. QED
    BY <1>1, <2>6, <2>8 DEF HuntInv
<1>3. CASE Update(id)
  <2>1. /\ id \in DOMAIN hunts /\ gone' = gone /\ shared \subseteq shared'
        /\ hunts' = [hunts EXCEPT ![id].def = edited[id] + 1]
        /\ edited' = [edited EXCEPT ![id] = @ + 1]
    BY <1>3 DEF Update
  <2>2. DOMAIN hunts' = DOMAIN hunts /\ DOMAIN edited' = DOMAIN edited
    BY <2>1
  <2>3. \A i \in DOMAIN hunts \ {id} : hunts'[i] = hunts[i] /\ edited'[i] = edited[i]
    BY <2>1 DEF HuntInv, FileTrue
  <2>4. edited'[id] = edited[id] + 1
    BY <2>1 DEF HuntInv, FileTrue
  <2>5. IsHunt(hunts'[id]) /\ hunts'[id].def = edited[id] + 1
    <3>1. hunts'[id] = [hunts[id] EXCEPT !.def = edited[id] + 1]
      BY <2>1
    <3>2. PICK d, r, l : hunts[id] = [def |-> d, runs |-> r, last |-> l]
      BY <2>1 DEF HuntInv, FileTrue, IsHunt
    <3>3. hunts'[id] = [def |-> edited[id] + 1, runs |-> r, last |-> l]
      BY <3>1, <3>2
    <3>4. QED
      BY <3>3 DEF IsHunt
  <2>6. FileTrue'
    BY <2>1, <2>2, <2>3, <2>4, <2>5 DEF HuntInv, FileTrue, HuntsNotClobbered, IsHunt
  <2>7. \A t \in HuntTasks : \A c \in CopiesIn(huntRun[t]) : c[1] = id => id \in shared'
    BY <1>3, CopiedIds DEF Update
  <2>8. \A t \in HuntTasks : \A c \in CopiesIn(huntRun[t]) : CopyTrue(c)'
    BY <2>1, <2>2, <2>3, <2>7 DEF HuntInv, CopyTrue, IsHunt
  <2>9. QED
    BY <1>1, <2>6, <2>8 DEF HuntInv
<1>4. CASE Delete(id)
  <2>1. /\ id \in DOMAIN hunts /\ gone' = gone \cup {id} /\ UNCHANGED <<edited, shared>>
        /\ hunts' = [i \in DOMAIN hunts \ {id} |-> hunts[i]]
    BY <1>4 DEF Delete
  <2>2. FileTrue'
    BY <2>1 DEF HuntInv, FileTrue, HuntsNotClobbered, IsHunt
  <2>3. \A t \in HuntTasks : \A c \in CopiesIn(huntRun[t]) : CopyTrue(c)'
    BY <2>1 DEF HuntInv, CopyTrue, IsHunt
  <2>4. QED
    BY <1>1, <2>2, <2>3 DEF HuntInv
<1>5. QED
  BY <1>2, <1>3, <1>4

\* A run goes on with copies that are true, and the file is left alone.
LEMMA RunGoesOn ==
    ASSUME HuntInv, UNCHANGED <<hunts, gone, edited, shared>>, NEW t \in HuntTasks, NEW r,
           HuntGoes(t, r), RunTypes(r), \A c \in CopiesIn(r) : CopyTrue(c)
    PROVE  HuntInv'
<1>1. huntRun'[t] = r /\ \A u \in HuntTasks \ {t} : huntRun'[u] = huntRun[u]
  BY DEF HuntInv, HuntTypes, HuntGoes
<1>2. huntRun' = [u \in HuntTasks |-> huntRun'[u]]
  BY DEF HuntInv, HuntTypes, HuntGoes
<1>3. HuntTypes'
  BY <1>1, <1>2 DEF HuntInv, HuntTypes
<1>4. FileTrue'
  BY DEF HuntInv, FileTrue, HuntsNotClobbered, IsHunt
<1>5. \A c : CopyTrue(c) => CopyTrue(c)'
  BY DEF CopyTrue, IsHunt
<1>6. \A u \in HuntTasks : \A c \in CopiesIn(huntRun'[u]) : CopyTrue(c)
  BY <1>1 DEF HuntInv
<1>7. QED
  BY <1>3, <1>4, <1>5, <1>6 DEF HuntInv

\* A run that holds fewer copies.
LEMMA RunDrops ==
    ASSUME HuntInv, UNCHANGED <<hunts, gone, edited, shared>>, NEW t \in HuntTasks, NEW r,
           HuntGoes(t, r), RunTypes(r), CopiesIn(r) \subseteq CopiesIn(huntRun[t])
    PROVE  HuntInv'
BY RunGoesOn DEF HuntInv

\* A run begins with copies of the file as it is.
LEMMA RunBeginsStep ==
    ASSUME HuntInv, NEW id, TickScheduled \/ RunNow(id)
    PROVE  HuntInv'
<1>1. \A i \in DOMAIN hunts : CopyTrue(<<i, hunts[i]>>)
  BY DEF HuntInv, FileTrue, HuntsNotClobbered, CopyTrue
<1>2. CASE TickScheduled
  <2>1. PICK r : r = [at |-> "pick", pending |-> hunts, now |-> clock] /\ HuntGoes(HuntTick, r)
    BY <1>2 DEF TickScheduled
  <2>2. RunTypes(r) /\ CopiesIn(r) = {<<i, hunts[i]>> : i \in DOMAIN hunts}
    BY <2>1 DEF RunTypes, CopiesIn
  <2>3. UNCHANGED <<hunts, gone, edited, shared>>
    BY <1>2 DEF TickScheduled, Unedited
  <2>4. QED
    BY <1>1, <2>1, <2>2, <2>3, RunGoesOn DEF HuntTasks
<1>3. CASE RunNow(id)
  <2>1. PICK r : /\ r = [at |-> "execute", pending |-> << >>, now |-> clock, id |-> id,
                         hunt |-> hunts[id], breach |-> FALSE]
                 /\ HuntGoes(HuntNow, r)
    BY <1>3 DEF RunNow
  <2>2. RunTypes(r) /\ CopiesIn(r) = {<<id, hunts[id]>>}
    BY <2>1 DEF RunTypes, RunFields, CopiesIn
  <2>3. UNCHANGED <<hunts, gone, edited, shared>> /\ id \in DOMAIN hunts
    BY <1>3 DEF RunNow, Unedited
  <2>4. QED
    BY <1>1, <2>1, <2>2, <2>3, RunGoesOn DEF HuntTasks
<1>4. QED
  BY <1>2, <1>3

\* The scheduler takes the next hunt off its list.
LEMMA TickNextStep ==
    ASSUME HuntInv, TickNext
    PROVE  HuntInv'
<1>1. UNCHANGED <<hunts, gone, edited, shared>> /\ HuntTick \in HuntTasks
  BY DEF TickNext, HuntOnly, Unedited, HuntTasks
<1>2. PICK p, n : huntRun[HuntTick] = [at |-> "pick", pending |-> p, now |-> n]
  BY <1>1 DEF TickNext, HuntInv, HuntTypes, RunTypes
<1>3. CopiesIn(huntRun[HuntTick]) = {<<i, p[i]>> : i \in DOMAIN p}
  BY <1>2 DEF CopiesIn
<1>4. CASE HuntGoes(HuntTick, NoRun)
  <2>1. RunTypes(NoRun) /\ CopiesIn(NoRun) = {}
    BY DEF NoRun, RunTypes, CopiesIn
  <2>2. QED
    BY <1>1, <1>4, <2>1, RunDrops
<1>5. CASE ~HuntGoes(HuntTick, NoRun)
  <2>1. PICK id, r :
           /\ id \in DOMAIN p
           /\ HuntGoes(HuntTick, r)
           /\ \/ r = [at |-> "execute", pending |-> [i \in DOMAIN p \ {id} |-> p[i]], now |-> n,
                      id |-> id, hunt |-> p[id], breach |-> FALSE]
              \/ r = [huntRun[HuntTick] EXCEPT !.pending = [i \in DOMAIN p \ {id} |-> p[i]]]
    <3>1. PICK q : q = huntRun[HuntTick]
      OBVIOUS
    <3>2. q.pending = p /\ q.now = n
      BY <1>2, <3>1
    <3>3. PICK id \in DOMAIN p :
             HuntGoes(HuntTick,
                IF shouldRunScheduled(p[id], n)
                THEN [at |-> "execute", pending |-> [i \in DOMAIN p \ {id} |-> p[i]], now |-> n,
                      id |-> id, hunt |-> p[id], breach |-> FALSE]
                ELSE [q EXCEPT !.pending = [i \in DOMAIN p \ {id} |-> p[i]]])
      BY <1>5, <3>1, <3>2 DEF TickNext
    <3>4. CASE shouldRunScheduled(p[id], n)
      BY <3>3, <3>4
    <3>5. CASE ~shouldRunScheduled(p[id], n)
      BY <3>1, <3>3, <3>5
    <3>6. QED
      BY <3>4, <3>5
  <2>2. PICK rest : rest = [i \in DOMAIN p \ {id} |-> p[i]]
    OBVIOUS
  <2>3. {<<i, rest[i]>> : i \in DOMAIN rest} \subseteq {<<i, p[i]>> : i \in DOMAIN p}
    BY <2>2
  <2>4. CASE r = [at |-> "execute", pending |-> rest, now |-> n, id |-> id, hunt |-> p[id], breach |-> FALSE]
    <3>1. RunTypes(r) /\ CopiesIn(r) = {<<i, rest[i]>> : i \in DOMAIN rest} \cup {<<id, p[id]>>}
      BY <2>4 DEF RunTypes, RunFields, CopiesIn
    <3>2. CopiesIn(r) \subseteq CopiesIn(huntRun[HuntTick])
      BY <1>3, <2>1, <2>3, <3>1
    <3>3. QED
      BY <1>1, <2>1, <3>1, <3>2, RunDrops
  <2>5. CASE r = [huntRun[HuntTick] EXCEPT !.pending = rest]
    <3>1. r = [at |-> "pick", pending |-> rest, now |-> n]
      BY <1>2, <2>5
    <3>2. RunTypes(r) /\ CopiesIn(r) = {<<i, rest[i]>> : i \in DOMAIN rest}
      BY <3>1 DEF RunTypes, CopiesIn
    <3>3. QED
      BY <1>1, <1>3, <2>1, <2>3, <3>2, RunDrops
  <2>6. QED
    BY <2>1, <2>2, <2>4, <2>5
<1>6. QED
  BY <1>4, <1>5

\* What a run that is over still holds.
LEMMA OverCopies ==
    ASSUME HuntInv, NEW t \in HuntTasks,
           huntRun[t].at \in {"execute", "query", "release", "failed", "save"}
    PROVE  RunTypes(Over(t)) /\ CopiesIn(Over(t)) \subseteq CopiesIn(huntRun[t])
<1>1. CASE t = HuntNow
  BY <1>1 DEF Over, NoRun, RunTypes, CopiesIn
<1>2. CASE t # HuntNow
  <2>1. PICK r : r = [at |-> "pick", pending |-> huntRun[t].pending, now |-> huntRun[t].now]
    OBVIOUS
  <2>2. Over(t) = r
    BY <1>2, <2>1 DEF Over
  <2>3. RunTypes(r) /\ CopiesIn(r) = {<<i, huntRun[t].pending[i]>> : i \in DOMAIN huntRun[t].pending}
    BY <2>1 DEF RunTypes, CopiesIn
  <2>4. QED
    BY <2>2, <2>3 DEF CopiesIn
<1>3. QED
  BY <1>1, <1>2

\* The hunt a run carries from place to place.
LEMMA CarriedCopies ==
    ASSUME HuntInv, NEW t \in HuntTasks,
           huntRun[t].at \in {"execute", "query", "release", "failed", "save"},
           NEW at \in {"execute", "query", "release", "failed", "save"},
           NEW r, r = [huntRun[t] EXCEPT !.at = at]
    PROVE  RunTypes(r) /\ CopiesIn(r) = CopiesIn(huntRun[t])
<1>1. PICK p, n, i, h, b, old :
         huntRun[t] = [at |-> old, pending |-> p, now |-> n, id |-> i, hunt |-> h, breach |-> b]
  BY DEF HuntInv, HuntTypes, RunTypes, RunFields
<1>2. r = [at |-> at, pending |-> p, now |-> n, id |-> i, hunt |-> h, breach |-> b]
  BY <1>1
<1>3. RunTypes(r)
  BY <1>2 DEF RunTypes, RunFields
<1>4. CopiesIn(r) = {<<j, p[j]>> : j \in DOMAIN p} \cup {<<i, h>>}
  BY <1>2 DEF CopiesIn
<1>5. CopiesIn(huntRun[t]) = {<<j, p[j]>> : j \in DOMAIN p} \cup {<<i, h>>}
  BY <1>1 DEF CopiesIn
<1>6. QED
  BY <1>3, <1>4, <1>5

LEMMA RunMovesStep ==
    ASSUME HuntInv, NEW t \in HuntTasks,
           HuntBusy(t) \/ HuntAcquires(t) \/ HuntTooHeavy \/ HuntQueryFails(t) \/ HuntReleases(t)
    PROVE  HuntInv'
<1>1. UNCHANGED <<hunts, gone, edited, shared>>
  BY DEF HuntBusy, HuntAcquires, HuntTooHeavy, HuntQueryFails, HuntReleases, HuntOnly, Unedited
<1>2. ASSUME NEW u \in HuntTasks, HuntGoes(u, Over(u)),
             huntRun[u].at \in {"execute", "query", "release", "failed", "save"}
      PROVE  HuntInv'
  BY <1>1, <1>2, OverCopies, RunDrops
<1>3. ASSUME NEW u \in HuntTasks, NEW at \in {"execute", "query", "release", "failed", "save"},
             HuntGoes(u, [huntRun[u] EXCEPT !.at = at]),
             huntRun[u].at \in {"execute", "query", "release", "failed", "save"}
      PROVE  HuntInv'
  BY <1>1, <1>3, CarriedCopies, RunDrops
<1>4. CASE HuntBusy(t)
  BY <1>2, <1>4 DEF HuntBusy
<1>5. CASE HuntAcquires(t)
  BY <1>3, <1>5 DEF HuntAcquires
<1>6. CASE HuntTooHeavy
  BY <1>3, <1>6 DEF HuntTooHeavy, AtQuery, HuntTasks
<1>7. CASE HuntQueryFails(t)
  BY <1>3, <1>7 DEF HuntQueryFails, AtQuery
<1>8. CASE HuntReleases(t)
  <2>1. CASE huntRun[t].at = "failed"
    BY <1>2, <1>8, <2>1 DEF HuntReleases
  <2>2. CASE huntRun[t].at = "release"
    BY <1>3, <1>8, <2>2 DEF HuntReleases
  <2>3. QED
    BY <1>8, <2>1, <2>2 DEF HuntReleases
<1>9. QED
  BY <1>4, <1>5, <1>6, <1>7, <1>8

\* The query's count goes into the copy; its definition stays.
LEMMA CountsStep ==
    ASSUME HuntInv, NEW t \in HuntTasks, NEW edges, HuntCounts(t, edges)
    PROVE  HuntInv'
<1>1. UNCHANGED <<hunts, gone, edited, shared>> /\ huntRun[t].at = "query"
  BY DEF HuntCounts, HuntOnly, Unedited, AtQuery
<1>2. PICK p, n, i, h, b :
         huntRun[t] = [at |-> "query", pending |-> p, now |-> n, id |-> i, hunt |-> h, breach |-> b]
  BY <1>1 DEF HuntInv, HuntTypes, RunTypes, RunFields
<1>3. CopiesIn(huntRun[t]) = {<<j, p[j]>> : j \in DOMAIN p} \cup {<<i, h>>}
  BY <1>2 DEF CopiesIn
<1>4. CopyTrue(<<i, h>>) /\ \A j \in DOMAIN p : CopyTrue(<<j, p[j]>>)
  BY <1>3 DEF HuntInv
<1>5. PICK breach, g :
         /\ g = WithRun(h, edges, n)
         /\ HuntGoes(t, [huntRun[t] EXCEPT !.at = "release", !.breach = breach, !.hunt = g])
  <2>1. PICK q : q = huntRun[t]
    OBVIOUS
  <2>2. q.now = n /\ q.hunt = h
    BY <1>2, <2>1
  <2>3. PICK breach :
           HuntGoes(t, [q EXCEPT !.at = "release", !.breach = breach,
                                 !.hunt = WithRun(q.hunt, edges, q.now)])
    BY <2>1 DEF HuntCounts
  <2>4. QED
    BY <2>1, <2>2, <2>3
<1>6. g.def = h.def /\ IsHunt(g)
  <2>1. PICK d, old, last : h = [def |-> d, runs |-> old, last |-> last]
    BY <1>4 DEF CopyTrue, IsHunt
  <2>2. PICK runs : g = [h EXCEPT !.runs = runs, !.last = n]
    BY <1>5 DEF WithRun
  <2>3. g = [def |-> d, runs |-> runs, last |-> n]
    BY <2>1, <2>2
  <2>4. QED
    BY <2>1, <2>3 DEF IsHunt
<1>7. PICK r : r = [huntRun[t] EXCEPT !.at = "release", !.breach = breach, !.hunt = g]
  OBVIOUS
<1>8. r = [at |-> "release", pending |-> p, now |-> n, id |-> i, hunt |-> g, breach |-> breach]
  <2>1. PICK r1 : r1 = [huntRun[t] EXCEPT !.at = "release"]
    OBVIOUS
  <2>2. PICK r2 : r2 = [r1 EXCEPT !.breach = breach]
    OBVIOUS
  <2>3. r = [r2 EXCEPT !.hunt = g]
    BY <1>7, <2>1, <2>2
  <2>4. r1 = [at |-> "release", pending |-> p, now |-> n, id |-> i, hunt |-> h, breach |-> b]
    BY <1>2, <2>1
  <2>5. r2 = [at |-> "release", pending |-> p, now |-> n, id |-> i, hunt |-> h, breach |-> breach]
    BY <2>2, <2>4
  <2>6. QED
    BY <2>3, <2>5
<1>9. CopyTrue(<<i, g>>)
  BY <1>4, <1>6 DEF CopyTrue
<1>10. RunTypes(r) /\ CopiesIn(r) = {<<j, p[j]>> : j \in DOMAIN p} \cup {<<i, g>>}
  BY <1>8 DEF RunTypes, RunFields, CopiesIn
<1>11. HuntGoes(t, r) /\ \A c \in CopiesIn(r) : CopyTrue(c)
  BY <1>4, <1>5, <1>7, <1>9, <1>10
<1>12. QED
  BY <1>1, <1>10, <1>11, RunGoesOn

\* The copy goes into the file, if the hunt is still there.
LEMMA SavesStep ==
    ASSUME HuntInv, NEW t \in HuntTasks, HuntSaves(t)
    PROVE  HuntInv'
<1>1. UNCHANGED <<gone, edited, shared>> /\ huntRun[t].at = "save" /\ HuntGoes(t, Over(t))
  BY DEF HuntSaves
<1>2. RunTypes(Over(t)) /\ CopiesIn(Over(t)) \subseteq CopiesIn(huntRun[t])
  BY <1>1, OverCopies
<1>3. PICK id, h : id = huntRun[t].id /\ h = huntRun[t].hunt
  OBVIOUS
<1>4. CopyTrue(<<id, h>>)
  BY <1>1, <1>3 DEF HuntInv, CopiesIn
<1>5. hunts' = hunts \/ (id \in DOMAIN hunts /\ hunts' = [hunts EXCEPT ![id] = h])
  BY <1>3 DEF HuntSaves, SaveRun
<1>6. DOMAIN hunts' = DOMAIN hunts
  BY <1>5
<1>7. FileTrue'
  <2>1. \A i \in DOMAIN hunts : hunts'[i] = hunts[i] \/ (i = id /\ hunts'[i] = h)
    BY <1>5
  <2>2. QED
    BY <1>1, <1>4, <1>6, <2>1 DEF HuntInv, FileTrue, HuntsNotClobbered, CopyTrue, IsHunt
<1>8. huntRun'[t] = Over(t) /\ \A u \in HuntTasks \ {t} : huntRun'[u] = huntRun[u]
  BY <1>1 DEF HuntInv, HuntTypes, HuntGoes
<1>9. huntRun' = [u \in HuntTasks |-> huntRun'[u]]
  BY <1>1 DEF HuntInv, HuntTypes, HuntGoes
<1>10. HuntTypes'
  BY <1>2, <1>8, <1>9 DEF HuntInv, HuntTypes
<1>11. \A c : CopyTrue(c) => CopyTrue(c)'
  BY <1>1, <1>6 DEF CopyTrue, IsHunt
<1>12. \A u \in HuntTasks : \A c \in CopiesIn(huntRun'[u]) : CopyTrue(c)
  BY <1>2, <1>8 DEF HuntInv
<1>13. QED
  BY <1>7, <1>10, <1>11, <1>12 DEF HuntInv

LEMMA UntouchedHunts ==
    ASSUME HuntInv, UNCHANGED huntVars
    PROVE  HuntInv'
<1>1. UNCHANGED <<hunts, huntRun, gone, edited, shared>>
  BY DEF huntVars
<1>2. HuntTypes' /\ FileTrue'
  BY <1>1 DEF HuntInv, HuntTypes, FileTrue, HuntsNotClobbered, IsHunt
<1>3. \A c : CopyTrue(c) => CopyTrue(c)'
  BY <1>1 DEF CopyTrue, IsHunt
<1>4. QED
  BY <1>1, <1>2, <1>3 DEF HuntInv

\* No run brings a deleted hunt back or undoes an edit it had not seen.
THEOREM SavedHuntsKept == HuntSpec => []HuntsNotClobbered
<1>1. Init /\ AnomInit /\ HuntInit => HuntInv
  BY InitHuntInv
<1>2. HuntInv /\ [HuntNext]_<<vars, anomVars, huntVars>> => HuntInv'
  <2> SUFFICES ASSUME HuntInv, [HuntNext]_<<vars, anomVars, huntVars>> PROVE HuntInv'
    OBVIOUS
  <2>1. CASE HuntStep
    <3>1. CASE \E id \in HuntIds : Create(id) \/ Update(id) \/ Delete(id)
      BY <3>1, EditsKeep
    <3>2. CASE TickScheduled \/ \E id \in HuntIds : RunNow(id)
      BY <3>2, RunBeginsStep
    <3>3. CASE TickNext
      BY <3>3, TickNextStep
    <3>4. CASE HuntTooHeavy
      BY <3>4, RunMovesStep DEF HuntTasks
    <3>5. CASE \E t \in HuntTasks : HuntBusy(t) \/ HuntAcquires(t) \/ HuntQueryFails(t) \/ HuntReleases(t)
      BY <3>5, RunMovesStep
    <3>6. CASE \E t \in HuntTasks : \E edges \in EdgeCounts : HuntCounts(t, edges)
      BY <3>6, CountsStep
    <3>7. CASE \E t \in HuntTasks : HuntSaves(t)
      BY <3>7, SavesStep
    <3>8. QED
      BY <2>1, <3>1, <3>2, <3>3, <3>4, <3>5, <3>6, <3>7 DEF HuntStep
  <2>2. CASE UNCHANGED huntVars
    BY <2>2, UntouchedHunts
  <2>3. QED
    BY <2>1, <2>2 DEF HuntNext
<1>3. HuntInv => HuntsNotClobbered
  BY DEF HuntInv, FileTrue
<1>4. QED
  BY <1>1, <1>2, <1>3, PTL DEF HuntSpec

-----------------------------------------------------------------------------
(* The alerts of the anomaly scan *)

ScanCodes == {"blocked_surge", "new_country_dst", "port_scan", "horizontal_scan",
              "rep_new_dst", "byte_surge", "lateral_fanout", "beaconing"}

\* An alert's key names its code; only a detector's alert has a key.
LEMMA KeyNamesCode ==
    ASSUME NEW fp
    PROVE  /\ fp.code \in ScanCodes =>
                 suppressionKeyForEvent(fp).code = fp.code /\ suppressionKeyForEvent(fp) # NoKey
           /\ fp.code \notin ScanCodes => suppressionKeyForEvent(fp) = NoKey
BY DEF suppressionKeyForEvent, NoKey, ScanCodes

\* What a scan proposes at time now.
IsCandidate(c, now) ==
    /\ c.at = now
    /\ c.key = suppressionKeyForEvent(c.fp)
    /\ c.fp.code \in ScanCodes

\* The cooldown after which a detector repeats itself.
Cooldown(code) ==
    IF code = "blocked_surge" THEN Win.blockedCooldown ELSE Win.countryCooldown
Cooled == {"blocked_surge", "new_country_dst"}

\* Every detector proposes alerts of its code, and the two with a cooldown
\* pass over the subjects they reported recently.
LEMMA HitsAreCandidates ==
    ASSUME NEW code \in ScanCodes, NEW now, NEW hourly, NEW hoursOK,
           NEW c \in Hits(code, now, hourly, hoursOK)
    PROVE  /\ IsCandidate(c, now) /\ c.fp.code = code
           /\ code \in Cooled => c.key \notin RecentSuppressionKeys(code, now - Cooldown(code))
<1>1. ASSUME NEW src, NEW dst, NEW extra
      PROVE  /\ fingerprint(code, src, dst, extra, now).code = code
             /\ fingerprintDay(code, src, dst, extra, now).code = code
  BY DEF fingerprint, fingerprintDay, fingerprintAt
<1>2. ASSUME NEW fp, fp.code = code, c = Candidate(fp, now)
      PROVE  IsCandidate(c, now) /\ c.fp.code = code /\ c.key = suppressionKeyForEvent(fp)
  BY <1>2 DEF Candidate, IsCandidate
<1>3. CASE code = "blocked_surge"
  <2>1. PICK recent : recent = RecentSuppressionKeys(code, now - Win.blockedCooldown)
    OBVIOUS
  <2>2. c \in detectBlockedSurge(logs, now, EnterpriseNets, recent)
    BY <1>3, <2>1 DEF Hits
  <2>3. PICK n \in EnterpriseNets :
           /\ c = Candidate(fingerprint("blocked_surge", None, None, n.name, now), now)
           /\ suppressionKeyForEvent(fingerprint("blocked_surge", None, None, n.name, now)) \notin recent
    BY <2>2 DEF detectBlockedSurge
  <2>4. QED
    BY <1>1, <1>2, <1>3, <2>1, <2>3 DEF Cooldown
<1>4. CASE code = "new_country_dst"
  <2>1. PICK recent : recent = RecentSuppressionKeys(code, now - Win.countryCooldown)
    OBVIOUS
  <2>2. c \in detectNewCountry(logs, now, EnterpriseNets, recent)
    BY <1>4, <2>1 DEF Hits
  <2>3. PICK n :
           /\ c = Candidate(fingerprint("new_country_dst", None, None, n, now), now)
           /\ suppressionKeyForEvent(fingerprint("new_country_dst", None, None, n, now)) \notin recent
    BY <2>2 DEF detectNewCountry
  <2>4. QED
    BY <1>1, <1>2, <1>4, <2>1, <2>3 DEF Cooldown
<1>5. CASE code = "port_scan"
  <2>1. PICK s : c = Candidate(fingerprint("port_scan", s, None, None, now), now)
    BY <1>5 DEF Hits, detectPortScan
  <2>2. QED
    BY <1>1, <1>2, <1>5, <2>1 DEF Cooled
<1>6. CASE code = "horizontal_scan"
  <2>1. PICK h : c = Candidate(fingerprint("horizontal_scan", h.src, None, h.net24, now), now)
    BY <1>6 DEF Hits, detectHorizontalScan
  <2>2. QED
    BY <1>1, <1>2, <1>6, <2>1 DEF Cooled
<1>7. CASE code = "rep_new_dst"
  <2>1. PICK p : c = Candidate(fingerprint("rep_new_dst", p[1], p[2], None, now), now)
    BY <1>7 DEF Hits, detectRepNewDst
  <2>2. QED
    BY <1>1, <1>2, <1>7, <2>1 DEF Cooled
<1>8. CASE code = "byte_surge"
  <2>1. PICK h : c = Candidate(fingerprint("byte_surge", h.src, None, None, now), now)
    BY <1>8 DEF Hits, detectByteSurge
  <2>2. QED
    BY <1>1, <1>2, <1>8, <2>1 DEF Cooled
<1>9. CASE code = "lateral_fanout"
  <2>1. PICK s : c = Candidate(fingerprint("lateral_fanout", s, None, None, now), now)
    BY <1>9 DEF Hits, detectLateralFanout
  <2>2. QED
    BY <1>1, <1>2, <1>9, <2>1 DEF Cooled
<1>10. CASE code = "beaconing"
  <2>1. PICK h : c = Candidate(fingerprintDay("beaconing", h.pair[1], h.pair[2], None, now), now)
    BY <1>10 DEF Hits, detectBeaconing
  <2>2. QED
    BY <1>1, <1>2, <1>10, <2>1 DEF Cooled
<1>11. QED
  BY <1>3, <1>4, <1>5, <1>6, <1>7, <1>8, <1>9, <1>10 DEF ScanCodes

Batches == {a.batch : a \in alerts}

\* Alerts carry the key of their fingerprint, and batches are numbered in order.
AlertTypes ==
    /\ clock \in Int
    /\ IsFiniteSet(Batches)
    /\ \A a \in alerts :
          /\ a.key = suppressionKeyForEvent(a.fp)
          /\ a.key # NoKey => a.at \in Int /\ a.at <= clock
          /\ a.batch \in Nat /\ a.batch <= Cardinality(Batches)

AckFields == {"at", "fp", "by", "now", "seen"}

AckTypes ==
    /\ acking.at \in {"none", "key", "assignee", "assign"}
    /\ acking.at # "none" => acking = [f \in AckFields |-> acking[f]] /\ acking.now \in Int
    /\ \A s \in suppressions : s.key # NoKey /\ s.written \in Int /\ s.until \in Int

ScanFields == {"at", "now", "learning", "todo", "cands", "exist", "muted", "blind", "expired", "failed"}
Working == {"detect", "existing", "suppressed", "insert"}

ScanTypes ==
    /\ scan.at \in {"idle", "gate", "done"} \cup Working
    /\ scan.at = "gate" => scan = [at |-> "gate"]
    /\ scan.at \in Working =>
          /\ scan = [f \in ScanFields |-> scan[f]]
          /\ scan.now \in Int /\ scan.now <= clock
          /\ scan.blind \in BOOLEAN
          /\ \A c \in scan.cands : IsCandidate(c, scan.now)
    /\ scan.at = "detect" => scan.todo \in 1 .. Len(Codes)

\* No candidate repeats a subject within its cooldown.
CandidatesCooled ==
    scan.at \in Working =>
        \A c \in scan.cands, a \in alerts :
            a.key = c.key /\ a.fp.code \in Cooled => scan.now - a.at > Cooldown(a.fp.code)

\* The scan has seen every alert of a detector, unless the lookup failed.
AllSeen ==
    scan.at \in {"suppressed", "insert"} /\ ~scan.blind =>
        \A a \in alerts : a.key # NoKey => a.fp \in scan.exist

\* It has seen every suppression that its alerts would be measured against.
AllMuted ==
    scan.at = "insert" /\ ~scan.blind =>
        \A s \in suppressions : s.written < scan.now /\ scan.now < s.until => s.key \in scan.muted

AnomInv ==
    /\ AlertTypes /\ AckTypes /\ ScanTypes
    /\ CandidatesCooled /\ AllSeen /\ AllMuted
    /\ AckSilences /\ OneAlertPerFact

LEMMA InitAnomInv == AnomInit => AnomInv
<1> SUFFICES ASSUME AnomInit PROVE AnomInv
  OBVIOUS
<1>1. Batches = {}
  BY DEF AnomInit, Batches
<1>2. AlertTypes
  BY <1>1, FS_EmptySet, AnomAssumption DEF AnomInit, AlertTypes
<1>3. AckTypes /\ ScanTypes
  BY DEF AnomInit, AckTypes, ScanTypes, Working, NoAck, NoScan
<1>4. QED
  BY <1>2, <1>3 DEF AnomInit, AnomInv, CandidatesCooled, AllSeen, AllMuted, AckSilences, OneAlertPerFact,
                    Working, NoScan

\* A batch of new alerts keeps the numbering; it comes after all others.
LEMMA BatchAdded ==
    ASSUME AlertTypes, NEW K, NEW blind, InsertAlerts(K, blind), clock' = clock,
           \A c \in K : /\ c.key = suppressionKeyForEvent(c.fp)
                        /\ c.key # NoKey => c.at \in Int /\ c.at <= clock
    PROVE  /\ AlertTypes'
           /\ alerts \subseteq alerts'
           /\ \A b \in alerts' \ alerts :
                 /\ \A a \in alerts : a.batch < b.batch
                 /\ \A a \in alerts' : ~(b.batch < a.batch)
                 /\ b.blind = blind
                 /\ \E c \in K : b.fp = c.fp /\ b.key = c.key /\ b.at = c.at
<1>1. PICK n : n = 1 + Cardinality(Batches)
  OBVIOUS
<1>2. n \in Nat /\ Cardinality(Batches) \in Nat /\ n = Cardinality(Batches) + 1
  BY <1>1, FS_CardinalityType DEF AlertTypes
<1>3. alerts' = alerts \cup {[fp |-> c.fp, key |-> c.key, at |-> c.at, blind |-> blind,
                              episode |-> EpisodeID(c.fp, c.at), batch |-> n] : c \in K}
  BY <1>1 DEF InsertAlerts, Batches
<1>4. \A b \in alerts' \ alerts :
         /\ b.batch = n /\ b.blind = blind
         /\ \E c \in K : b.fp = c.fp /\ b.key = c.key /\ b.at = c.at
  BY <1>3
<1>5. \A a \in alerts : a.batch \in Nat /\ a.batch < n
  BY <1>2 DEF AlertTypes
<1>6. alerts \subseteq alerts'
  BY <1>3
<1>7. \A b \in alerts' \ alerts : /\ \A a \in alerts : a.batch < b.batch
                                  /\ \A a \in alerts' : ~(b.batch < a.batch)
  BY <1>2, <1>4, <1>5
<1>8. AlertTypes'
  <2>1. Batches' = Batches \/ Batches' = Batches \cup {n}
    <3>1. Batches \subseteq Batches'
      BY <1>6 DEF Batches
    <3>2. Batches' \subseteq Batches \cup {n}
      BY <1>4 DEF Batches
    <3>3. QED
      BY <3>1, <3>2
  <2>2. n \notin Batches
    BY <1>5 DEF Batches
  <2>3. IsFiniteSet(Batches')
    BY <2>1, FS_AddElement DEF AlertTypes
  <2>4. Batches' = Batches \cup {n} => Cardinality(Batches') = n
    BY <1>2, <2>2, FS_AddElement DEF AlertTypes
  <2>5. alerts' # alerts => Batches' = Batches \cup {n}
    BY <1>4, <1>6, <2>1 DEF Batches
  <2>6. \A a \in alerts' : a.batch \in Nat /\ a.batch <= Cardinality(Batches')
    <3>1. CASE Batches' = Batches
      BY <1>4, <2>2, <2>5, <3>1 DEF AlertTypes
    <3>2. CASE Batches' = Batches \cup {n}
      BY <1>2, <1>4, <1>5, <2>4, <3>2
    <3>3. QED
      BY <2>1, <3>1, <3>2
  <2>7. \A a \in alerts' : /\ a.key = suppressionKeyForEvent(a.fp)
                           /\ a.key # NoKey => a.at \in Int /\ a.at <= clock
    BY <1>4 DEF AlertTypes
  <2>8. QED
    BY <2>3, <2>6, <2>7 DEF AlertTypes
<1>9. QED
  BY <1>4, <1>6, <1>7, <1>8

\* The scan moves on, and what has been reported stays.
LEMMA ScanMoves ==
    ASSUME AnomInv, UNCHANGED <<clock, alerts, suppressions, acking>>,
           ScanTypes', CandidatesCooled', AllSeen', AllMuted'
    PROVE  AnomInv'
BY DEF AnomInv, AlertTypes, Batches, AckTypes, AckSilences, OneAlertPerFact

LEMMA AnomUntouched ==
    ASSUME AnomInv, UNCHANGED <<clock, alerts, suppressions, acking, scan>>
    PROVE  AnomInv'
<1>1. ScanTypes' /\ CandidatesCooled' /\ AllSeen' /\ AllMuted'
  BY DEF AnomInv, ScanTypes, CandidatesCooled, AllSeen, AllMuted
<1>2. QED
  BY <1>1, ScanMoves

\* A scan begins with nothing proposed, and may end at any point.
LEMMA ScanFrameStep ==
    ASSUME AnomInv,
           Tick \/ TickDropped \/ ScanSkips \/ (\E learning \in BOOLEAN : ScanBegins(learning))
              \/ ScanInsertFails \/ ScanEnds
    PROVE  AnomInv'
<1>1. CASE TickDropped
  <2>1. UNCHANGED anomVars
    BY <1>1 DEF TickDropped
  <2>2. QED
    BY <2>1, AnomUntouched DEF anomVars, alertVars
<1>2. CASE \E learning \in BOOLEAN : ScanBegins(learning)
  <2>1. PICK learning :
           scan' = [at |-> "detect", now |-> clock, learning |-> learning,
                    todo |-> 1, cands |-> {}, exist |-> {}, muted |-> {},
                    blind |-> FALSE, expired |-> FALSE, failed |-> FALSE]
    BY <1>2 DEF ScanBegins
  <2>2. UNCHANGED <<clock, alerts, suppressions, acking>>
    BY <1>2 DEF ScanBegins, ScanOnly, alertVars
  <2>3. scan' = [f \in ScanFields |-> scan'[f]]
    BY <2>1 DEF ScanFields
  <2>4. scan'.at = "detect" /\ scan'.now = clock /\ scan'.todo = 1 /\ scan'.cands = {} /\ scan'.blind \in BOOLEAN
    BY <2>1
  <2>5. ScanTypes'
    BY <2>2, <2>3, <2>4 DEF ScanTypes, Working, Codes, AnomInv, AlertTypes
  <2>6. QED
    BY <2>2, <2>4, <2>5, ScanMoves DEF CandidatesCooled, AllSeen, AllMuted
<1>3. CASE Tick \/ ScanSkips \/ ScanInsertFails \/ ScanEnds
  <2>1. UNCHANGED <<clock, alerts, suppressions, acking>>
    BY <1>3 DEF Tick, ScanSkips, ScanInsertFails, ScanEnds, ScanOnly, alertVars
  <2>2. scan'.at \in {"idle", "gate", "done"} /\ (scan'.at = "gate" => scan' = [at |-> "gate"])
    <3>1. CASE Tick
      BY <3>1 DEF Tick
    <3>2. CASE ScanSkips
      <4>1. scan = [at |-> "gate"] /\ scan' = [scan EXCEPT !.at = "done"]
        BY <3>2 DEF ScanSkips, InScan, ScanGoes, AnomInv, ScanTypes
      <4>2. QED
        BY <4>1
    <3>3. CASE ScanInsertFails
      <4>1. scan = [f \in ScanFields |-> scan[f]] /\ scan' = [scan EXCEPT !.at = "done", !.failed = TRUE]
        BY <3>3 DEF ScanInsertFails, InScan, AnomInv, ScanTypes, Working
      <4>2. QED
        BY <4>1 DEF ScanFields
    <3>4. CASE ScanEnds
      BY <3>4 DEF ScanEnds, NoScan
    <3>5. QED
      BY <1>3, <3>1, <3>2, <3>3, <3>4
  <2>3. ScanTypes' /\ CandidatesCooled' /\ AllSeen' /\ AllMuted'
    BY <2>2 DEF ScanTypes, CandidatesCooled, AllSeen, AllMuted, Working
  <2>4. QED
    BY <2>1, <2>3, ScanMoves
<1>4. QED
  BY <1>1, <1>2, <1>3

\* A detector that succeeds adds its candidates, one that fails adds none.
LEMMA DetectStep ==
    ASSUME AnomInv, DetectFails \/ (\E hourly, hoursOK \in BOOLEAN : Detect(hourly, hoursOK))
    PROVE  AnomInv'
<1>1. /\ scan.at = "detect" /\ scan = [f \in ScanFields |-> scan[f]]
      /\ scan.now \in Int /\ scan.now <= clock /\ scan.blind \in BOOLEAN
      /\ scan.todo \in 1 .. Len(Codes)
      /\ \A c \in scan.cands : IsCandidate(c, scan.now)
  BY DEF DetectFails, Detect, InScan, AnomInv, ScanTypes, Working
<1>2. UNCHANGED <<clock, alerts, suppressions, acking>>
  BY DEF DetectFails, Detect, ScanOnly, alertVars
<1>3. PICK code : code = Codes[scan.todo] /\ code \in ScanCodes
  BY <1>1 DEF Codes, ScanCodes
<1>4. PICK cands :
         /\ scan' = [f \in ScanFields |-> scan'[f]]
         /\ scan'.at = AfterDetector(cands) /\ scan'.now = scan.now /\ scan'.cands = cands
         /\ scan'.todo = scan.todo + 1 /\ scan'.blind = scan.blind
         /\ \/ cands = scan.cands
            \/ \E hourly, hoursOK \in BOOLEAN :
                  cands = scan.cands \cup Hits(code, scan.now, hourly, hoursOK)
  <2>1. CASE DetectFails
    <3>1. PICK failed : scan' = [scan EXCEPT !.todo = @ + 1, !.at = AfterDetector(scan.cands),
                                             !.failed = failed]
      BY <2>1 DEF DetectFails
    <3>2. /\ scan' = [f \in ScanFields |-> scan'[f]]
          /\ scan'.at = AfterDetector(scan.cands) /\ scan'.now = scan.now /\ scan'.cands = scan.cands
          /\ scan'.todo = scan.todo + 1 /\ scan'.blind = scan.blind
      BY <1>1, <3>1 DEF ScanFields
    <3>3. QED
      BY <3>2
  <2>2. CASE \E hourly, hoursOK \in BOOLEAN : Detect(hourly, hoursOK)
    <3>1. PICK hourly \in BOOLEAN, hoursOK \in BOOLEAN : Detect(hourly, hoursOK)
      BY <2>2
    <3>2. PICK cands : /\ cands = scan.cands \cup Hits(code, scan.now, hourly, hoursOK)
                       /\ scan' = [scan EXCEPT !.todo = @ + 1, !.cands = cands, !.at = AfterDetector(cands)]
      BY <1>3, <3>1 DEF Detect
    <3>3. /\ scan' = [f \in ScanFields |-> scan'[f]]
          /\ scan'.at = AfterDetector(cands) /\ scan'.now = scan.now /\ scan'.cands = cands
          /\ scan'.todo = scan.todo + 1 /\ scan'.blind = scan.blind
      BY <1>1, <3>2 DEF ScanFields
    <3>4. QED
      BY <3>2, <3>3
  <2>3. QED
    BY <2>1, <2>2
<1>5. PICK place : place = AfterDetector(cands) /\ place \in {"detect", "existing", "done"}
                   /\ (place = "detect" => scan.todo < Len(Codes))
  BY DEF AfterDetector
<1>6. /\ scan' = [f \in ScanFields |-> scan'[f]]
      /\ scan'.at = place /\ scan'.now = scan.now /\ scan'.cands = cands
      /\ scan'.todo = scan.todo + 1 /\ scan'.blind = scan.blind
  BY <1>4, <1>5
<1>7. \A c \in cands : IsCandidate(c, scan.now)
  BY <1>1, <1>3, <1>4, HitsAreCandidates
<1>8. ASSUME NEW c \in cands, NEW a \in alerts, a.key = c.key, a.fp.code \in Cooled
      PROVE  scan.now - a.at > Cooldown(a.fp.code)
  <2>1. CASE c \in scan.cands
    BY <1>1, <1>8, <2>1 DEF AnomInv, CandidatesCooled, Working
  <2>2. CASE c \notin scan.cands
    <3>1. PICK hourly \in BOOLEAN, hoursOK \in BOOLEAN : c \in Hits(code, scan.now, hourly, hoursOK)
      BY <1>4, <2>2
    <3>2. /\ c.key = suppressionKeyForEvent(c.fp) /\ c.fp.code = code
          /\ code \in Cooled => c.key \notin RecentSuppressionKeys(code, scan.now - Cooldown(code))
      BY <1>3, <3>1, HitsAreCandidates DEF IsCandidate
    <3>3. a.fp.code \in ScanCodes /\ a.key = suppressionKeyForEvent(a.fp)
      BY <1>8 DEF Cooled, ScanCodes, AnomInv, AlertTypes
    <3>4. a.fp.code = code /\ a.key # NoKey
      BY <1>3, <1>8, <3>2, <3>3, KeyNamesCode
    <3>5. a.at \in Int
      BY <3>4 DEF AnomInv, AlertTypes
    <3>6. ~(a.at >= scan.now - Cooldown(code))
      BY <1>8, <3>2, <3>4 DEF RecentSuppressionKeys
    <3>7. Cooldown(code) \in Int
      BY AnomAssumption DEF Cooldown
    <3>8. QED
      BY <1>1, <3>4, <3>5, <3>6, <3>7
  <2>3. QED
    BY <2>1, <2>2
<1>9. ScanTypes'
  <2>1. scan'.at \in {"idle", "gate", "done"} \cup Working /\ scan'.at # "gate"
    BY <1>5, <1>6 DEF Working
  <2>2. scan'.now \in Int /\ scan'.now <= clock' /\ scan'.blind \in BOOLEAN
    BY <1>1, <1>2, <1>6
  <2>3. scan'.at = "detect" => scan'.todo \in 1 .. Len(Codes)
    BY <1>1, <1>5, <1>6 DEF Codes
  <2>4. \A c \in scan'.cands : IsCandidate(c, scan'.now)
    BY <1>6, <1>7
  <2>5. QED
    BY <1>6, <2>1, <2>2, <2>3, <2>4 DEF ScanTypes
<1>10. CandidatesCooled'
  BY <1>2, <1>6, <1>8 DEF CandidatesCooled
<1>11. AllSeen' /\ AllMuted'
  BY <1>5, <1>6 DEF AllSeen, AllMuted
<1>12. QED
  BY <1>2, <1>9, <1>10, <1>11, ScanMoves

\* The lookups; one that fails leaves the scan blind.
LEMMA LookupStep ==
    ASSUME AnomInv,
           ScanExpires \/ (\E ok \in BOOLEAN : LookupExisting(ok) \/ LookupSuppressed(ok))
    PROVE  AnomInv'
<1>1. /\ scan.at \in {"detect", "existing", "suppressed"} /\ scan = [f \in ScanFields |-> scan[f]]
      /\ scan.now \in Int /\ scan.now <= clock /\ scan.blind \in BOOLEAN
      /\ scan.at = "detect" => scan.todo \in 1 .. Len(Codes)
      /\ \A c \in scan.cands : IsCandidate(c, scan.now)
  BY DEF ScanExpires, LookupExisting, LookupSuppressed, InScan, AnomInv, ScanTypes, Working
<1>2. UNCHANGED <<clock, alerts, suppressions, acking>>
  BY DEF ScanExpires, LookupExisting, LookupSuppressed, ScanOnly, alertVars
<1>3. ASSUME scan' = [f \in ScanFields |-> scan'[f]], scan'.at \in Working,
             scan'.now = scan.now, scan'.cands = scan.cands, scan'.blind \in BOOLEAN,
             scan'.at = "detect" => scan.at = "detect" /\ scan'.todo = scan.todo
      PROVE  ScanTypes' /\ CandidatesCooled'
  <2>1. ScanTypes'
    BY <1>1, <1>2, <1>3 DEF ScanTypes, Working
  <2>2. CandidatesCooled'
    BY <1>1, <1>2, <1>3 DEF AnomInv, CandidatesCooled, Working
  <2>3. QED
    BY <2>1, <2>2
<1>4. CASE ScanExpires
  <2>1. scan' = [scan EXCEPT !.expired = TRUE]
    BY <1>4 DEF ScanExpires
  <2>2. /\ scan' = [f \in ScanFields |-> scan'[f]] /\ scan'.at = scan.at /\ scan'.now = scan.now
        /\ scan'.cands = scan.cands /\ scan'.blind = scan.blind /\ scan'.todo = scan.todo
        /\ scan'.exist = scan.exist
    BY <1>1, <2>1 DEF ScanFields
  <2>3. ScanTypes' /\ CandidatesCooled'
    BY <1>1, <1>3, <2>2 DEF Working
  <2>4. AllSeen' /\ AllMuted'
    BY <1>1, <1>2, <2>2 DEF AnomInv, AllSeen, AllMuted
  <2>5. QED
    BY <1>2, <2>3, <2>4, ScanMoves
<1>5. CASE \E ok \in BOOLEAN : LookupExisting(ok)
  <2>1. PICK ok \in BOOLEAN : LookupExisting(ok)
    BY <1>5
  <2>2. PICK exist : /\ scan' = [scan EXCEPT !.at = "suppressed", !.exist = exist, !.blind = @ \/ ~ok]
                     /\ ok => exist = {a.fp : a \in alerts}
    BY <2>1 DEF LookupExisting
  <2>3. /\ scan' = [f \in ScanFields |-> scan'[f]] /\ scan'.at = "suppressed" /\ scan'.now = scan.now
        /\ scan'.cands = scan.cands /\ scan'.exist = exist
    BY <1>1, <2>2 DEF ScanFields
  <2>4. scan'.blind = (scan.blind \/ ~ok)
    BY <1>1, <2>2 DEF ScanFields
  <2>5. ScanTypes' /\ CandidatesCooled'
    BY <1>1, <1>3, <2>3, <2>4 DEF Working
  <2>6. AllSeen' /\ AllMuted'
    BY <1>2, <2>2, <2>3, <2>4 DEF AllSeen, AllMuted
  <2>7. QED
    BY <1>2, <2>5, <2>6, ScanMoves
<1>6. CASE \E ok \in BOOLEAN : LookupSuppressed(ok)
  <2>1. PICK ok \in BOOLEAN : LookupSuppressed(ok) /\ scan.at = "suppressed"
    BY <1>6 DEF LookupSuppressed, InScan
  <2>2. PICK muted : /\ scan' = [scan EXCEPT !.at = "insert", !.muted = muted, !.blind = @ \/ ~ok]
                     /\ ok => muted = {s.key : s \in {x \in suppressions : x.until > scan.now}}
    BY <2>1 DEF LookupSuppressed
  <2>3. /\ scan' = [f \in ScanFields |-> scan'[f]] /\ scan'.at = "insert" /\ scan'.now = scan.now
        /\ scan'.cands = scan.cands /\ scan'.exist = scan.exist /\ scan'.muted = muted
    BY <1>1, <2>2 DEF ScanFields
  <2>4. scan'.blind = (scan.blind \/ ~ok)
    BY <1>1, <2>2 DEF ScanFields
  <2>5. ScanTypes' /\ CandidatesCooled'
    BY <1>1, <1>3, <2>3, <2>4 DEF Working
  <2>6. AllSeen'
    BY <1>2, <2>1, <2>3, <2>4 DEF AnomInv, AllSeen
  <2>7. AllMuted'
    <3>1. \A s \in suppressions : s.until \in Int
      BY DEF AnomInv, AckTypes
    <3>2. QED
      BY <1>1, <1>2, <2>2, <2>3, <2>4, <3>1 DEF AllMuted
  <2>8. QED
    BY <1>2, <2>5, <2>6, <2>7, ScanMoves
<1>7. QED
  BY <1>4, <1>5, <1>6

\* Alerts without a key, or of an ending scan, are added.
LEMMA AlertsAdded ==
    ASSUME AnomInv, UNCHANGED <<clock, suppressions, acking>>,
           AlertTypes', ScanTypes', alerts \subseteq alerts',
           scan' = scan \/ scan'.at = "done",
           scan' = scan => \A b \in alerts' \ alerts : b.key = NoKey,
           \A b \in alerts' \ alerts :
              /\ \A a \in alerts : a.batch < b.batch
              /\ \A a \in alerts' : ~(b.batch < a.batch)
              /\ \A s \in suppressions : b.key = s.key /\ s.written < b.at /\ b.at < s.until => b.blind
              /\ \A a \in alerts : a.fp = b.fp /\ a.key # NoKey => b.blind
              /\ \A a \in alerts : a.key = b.key /\ a.fp.code \in Cooled => b.at - a.at > Cooldown(a.fp.code)
    PROVE  AnomInv'
<1>1. AckTypes'
  BY DEF AnomInv, AckTypes
<1>2. AckSilences'
  BY DEF AnomInv, AckSilences
<1>3. OneAlertPerFact'
  <2> SUFFICES ASSUME NEW a \in alerts', NEW b \in alerts', a.batch < b.batch
               PROVE  /\ a.fp = b.fp /\ a.key # NoKey => b.blind
                      /\ a.key = b.key /\ a.fp.code = "blocked_surge" => b.at - a.at > Win.blockedCooldown
                      /\ a.key = b.key /\ a.fp.code = "new_country_dst" => b.at - a.at > Win.countryCooldown
    BY DEF OneAlertPerFact
  <2>1. CASE a \in alerts /\ b \in alerts
    BY <2>1 DEF AnomInv, OneAlertPerFact
  <2>2. CASE a \in alerts /\ b \notin alerts
    BY <2>2 DEF Cooled, Cooldown
  <2>3. CASE a \notin alerts
    BY <2>3
  <2>4. QED
    BY <2>1, <2>2, <2>3
<1>4. \A b \in alerts' \ alerts : scan' = scan => b.key = NoKey
  OBVIOUS
<1>5. \A a \in alerts' : a.fp.code \in Cooled => a.key # NoKey
  BY KeyNamesCode DEF AlertTypes, Cooled, ScanCodes
<1>6. CandidatesCooled'
  BY <1>4, <1>5 DEF AnomInv, CandidatesCooled, Working
<1>7. AllSeen' /\ AllMuted'
  BY <1>4 DEF AnomInv, AllSeen, AllMuted
<1>8. QED
  BY <1>1, <1>2, <1>3, <1>6, <1>7 DEF AnomInv

\* A report of a hunt has no key, so it concerns no suppression and no fact.
LEMMA ReportStep ==
    ASSUME AnomInv, NEW id, NEW now, Report(id, now), UNCHANGED <<clock, suppressions, acking, scan>>
    PROVE  AnomInv'
<1>1. CASE alerts' = alerts
  BY <1>1, AnomUntouched
<1>2. CASE alerts' # alerts
  <2>1. PICK fp, c : /\ fp = FingerprintForHunt(id, now)
                     /\ c = [fp |-> fp, key |-> NoKey, at |-> now]
                     /\ InsertAlerts({c}, FALSE)
    BY <1>2 DEF Report, InsertSynthetic
  <2>2. fp.code \notin ScanCodes
    BY <2>1 DEF FingerprintForHunt, fingerprintAt, ScanCodes
  <2>3. c.fp = fp /\ c.key = NoKey /\ c.key = suppressionKeyForEvent(c.fp)
    BY <2>1, <2>2, KeyNamesCode
  <2>4. /\ AlertTypes' /\ alerts \subseteq alerts'
        /\ \A b \in alerts' \ alerts :
              /\ \A a \in alerts : a.batch < b.batch
              /\ \A a \in alerts' : ~(b.batch < a.batch)
              /\ b.fp = fp /\ b.key = NoKey
    <3>1. PICK K : K = {c}
      OBVIOUS
    <3>2. InsertAlerts(K, FALSE) /\ AlertTypes
      BY <2>1, <3>1 DEF AnomInv
    <3>3. \A x \in K : /\ x.key = suppressionKeyForEvent(x.fp)
                       /\ x.key # NoKey => x.at \in Int /\ x.at <= clock
      BY <2>3, <3>1
    <3>4. /\ AlertTypes' /\ alerts \subseteq alerts'
          /\ \A b \in alerts' \ alerts :
                /\ \A a \in alerts : a.batch < b.batch
                /\ \A a \in alerts' : ~(b.batch < a.batch)
                /\ \E x \in K : b.fp = x.fp /\ b.key = x.key /\ b.at = x.at
      BY <3>2, <3>3, BatchAdded
    <3>5. QED
      BY <2>3, <3>1, <3>4
  <2>5. \A a \in alerts : /\ a.fp = fp => a.key = NoKey
                          /\ a.fp.code \in Cooled => a.key # NoKey
    BY <2>3, KeyNamesCode DEF AnomInv, AlertTypes, Cooled, ScanCodes
  <2>6. \A s \in suppressions : s.key # NoKey
    BY DEF AnomInv, AckTypes
  <2>7. ScanTypes'
    BY DEF AnomInv, ScanTypes
  <2>8. QED
    BY <2>4, <2>5, <2>6, <2>7, AlertsAdded
<1>3. QED
  BY <1>1, <1>2

\* What the scan inserts is neither muted, nor known, nor within a cooldown.
LEMMA InsertStep ==
    ASSUME AnomInv, ScanInserts
    PROVE  AnomInv'
<1>1. /\ scan.at = "insert" /\ scan = [f \in ScanFields |-> scan[f]]
      /\ scan.now \in Int /\ scan.now <= clock /\ scan.blind \in BOOLEAN
      /\ \A c \in scan.cands : IsCandidate(c, scan.now)
  BY DEF ScanInserts, InScan, AnomInv, ScanTypes, Working
<1>2. UNCHANGED <<clock, suppressions, acking>>
  BY DEF ScanInserts
<1>3. scan'.at = "done"
  BY <1>1 DEF ScanInserts, ScanGoes, ScanFields
<1>4. PICK K, blind : K \subseteq Fresh /\ InsertAlerts(K, blind) /\ blind = scan.blind
  BY DEF ScanInserts
<1>5. \A c \in K : /\ c.key = suppressionKeyForEvent(c.fp)
                   /\ c.key # NoKey => c.at \in Int /\ c.at <= clock
  BY <1>1, <1>4 DEF Fresh, IsCandidate
<1>6. /\ AlertTypes' /\ alerts \subseteq alerts'
      /\ \A b \in alerts' \ alerts :
            /\ \A a \in alerts : a.batch < b.batch
            /\ \A a \in alerts' : ~(b.batch < a.batch)
            /\ b.blind = blind
            /\ \E c \in K : b.fp = c.fp /\ b.key = c.key /\ b.at = c.at
  BY <1>2, <1>4, <1>5, BatchAdded DEF AnomInv
<1>7. ASSUME NEW b \in alerts' \ alerts
      PROVE  /\ \A s \in suppressions : b.key = s.key /\ s.written < b.at /\ b.at < s.until => b.blind
             /\ \A a \in alerts : a.fp = b.fp /\ a.key # NoKey => b.blind
             /\ \A a \in alerts : a.key = b.key /\ a.fp.code \in Cooled => b.at - a.at > Cooldown(a.fp.code)
  <2>1. PICK c \in K : b.fp = c.fp /\ b.key = c.key /\ b.at = c.at
    BY <1>6
  <2>2. b.blind = scan.blind
    BY <1>4, <1>6
  <2>3. c \in scan.cands /\ c.fp \notin scan.exist /\ c.key \notin scan.muted /\ c.at = scan.now
    BY <1>1, <1>4 DEF Fresh, IsCandidate
  <2>4. \A s \in suppressions : b.key = s.key /\ s.written < b.at /\ b.at < s.until => b.blind
    BY <1>1, <2>1, <2>2, <2>3 DEF AnomInv, AllMuted
  <2>5. \A a \in alerts : a.fp = b.fp /\ a.key # NoKey => b.blind
    BY <1>1, <2>1, <2>2, <2>3 DEF AnomInv, AllSeen
  <2>6. \A a \in alerts : a.key = b.key /\ a.fp.code \in Cooled => b.at - a.at > Cooldown(a.fp.code)
    BY <1>1, <2>1, <2>3 DEF AnomInv, CandidatesCooled, Working
  <2>7. QED
    BY <2>4, <2>5, <2>6
<1>8. ScanTypes' /\ scan' # scan
  BY <1>1, <1>3 DEF ScanTypes, Working
<1>9. QED
  BY <1>2, <1>3, <1>6, <1>7, <1>8, AlertsAdded

\* A suppression is written after every alert that is there, and after the
\* beginning of a scan that may have missed it.
LEMMA AckingStep ==
    ASSUME AnomInv,
           AckStep \/ (\E ok \in BOOLEAN : AssignIfEmptyReads(ok)) \/ AssignIfEmptyWrites
    PROVE  AnomInv'
<1>1. UNCHANGED <<clock, alerts, scan>>
  BY DEF AckStep, Ack, AckSuppresses, AckFails, AssignIfEmptyReads, AssignIfEmptyWrites, AckOnly
<1>2. ASSUME suppressions' = suppressions, AckTypes'
      PROVE  AnomInv'
  <2>1. AlertTypes' /\ ScanTypes' /\ CandidatesCooled' /\ AllSeen' /\ AllMuted'
    BY <1>1, <1>2 DEF AnomInv, AlertTypes, Batches, ScanTypes, CandidatesCooled, AllSeen, AllMuted
  <2>2. AckSilences' /\ OneAlertPerFact'
    BY <1>1, <1>2 DEF AnomInv, AckSilences, OneAlertPerFact
  <2>3. QED
    BY <1>2, <2>1, <2>2 DEF AnomInv
<1>3. CASE \E fp, u : Ack(fp, u)
  <2>1. PICK fp, u : acking' = [at |-> "key", fp |-> fp, by |-> u, now |-> clock, seen |-> None]
    BY <1>3 DEF Ack
  <2>2. acking' = [f \in AckFields |-> acking'[f]] /\ acking'.at = "key" /\ acking'.now = clock
    BY <2>1 DEF AckFields
  <2>3. suppressions' = suppressions
    BY <1>3 DEF Ack
  <2>4. AckTypes'
    BY <2>2, <2>3 DEF AnomInv, AckTypes, AlertTypes
  <2>5. QED
    BY <1>2, <2>3, <2>4
<1>4. CASE AckFails \/ AssignIfEmptyWrites
  <2>1. suppressions' = suppressions /\ acking'.at = "none"
    BY <1>4 DEF AckFails, AssignIfEmptyWrites, NoAck
  <2>2. AckTypes'
    BY <2>1 DEF AnomInv, AckTypes
  <2>3. QED
    BY <1>2, <2>1, <2>2
<1>5. CASE \E ok \in BOOLEAN : AssignIfEmptyReads(ok)
  <2>1. PICK seen : /\ suppressions' = suppressions /\ acking.at = "assignee"
                    /\ acking' = [acking EXCEPT !.at = "assign", !.seen = seen]
    BY <1>5 DEF AssignIfEmptyReads
  <2>2. acking = [f \in AckFields |-> acking[f]] /\ acking.now \in Int
    BY <2>1 DEF AnomInv, AckTypes
  <2>3. acking' = [f \in AckFields |-> acking'[f]] /\ acking'.at = "assign" /\ acking'.now = acking.now
    BY <2>1, <2>2 DEF AckFields
  <2>4. AckTypes'
    BY <2>1, <2>2, <2>3 DEF AnomInv, AckTypes
  <2>5. QED
    BY <1>2, <2>1, <2>4
<1>6. CASE AckSuppresses
  <2>1. /\ acking.at = "key" /\ acking' = [acking EXCEPT !.at = "assignee"]
        /\ acking = [f \in AckFields |-> acking[f]] /\ acking.now \in Int
    BY <1>6 DEF AckSuppresses, AnomInv, AckTypes
  <2>2. acking' = [f \in AckFields |-> acking'[f]] /\ acking'.at = "assignee" /\ acking'.now = acking.now
    BY <2>1 DEF AckFields
  <2>3. PICK s : /\ s = [key |-> suppressionKeyForEvent(acking.fp), until |-> acking.now + SuppressFor,
                         written |-> clock]
                 /\ suppressions' = suppressions \/ (s.key # NoKey /\ suppressions' = suppressions \cup {s})
    BY <1>6 DEF AckSuppresses
  <2>4. s.written = clock /\ clock \in Int /\ s.until \in Int
    BY <2>1, <2>3, AnomAssumption DEF AnomInv, AlertTypes
  <2>5. CASE suppressions' = suppressions
    <3>1. AckTypes'
      BY <2>1, <2>2, <2>5 DEF AnomInv, AckTypes
    <3>2. QED
      BY <1>2, <2>5, <3>1
  <2>6. CASE s.key # NoKey /\ suppressions' = suppressions \cup {s}
    <3>1. AckTypes'
      BY <2>1, <2>2, <2>4, <2>6 DEF AnomInv, AckTypes
    <3>2. \A a \in alerts : a.key = s.key => ~(s.written < a.at)
      BY <2>4, <2>6 DEF AnomInv, AlertTypes
    <3>3. AckSilences'
      BY <1>1, <2>6, <3>2 DEF AnomInv, AckSilences
    <3>4. scan.at = "insert" => ~(s.written < scan.now)
      BY <2>4 DEF AnomInv, ScanTypes, Working
    <3>5. AllMuted'
      BY <1>1, <2>6, <3>4 DEF AnomInv, AllMuted
    <3>6. AlertTypes' /\ ScanTypes' /\ CandidatesCooled' /\ AllSeen' /\ OneAlertPerFact'
      BY <1>1 DEF AnomInv, AlertTypes, Batches, ScanTypes, CandidatesCooled, AllSeen, OneAlertPerFact
    <3>7. QED
      BY <3>1, <3>3, <3>5, <3>6 DEF AnomInv
  <2>7. QED
    BY <2>3, <2>5, <2>6
<1>7. QED
  BY <1>3, <1>4, <1>5, <1>6 DEF AckStep

LEMMA TimePasses ==
    ASSUME AnomInv, ClockTick
    PROVE  AnomInv'
<1>1. UNCHANGED <<alerts, suppressions, acking, scan>> /\ clock \in Int /\ clock' = clock + 1
  BY DEF ClockTick, alertVars, AnomInv, AlertTypes
<1>2. AlertTypes'
  <2>1. \A a \in alerts : a.key # NoKey => a.at \in Int /\ a.at <= clock'
    BY <1>1 DEF AnomInv, AlertTypes
  <2>2. QED
    BY <1>1, <2>1 DEF AnomInv, AlertTypes, Batches
<1>3. ScanTypes'
  BY <1>1 DEF AnomInv, ScanTypes
<1>4. AckTypes' /\ CandidatesCooled' /\ AllSeen' /\ AllMuted' /\ AckSilences' /\ OneAlertPerFact'
  BY <1>1 DEF AnomInv, AckTypes, CandidatesCooled, AllSeen, AllMuted, AckSilences, OneAlertPerFact
<1>5. QED
  BY <1>2, <1>3, <1>4 DEF AnomInv

\* Of the hunts' steps only a report touches the alerts.
LEMMA HuntStepAlerts ==
    ASSUME AnomInv, HuntStep
    PROVE  AnomInv'
<1>1. ASSUME NEW id, NEW now, Report(id, now) \/ UNCHANGED alerts,
             UNCHANGED <<clock, suppressions, acking, scan>>
      PROVE  AnomInv'
  BY <1>1, ReportStep, AnomUntouched
<1>2. ASSUME UNCHANGED anomVars
      PROVE  AnomInv'
  BY <1>2, AnomUntouched DEF anomVars, alertVars
<1>3. CASE \E id \in HuntIds : Create(id) \/ Update(id) \/ Delete(id) \/ RunNow(id)
  BY <1>2, <1>3 DEF Create, Update, Delete, RunNow, HuntEdits
<1>4. CASE TickScheduled \/ TickNext \/ HuntTooHeavy
  BY <1>2, <1>4 DEF TickScheduled, TickNext, HuntTooHeavy
<1>5. CASE \E t \in HuntTasks : HuntBusy(t) \/ HuntAcquires(t) \/ HuntQueryFails(t) \/ HuntReleases(t)
  BY <1>2, <1>5 DEF HuntBusy, HuntAcquires, HuntQueryFails, HuntReleases
<1>6. CASE \E t \in HuntTasks : \E edges \in EdgeCounts : HuntCounts(t, edges)
  BY <1>1, <1>6 DEF HuntCounts
<1>7. CASE \E t \in HuntTasks : HuntSaves(t)
  BY <1>1, <1>7 DEF HuntSaves
<1>8. QED
  BY <1>3, <1>4, <1>5, <1>6, <1>7 DEF HuntStep

LEMMA AnomStepKeeps ==
    ASSUME AnomInv, AnomStep
    PROVE  AnomInv'
<1>1. CASE ScanStep
  BY <1>1, ScanFrameStep, DetectStep, LookupStep, InsertStep DEF ScanStep
<1>2. CASE AckStep \/ (\E ok \in BOOLEAN : AssignIfEmptyReads(ok)) \/ AssignIfEmptyWrites
  BY <1>2, AckingStep
<1>3. CASE \E a \in alerts, u \in AnomUsers : Assign(a.fp, u)
  BY <1>3, AnomUntouched DEF Assign
<1>4. CASE ClockTick
  BY <1>4, TimePasses
<1>5. CASE \E row \in LogRows : LogArrives(row)
  BY <1>5, AnomUntouched DEF LogArrives, alertVars
<1>6. QED
  BY <1>1, <1>2, <1>3, <1>4, <1>5 DEF AnomStep, AssignStep

LEMMA AnomInvHolds == HuntSpec => []AnomInv
<1>1. Init /\ AnomInit /\ HuntInit => AnomInv
  BY InitAnomInv
<1>2. AnomInv /\ [HuntNext]_<<vars, anomVars, huntVars>> => AnomInv'
  <2> SUFFICES ASSUME AnomInv, [HuntNext]_<<vars, anomVars, huntVars>> PROVE AnomInv'
    OBVIOUS
  <2>1. CASE UNCHANGED anomVars
    BY <2>1, AnomUntouched DEF anomVars, alertVars
  <2>2. QED
    BY <2>1, HuntStepAlerts, AnomStepKeeps DEF HuntNext
<1>3. QED
  BY <1>1, <1>2, PTL DEF HuntSpec

\* An acknowledged alert's subject stays silent until its suppression ends,
\* unless a lookup of the scan failed.
THEOREM AcknowledgedIsSilent == HuntSpec => []AckSilences
<1>1. AnomInv => AckSilences
  BY DEF AnomInv
<1>2. QED
  BY <1>1, AnomInvHolds, PTL

\* The same fact is not reported twice, and a cooldown holds even for a scan
\* whose lookups failed.
THEOREM FactsReportedOnce == HuntSpec => []OneAlertPerFact
<1>1. AnomInv => OneAlertPerFact
  BY DEF AnomInv
<1>2. QED
  BY <1>1, AnomInvHolds, PTL
=============================================================================
