------------------------------ MODULE Geo_proofs ------------------------------
(***************************************************************************)
(* The GeoIP data.  Replacing a table is atomic, for any calls, any rows   *)
(* and any failures.  What the index, its stamp and its snapshot file keep *)
(* of geo_ranges, for any calls, ranges, failures and restarts.  One geo   *)
(* job at a time, in the order of scheduling, for any jobs and slots.      *)
(***************************************************************************)
EXTENDS TableSwap, GeoIndex, GeoJobs, TLAPS, FiniteSetTheorems

-----------------------------------------------------------------------------
(* The table *)

\* Before the first call nothing is staged and nothing has changed.
LEMMA InitSwapInv == Init => IInv
<1> SUFFICES ASSUME Init
             PROVE  IInv
  OBVIOUS
<1>1. TypeOK
  BY TableAssumption DEF Init, TypeOK
<1>2. StagingIsOwn
  BY DEF Init, StagingIsOwn, Running
<1>3. Ledger
  BY DEF Init, Ledger, Running
<1>4. QED
  BY <1>1, <1>2, <1>3 DEF IInv

\* A staging table with rows of the list only, and as many of them, is the list.
LEMMA CountDecides ==
    ASSUME NEW w \in Writers, NEW S, S \subseteq Want(w),
           Cardinality(S) = Cardinality(Want(w))
    PROVE  S = Want(w)
<1>1. IsFiniteSet(Want(w))
  BY TableAssumption, FS_Subset
<1>2. QED
  BY <1>1, FS_Subset

\* Every step of a call preserves the invariant.
LEMMA CallSwapInv ==
    ASSUME NEW w \in Writers, IInv, Call(w)
    PROVE  IInv'
<1> USE DEF Goto, Return, DropStaging, Running, Statements
<1>0. TypeOK /\ StagingIsOwn /\ Ledger
  BY DEF IInv
<1>w. Want(w) \in SUBSET Rows
  BY TableAssumption
<1>1. CASE Begin(w)
  <2>1. TypeOK'
    BY <1>0, <1>1 DEF Begin, TypeOK
  <2>2. StagingIsOwn'
    BY <1>0, <1>1, TableAssumption DEF Begin, TypeOK, StagingIsOwn
  <2>3. Ledger'
    BY <1>0, <1>1 DEF Begin, TypeOK, Ledger
  <2>4. QED
    BY <2>1, <2>2, <2>3 DEF IInv
<1>2. CASE DropOld(w)
  <2>1. TypeOK'
    BY <1>0, <1>2 DEF DropOld, TypeOK
  <2>2. StagingIsOwn'
    BY <1>0, <1>2 DEF DropOld, TypeOK, StagingIsOwn
  <2>3. Ledger'
    BY <1>0, <1>2 DEF DropOld, TypeOK, Ledger
  <2>4. QED
    BY <2>1, <2>2, <2>3 DEF IInv
<1>3. CASE Create(w)
  <2>1. TypeOK'
    BY <1>0, <1>3, <1>w DEF Create, TypeOK
  <2>2. StagingIsOwn'
    BY <1>0, <1>3, TableAssumption DEF Create, TypeOK, StagingIsOwn
  <2>3. Ledger'
    BY <1>0, <1>3 DEF Create, TypeOK, Ledger
  <2>4. QED
    BY <2>1, <2>2, <2>3 DEF IInv
<1>4. CASE CreateFails(w)
  <2>1. TypeOK'
    BY <1>0, <1>4 DEF CreateFails, TypeOK
  <2>2. StagingIsOwn'
    BY <1>0, <1>4 DEF CreateFails, TypeOK, StagingIsOwn
  <2>3. Ledger'
    BY <1>0, <1>4 DEF CreateFails, TypeOK, Ledger
  <2>4. QED
    BY <2>1, <2>2, <2>3 DEF IInv
<1>5. CASE Insert(w)
  <2>0. todo[w] \subseteq Want(w)
    BY <1>0, <1>5 DEF Insert, Ledger
  <2>1. TypeOK'
    BY <1>0, <1>5, <1>w, <2>0, TableAssumption DEF Insert, TypeOK
  <2>2. StagingIsOwn'
    BY <1>0, <1>5, <2>0, TableAssumption DEF Insert, TypeOK, StagingIsOwn
  <2>3. Ledger'
    BY <1>0, <1>5 DEF Insert, TypeOK, Ledger
  <2>4. QED
    BY <2>1, <2>2, <2>3 DEF IInv
<1>6. CASE InsertFails(w)
  <2>1. TypeOK'
    BY <1>0, <1>6 DEF InsertFails, TypeOK
  <2>2. StagingIsOwn'
    BY <1>0, <1>6 DEF InsertFails, TypeOK, StagingIsOwn
  <2>3. Ledger'
    BY <1>0, <1>6 DEF InsertFails, TypeOK, Ledger
  <2>4. QED
    BY <2>1, <2>2, <2>3 DEF IInv
<1>7. CASE Filled(w)
  <2>1. TypeOK'
    BY <1>0, <1>7 DEF Filled, TypeOK
  <2>2. StagingIsOwn'
    BY <1>0, <1>7 DEF Filled, TypeOK, StagingIsOwn
  <2>3. Ledger'
    BY <1>0, <1>7 DEF Filled, TypeOK, Ledger
  <2>4. QED
    BY <2>1, <2>2, <2>3 DEF IInv
<1>8. CASE Count(w)
  <2>0. Cardinality(staging) = Cardinality(Want(w)) => staging = Want(w)
    BY <1>0, <1>8, CountDecides DEF Count, StagingIsOwn
  <2>1. TypeOK'
    BY <1>0, <1>8 DEF Count, TypeOK
  <2>2. StagingIsOwn'
    BY <1>0, <1>8, <2>0 DEF Count, TypeOK, StagingIsOwn
  <2>3. Ledger'
    BY <1>0, <1>8 DEF Count, TypeOK, Ledger
  <2>4. QED
    BY <2>1, <2>2, <2>3 DEF IInv
<1>9. CASE CountFails(w)
  <2>1. TypeOK'
    BY <1>0, <1>9 DEF CountFails, TypeOK
  <2>2. StagingIsOwn'
    BY <1>0, <1>9 DEF CountFails, TypeOK, StagingIsOwn
  <2>3. Ledger'
    BY <1>0, <1>9 DEF CountFails, TypeOK, Ledger
  <2>4. QED
    BY <2>1, <2>2, <2>3 DEF IInv
<1>10. CASE Exchange(w) \/ ExchangeFails(w)
  <2>0. staging = Want(w) /\ staging # NoTable
    BY <1>0, <1>10, <1>w, TableAssumption DEF Exchange, ExchangeFails, StagingIsOwn
  <2>1. TypeOK'
    BY <1>0, <1>10, <2>0, <1>w DEF Exchange, ExchangeFails, Swap, TypeOK
  <2>2. StagingIsOwn'
    BY <1>0, <1>10 DEF Exchange, ExchangeFails, Swap, TypeOK, StagingIsOwn
  <2>3. Ledger'
    BY <1>0, <1>10 DEF Exchange, ExchangeFails, Swap, TypeOK, Ledger
  <2>4. QED
    BY <2>1, <2>2, <2>3 DEF IInv
<1>11. CASE Cleanup(w) \/ Undo(w)
  <2>1. TypeOK'
    BY <1>0, <1>11 DEF Cleanup, Undo, TypeOK
  <2>2. StagingIsOwn'
    BY <1>0, <1>11 DEF Cleanup, Undo, TypeOK, StagingIsOwn
  <2>3. Ledger'
    BY <1>0, <1>11 DEF Cleanup, Undo, TypeOK, Ledger
  <2>4. QED
    BY <2>1, <2>2, <2>3 DEF IInv
<1>12. CASE Truncate(w) \/ TruncateFails(w)
  <2>0. {} # NoTable
    BY TableAssumption
  <2>1. TypeOK'
    BY <1>0, <1>12, <2>0 DEF Truncate, TruncateFails, Empty, TypeOK
  <2>2. StagingIsOwn'
    BY <1>0, <1>12 DEF Truncate, TruncateFails, Empty, TypeOK, StagingIsOwn
  <2>3. Ledger'
    BY <1>0, <1>12 DEF Truncate, TruncateFails, Empty, TypeOK, Ledger
  <2>4. QED
    BY <2>1, <2>2, <2>3 DEF IInv
<1>13. CASE TruncateReturns(w)
  <2>1. TypeOK'
    BY <1>0, <1>13 DEF TruncateReturns, TypeOK
  <2>2. StagingIsOwn'
    BY <1>0, <1>13 DEF TruncateReturns, TypeOK, StagingIsOwn
  <2>3. Ledger'
    BY <1>0, <1>13 DEF TruncateReturns, TypeOK, Ledger
  <2>4. QED
    BY <2>1, <2>2, <2>3 DEF IInv
<1>14. QED
  BY <1>1, <1>2, <1>3, <1>4, <1>5, <1>6, <1>7, <1>8, <1>9, <1>10, <1>11, <1>12, <1>13
     DEF Call

\* Every step of the system preserves the invariant.
LEMMA NextSwapInv == IInv /\ [Next]_vars => IInv'
<1> SUFFICES ASSUME IInv, [Next]_vars
             PROVE  IInv'
  OBVIOUS
<1>1. CASE \E w \in Writers : Call(w)
  BY <1>1, CallSwapInv
<1>2. CASE Crash
  <2>1. TypeOK'
    BY <1>2 DEF Crash, IInv, TypeOK
  <2>2. StagingIsOwn'
    BY <1>2 DEF Crash, IInv, TypeOK, StagingIsOwn, Running
  <2>3. Ledger'
    BY <1>2 DEF Crash, IInv, TypeOK, Ledger, Running
  <2>4. QED
    BY <2>1, <2>2, <2>3 DEF IInv
<1>3. CASE Finished \/ UNCHANGED vars
  <2>1. UNCHANGED vars
    BY <1>3 DEF Finished
  <2>2. QED
    BY <2>1 DEF vars, IInv, TypeOK, StagingIsOwn, Ledger, Running
<1>4. QED
  BY <1>1, <1>2, <1>3 DEF Next

\* The invariant of the calls holds for ever.
LEMMA SwapInvHolds == Spec => []IInv
BY InitSwapInv, NextSwapInv, PTL DEF Spec

\* The type of the state: the live table always exists.
THEOREM TypeCorrect == Spec => []TypeOK
<1>1. IInv => TypeOK
  BY DEF IInv
<1>2. QED
  BY <1>1, SwapInvHolds, PTL

\* The staging table of the call that runs is its own: nothing left over from
\* a failed or dead call of ReplaceViaStaging is exchanged into the live table.
THEOREM StagingOwned == Spec => []StagingIsOwn
<1>1. IInv => StagingIsOwn
  BY DEF IInv
<1>2. QED
  BY <1>1, SwapInvHolds, PTL

\* Every step of a call is a step of the abstract table, or changes nothing
\* that a caller can see.
LEMMA CallSimulates ==
    ASSUME NEW w \in Writers, IInv, Call(w)
    PROVE  Atomic!Next \/ UNCHANGED Atomic!vars
<1> USE DEF Atomic!Next, Atomic!vars
<1>0. TypeOK /\ StagingIsOwn /\ Ledger
  BY DEF IInv
<1>1. CASE Exchange(w) \/ ExchangeFails(w)
  <2>1. /\ w \notin effective /\ answer[w] = "none"
        /\ staging = Want(w)
    BY <1>0, <1>1 DEF Exchange, ExchangeFails, Ledger, StagingIsOwn, Running
  <2>2. CASE Swap(w)
    BY <1>1, <2>1, <2>2 DEF Exchange, ExchangeFails, Swap, Atomic!Apply
  <2>3. CASE UNCHANGED <<live, effective>>
    BY <1>1, <2>3 DEF Exchange, ExchangeFails
  <2>4. QED
    BY <1>1, <2>2, <2>3 DEF Exchange, ExchangeFails
<1>2. CASE Truncate(w) \/ TruncateFails(w)
  <2>1. /\ w \notin effective /\ answer[w] = "none"
        /\ Want(w) = {}
    BY <1>0, <1>2, TableAssumption DEF Truncate, TruncateFails, Ledger, Running
  <2>2. CASE Empty(w)
    BY <1>2, <2>1, <2>2 DEF Truncate, TruncateFails, Empty, Atomic!Apply
  <2>3. CASE UNCHANGED <<live, effective>>
    BY <1>2, <2>3 DEF Truncate, TruncateFails
  <2>4. QED
    BY <1>2, <2>2, <2>3 DEF Truncate, TruncateFails
<1>3. CASE Cleanup(w)
  <2>1. Atomic!Answer(w, "ok")
    BY <1>0, <1>3 DEF Cleanup, Return, Ledger, Running, Atomic!Answer
  <2>2. QED
    BY <2>1
<1>4. CASE Undo(w) \/ CreateFails(w)
  <2>1. Atomic!Answer(w, "error")
    BY <1>0, <1>4 DEF Undo, CreateFails, Return, Ledger, Running, Atomic!Answer
  <2>2. QED
    BY <2>1
<1>5. CASE TruncateReturns(w)
  <2>1. Atomic!Answer(w, "ok") \/ Atomic!Answer(w, "error")
    BY <1>0, <1>5 DEF TruncateReturns, Return, Ledger, Running, Atomic!Answer
  <2>2. QED
    BY <2>1
<1>6. CASE \/ Begin(w) \/ DropOld(w) \/ Create(w) \/ Insert(w) \/ InsertFails(w)
           \/ Filled(w) \/ Count(w) \/ CountFails(w)
  BY <1>6 DEF Begin, DropOld, Create, Insert, InsertFails, Filled, Count, CountFails
<1>7. QED
  BY <1>1, <1>2, <1>3, <1>4, <1>5, <1>6 DEF Call

\* ReplaceGeoRanges, TruncateGeoRanges and ReplaceReputationRanges implement
\* the atomic table: readers never see a mixture, a call takes effect at most
\* once, and "ok" follows the effect.
THEOREM Replacement == Spec => ReplaceIsAtomic
<1>1. Init => Atomic!Init
  BY DEF Init, Atomic!Init
<1>2. IInv /\ [Next]_vars => [Atomic!Next]_(Atomic!vars)
  <2> SUFFICES ASSUME IInv, [Next]_vars
               PROVE  Atomic!Next \/ UNCHANGED Atomic!vars
    OBVIOUS
  <2>1. CASE \E w \in Writers : Call(w)
    BY <2>1, CallSimulates
  <2>2. CASE Crash
    BY <2>2 DEF Crash, Atomic!vars
  <2>3. CASE Finished \/ UNCHANGED vars
    BY <2>3 DEF Finished, vars, Atomic!vars
  <2>4. QED
    BY <2>1, <2>2, <2>3 DEF Next
<1>3. QED
  BY <1>1, <1>2, SwapInvHolds, PTL DEF Spec, Atomic!Spec, ReplaceIsAtomic

-----------------------------------------------------------------------------
(* The index and its snapshot *)

Working == {"replace", "truncate", "publish", "compare", "readfile", "load", "fromfile",
            "requery", "stamp", "filestamp", "encode", "write", "schedule"}

IndexTypes ==
    /\ table \in SUBSET Ranges
    /\ index \in SUBSET Ranges
    /\ stamp \in Stamps \cup {NoStamp}
    /\ file \in Snapshots \cup {NoFile}
    /\ step \in [Procs -> Resting \cup Working]
    /\ rows \in [Procs -> SUBSET Ranges]
    /\ mark \in [Procs -> Stamps \cup {NoStamp}]
    /\ pending \in BOOLEAN /\ synced \in BOOLEAN /\ overlapped \in BOOLEAN /\ unstamped \in BOOLEAN

\* What p is about to publish, to write or to bring back has been in the table.
CommittedInv ==
    /\ table \in committed /\ {} \in committed
    /\ IndexWasCommitted
    /\ \A p \in Procs : step[p] \in {"publish", "fromfile", "write"} => rows[p] \in committed

\* A stamp is at hand wherever the code passes one on.
Marked ==
    \A p \in Procs : step[p] \in {"compare", "readfile", "fromfile", "filestamp", "stamp",
                                  "encode", "write", "replace", "truncate"} => mark[p] \in Stamps

\* Two publications at once are noticed, and there is none before LoadDisk.
Alone == ~overlapped => \A p, q \in Procs : p # q => step[p] \in Resting \/ step[q] \in Resting

Booting ==
    step[Startup] = "boot" =>
        /\ ~pending /\ ~synced /\ ~unstamped /\ stamp = NoStamp
        /\ \A p \in Procs \ {Startup} : step[p] \in {"idle", "done", "dead"}

EmptyHanded == \A c \in Calls : step[c] \in {"idle", "slot", "truncate"} => rows[c] = {}

OrderInv == Alone /\ Booting /\ EmptyHanded

\* What a process at work knows of the table and of the index, while it is
\* alone.
Knows(p) ==
    /\ step[p] = "replace" => mark[p] = StampOf(rows[p])
    /\ step[p] = "truncate" => mark[p] = {}
    /\ step[p] \in {"compare", "readfile"} => mark[p] = StampOf(table)
    /\ step[p] = "load" => mark[p] \in {NoStamp, StampOf(table)}
    /\ step[p] = "publish" => rows[p] = table /\ mark[p] \in {NoStamp, StampOf(table)}
    /\ step[p] = "fromfile" => mark[p] = StampOf(rows[p]) /\ mark[p] = StampOf(table)
    /\ step[p] = "filestamp" => mark[p] = StampOf(index) /\ mark[p] = StampOf(table)
    /\ step[p] \in {"requery", "stamp", "encode", "write"} => index = table
    /\ step[p] \in {"stamp", "encode"} => mark[p] = StampOf(index)
    /\ step[p] = "write" => mark[p] = StampOf(rows[p])

\* Between the publication of an index and that of its stamp.
Unequal == \E p \in Procs : step[p] \in {"requery", "stamp", "filestamp"}

\* Of the contents the table has had no two share a stamp.
StampsTell == \A R, Q \in committed : StampOf(R) = StampOf(Q) => R = Q

FileFits == file # NoFile => file.stamp = StampOf(file.rows)
StampFits == stamp # NoStamp /\ ~unstamped => stamp = StampOf(index)

Honest ==
    ~overlapped =>
        /\ \A p \in Procs : Knows(p)
        /\ FileFits
        /\ ~Unequal => StampFits

Repaired == StampsTell /\ synced /\ ~overlapped => index = table

\* The inductive invariant.
IndexInv ==
    /\ IndexTypes /\ Marked
    /\ CommittedInv
    /\ OrderInv
    /\ Honest /\ Repaired

-----------------------------------------------------------------------------
(* Types *)

LEMMA StampIsStamp == ASSUME NEW R \in SUBSET Ranges PROVE StampOf(R) \in Stamps
BY DEF StampOf, Stamps

LEMMA BroughtAreRanges == ASSUME NEW c \in Calls PROVE Brought(c) \in SUBSET Ranges
BY DEF Ranges

LEMMA Processes ==
    /\ Startup \in Procs /\ Job \in Procs /\ Reloaders \subseteq Procs /\ Calls \subseteq Procs
    /\ Startup # Job /\ Calls \cap Reloaders = {}
BY GeoAssumption DEF Procs, Reloaders

LEMMA NoneIsNone == NoStamp \notin Stamps /\ NoFile \notin Snapshots
BY GeoAssumption

LEMMA IndexInitTypes == IndexInit => IndexTypes /\ Marked
<1> SUFFICES ASSUME IndexInit PROVE IndexTypes /\ Marked
  OBVIOUS
<1>1. InitialRanges \in SUBSET Ranges
  BY DEF Ranges
<1>2. StampOf(InitialRanges) \in Stamps
  BY <1>1, StampIsStamp
<1>3. file \in Snapshots \cup {NoFile}
  BY <1>1, <1>2 DEF IndexInit, Snapshots
<1>4. PICK S \in Scenarios : step = [p \in Procs |-> CASE p = Startup -> "boot"
                                 [] p \in Calls \ S.calls -> "done"
                                 [] OTHER -> "idle"]
  BY DEF IndexInit
<1>5. \A p \in Procs : step[p] \in {"boot", "done", "idle"}
  BY <1>4, Processes
<1>6. step \in [Procs -> Resting \cup Working]
  BY <1>4, <1>5 DEF Resting
<1>7. QED
  BY <1>1, <1>3, <1>5, <1>6 DEF IndexInit, IndexTypes, Marked

\* A reload that returns.
LEMMA EndTypes ==
    ASSUME IndexTypes, Marked, NEW p \in Procs, NEW ok, End(p, ok)
    PROVE  /\ step' \in [Procs -> Resting \cup Working]
           /\ rows' \in [Procs -> SUBSET Ranges]
           /\ mark' \in [Procs -> Stamps \cup {NoStamp}]
           /\ synced' \in BOOLEAN /\ overlapped' \in BOOLEAN
           /\ Marked'
<1>1. synced' \in BOOLEAN
  BY Zenon DEF End
<1>2. overlapped' \in BOOLEAN
  BY Zenon DEF End, IndexReturn, IndexGoto, Overlap
<1>3. QED
  BY <1>1, <1>2 DEF End, IndexReturn, IndexGoto, IndexTypes, Marked, Resting, Working

LEMMA IndexStepTypes == IndexTypes /\ Marked /\ [IndexNext]_indexVars => IndexTypes' /\ Marked'
<1> SUFFICES ASSUME IndexTypes, Marked, [IndexNext]_indexVars PROVE IndexTypes' /\ Marked'
  OBVIOUS
<1> USE Processes, NoneIsNone
<1>1. CASE LoadDisk
  BY <1>1 DEF LoadDisk, IndexTypes, Marked, IndexGoto, Overlap, Resting, Working, Snapshots
<1>2. CASE Supersede
  BY <1>2 DEF Supersede, IndexTypes, Marked
<1>3. CASE IndexCrash
  BY <1>3 DEF IndexCrash, IndexTypes, Marked, Resting, Working
<1>4. CASE IndexFinished \/ UNCHANGED indexVars
  BY <1>4 DEF IndexFinished, indexVars, IndexTypes, Marked
<1>5. ASSUME NEW c \in Calls, NEW R \in SUBSET Ranges, Prepare(c, R)
      PROVE  IndexTypes' /\ Marked'
  <2>1. StampOf(R) \in Stamps
    BY StampIsStamp
  <2>2. QED
    BY <1>5, <2>1 DEF Prepare, IndexTypes, Marked, IndexGoto, Overlap, Resting, Working
<1>6. ASSUME NEW c \in Calls, UploadCSV(c) PROVE IndexTypes' /\ Marked'
  BY <1>6 DEF UploadCSV, IndexTypes, Marked, IndexGoto, Overlap, Resting, Working
<1>7. ASSUME NEW c \in Calls, AcquireSlot(c) \/ AppendRange(c) \/ UpdateRange(c) PROVE IndexTypes' /\ Marked'
  <2>1. Brought(c) \in SUBSET Ranges /\ table \in SUBSET Ranges
    BY BroughtAreRanges DEF IndexTypes
  <2>2. PICK R : R \in SUBSET Ranges /\ Prepare(c, R)
    <3>1. CASE AcquireSlot(c)
      BY <2>1, <3>1 DEF AcquireSlot
    <3>2. CASE AppendRange(c)
      BY <2>1, <3>2 DEF AppendRange
    <3>3. CASE UpdateRange(c)
      <4>1. {r \in table : r.net # Original(c)} \cup Brought(c) \in SUBSET Ranges
        BY <2>1
      <4>2. QED
        BY <3>3, <4>1 DEF UpdateRange
    <3>4. QED
      BY <1>7, <3>1, <3>2, <3>3
  <2>3. QED
    BY <1>5, <2>2
<1>8. ASSUME NEW c \in Calls, Refuse(c) PROVE IndexTypes' /\ Marked'
  BY <1>8 DEF Refuse, IndexReturn, IndexTypes, Marked, IndexGoto, Overlap, Resting, Working
<1>9. ASSUME NEW c \in Calls, ClearAll(c) PROVE IndexTypes' /\ Marked'
  <2>1. StampOf({}) \in Stamps
    BY StampIsStamp
  <2>2. QED
    BY <1>9, <2>1 DEF ClearAll, IndexTypes, Marked, IndexGoto, Overlap, Resting, Working
<1>10. ASSUME NEW c \in Calls, Store(c) PROVE IndexTypes' /\ Marked'
  BY <1>10 DEF Store, Change, IndexTypes, Marked, IndexGoto, Overlap, Resting, Working
<1>11. ASSUME NEW c \in Calls, StoreFails(c) PROVE IndexTypes' /\ Marked'
  BY <1>11 DEF StoreFails, Change, IndexReturn, IndexTypes, Marked, IndexGoto, Overlap, Resting, Working
<1>12. ASSUME NEW c \in Calls, ScheduleReload(c) PROVE IndexTypes' /\ Marked'
  BY <1>12 DEF ScheduleReload, IndexReturn, IndexTypes, Marked, IndexGoto, Overlap, Resting, Working
<1>13. ASSUME NEW p \in Procs, BeginReload(p) PROVE IndexTypes' /\ Marked'
  BY <1>13 DEF BeginReload, IndexTypes, Marked, IndexGoto, Overlap, Resting, Working
<1>14. ASSUME NEW p \in Procs, QueryStamp(p) PROVE IndexTypes' /\ Marked'
  <2>1. StampOf(table) \in Stamps
    BY StampIsStamp DEF IndexTypes
  <2>2. QED
    <3>1. CASE mark' = [mark EXCEPT ![p] = StampOf(table)] /\ IndexGoto(p, "compare")
      BY <1>14, <2>1, <3>1 DEF QueryStamp, IndexTypes, Marked, IndexGoto, Overlap, Resting, Working
    <3>2. CASE mark' = [mark EXCEPT ![p] = NoStamp] /\ IndexGoto(p, "load")
      BY <1>14, <2>1, <3>2 DEF QueryStamp, IndexTypes, Marked, IndexGoto, Overlap, Resting, Working
    <3>3. QED
      BY <1>14, <3>1, <3>2 DEF QueryStamp
<1>15. ASSUME NEW p \in Procs, Compare(p) PROVE IndexTypes' /\ Marked'
  <2>1. CASE stamp = mark[p]
    <3>1. End(p, ~unstamped)
      BY <1>15, <2>1, Zenon DEF Compare
    <3>2. QED
      BY <1>15, <3>1, EndTypes DEF Compare, IndexTypes
  <2>2. CASE stamp # mark[p]
    BY <1>15, <2>2 DEF Compare, IndexTypes, Marked, IndexGoto, Overlap, Resting, Working
  <2>3. QED
    BY <2>1, <2>2
<1>16. ASSUME NEW p \in Procs, ReadFile(p) PROVE IndexTypes' /\ Marked'
  <2>1. CASE file # NoFile /\ file.stamp = mark[p]
    <3>1. file.rows \in SUBSET Ranges
      BY <2>1 DEF IndexTypes, Snapshots
    <3>2. QED
      BY <1>16, <2>1, <3>1 DEF ReadFile, IndexTypes, Marked, IndexGoto, Overlap, Resting, Working
  <2>2. CASE ~(file # NoFile /\ file.stamp = mark[p])
    BY <1>16, <2>2 DEF ReadFile, IndexTypes, Marked, IndexGoto, Overlap, Resting, Working
  <2>3. QED
    BY <2>1, <2>2
<1>17. ASSUME NEW p \in Procs, Load(p) PROVE IndexTypes' /\ Marked'
  BY <1>17 DEF Load, IndexTypes, Marked, IndexGoto, Overlap, Resting, Working
<1>18. ASSUME NEW p \in Procs, LoadFails(p) PROVE IndexTypes' /\ Marked'
  BY <1>18, EndTypes DEF LoadFails, IndexTypes
<1>19. ASSUME NEW p \in Procs, Requery(p) PROVE IndexTypes' /\ Marked'
  <2>1. StampOf(table) \in Stamps
    BY StampIsStamp DEF IndexTypes
  <2>2. QED
    <3>1. CASE End(p, TRUE) /\ unstamped' = TRUE
      BY <1>19, <3>1, EndTypes DEF Requery, IndexTypes
    <3>2. CASE /\ mark' = [mark EXCEPT ![p] = StampOf(table)]
               /\ IndexGoto(p, "stamp")
               /\ UNCHANGED <<rows, synced, unstamped>>
      BY <1>19, <2>1, <3>2 DEF Requery, IndexTypes, Marked, IndexGoto, Overlap, Resting, Working
    <3>3. QED
      BY <1>19, <3>1, <3>2, Zenon DEF Requery
<1>20. ASSUME NEW p \in Procs, Publish(p) PROVE IndexTypes' /\ Marked'
  BY <1>20 DEF Publish, IndexTypes, Marked, IndexGoto, Overlap, Resting, Working
<1>21. ASSUME NEW p \in Procs, SetStamp(p) PROVE IndexTypes' /\ Marked'
  <2>1. CASE step[p] = "filestamp"
    BY <1>21, <2>1, EndTypes DEF SetStamp, IndexTypes
  <2>2. CASE step[p] = "stamp"
    BY <1>21, <2>2 DEF SetStamp, IndexTypes, Marked, IndexGoto, Overlap, Resting, Working
  <2>3. QED
    BY <1>21, <2>1, <2>2 DEF SetStamp
<1>22. ASSUME NEW p \in Procs, Encode(p) PROVE IndexTypes' /\ Marked'
  BY <1>22 DEF Encode, IndexTypes, Marked, IndexGoto, Overlap, Resting, Working
<1>23. ASSUME NEW p \in Procs, Write(p) PROVE IndexTypes' /\ Marked'
  <2>1. file' \in Snapshots \cup {NoFile}
    BY <1>23 DEF Write, IndexTypes, Marked, Snapshots
  <2>2. CASE p \in Calls
    BY <1>23, <2>1, <2>2 DEF Write, IndexTypes, Marked, IndexGoto, Overlap, Resting, Working
  <2>3. CASE p \notin Calls
    BY <1>23, <2>1, <2>3, EndTypes DEF Write, IndexTypes
  <2>4. QED
    BY <2>2, <2>3
<1>24. QED
  BY <1>1, <1>2, <1>3, <1>4, <1>6, <1>7, <1>8, <1>9, <1>10, <1>11, <1>12, <1>13, <1>14, <1>15,
     <1>16, <1>17, <1>18, <1>19, <1>20, <1>21, <1>22, <1>23 DEF IndexNext, GeoCall, Reload

-----------------------------------------------------------------------------
(* The index and the file hold what the table has held *)

LEMMA InitCommitted == IndexInit => CommittedInv
<1> SUFFICES ASSUME IndexInit PROVE CommittedInv
  OBVIOUS
<1>1. PICK S \in Scenarios : step = [p \in Procs |-> CASE p = Startup -> "boot"
                                 [] p \in Calls \ S.calls -> "done"
                                 [] OTHER -> "idle"]
  BY DEF IndexInit
<1>2. \A p \in Procs : step[p] \notin {"publish", "fromfile", "write"}
  BY <1>1, Processes
<1>3. QED
  BY <1>2 DEF IndexInit, CommittedInv, IndexWasCommitted

\* Steps that touch no copy of the ranges and bring p to no publication.
LEMMA AsideCommitted ==
    ASSUME IndexTypes, CommittedInv, NEW p \in Procs, NEW to,
           to \notin {"publish", "fromfile", "write"},
           step' = [step EXCEPT ![p] = to],
           \A q \in Procs \ {p} : rows'[q] = rows[q],
           UNCHANGED <<table, index, file, committed>>
    PROVE  CommittedInv'
BY DEF IndexTypes, CommittedInv, IndexWasCommitted

LEMMA StepCommitted == IndexTypes /\ CommittedInv /\ [IndexNext]_indexVars => CommittedInv'
<1> SUFFICES ASSUME IndexTypes, CommittedInv, [IndexNext]_indexVars PROVE CommittedInv'
  OBVIOUS
<1> USE Processes, NoneIsNone
<1>1. CASE LoadDisk
  BY <1>1 DEF LoadDisk, IndexGoto, IndexTypes, CommittedInv, IndexWasCommitted
<1>2. CASE IndexCrash
  <2>1. \A p \in Procs : step'[p] \notin {"publish", "fromfile", "write"}
    BY <1>2 DEF IndexCrash, IndexTypes, Resting, Working
  <2>2. QED
    BY <1>2, <2>1 DEF IndexCrash, CommittedInv, IndexWasCommitted
<1>3. CASE Supersede \/ IndexFinished \/ UNCHANGED indexVars
  BY <1>3 DEF Supersede, IndexFinished, indexVars, CommittedInv, IndexWasCommitted
<1>4. ASSUME NEW c \in Calls, NEW R, Prepare(c, R) PROVE CommittedInv'
  BY <1>4, AsideCommitted DEF Prepare, IndexGoto, IndexTypes
<1>5. ASSUME NEW c \in Calls, AcquireSlot(c) \/ AppendRange(c) \/ UpdateRange(c) PROVE CommittedInv'
  BY <1>4, <1>5 DEF AcquireSlot, AppendRange, UpdateRange
<1>6. ASSUME NEW c \in Calls, UploadCSV(c) \/ ClearAll(c) PROVE CommittedInv'
  BY <1>6, AsideCommitted DEF UploadCSV, ClearAll, IndexGoto, IndexTypes
<1>7. ASSUME NEW c \in Calls, Refuse(c) \/ ScheduleReload(c) PROVE CommittedInv'
  BY <1>7, AsideCommitted DEF Refuse, ScheduleReload, IndexReturn, IndexGoto, IndexTypes
<1>8. ASSUME NEW c \in Calls, Store(c) PROVE CommittedInv'
  BY <1>8 DEF Store, Change, IndexGoto, IndexTypes, CommittedInv, IndexWasCommitted
<1>9. ASSUME NEW c \in Calls, StoreFails(c) PROVE CommittedInv'
  <2>1. UNCHANGED <<index, file>> /\ committed \subseteq committed' /\ table' \in committed'
    BY <1>9 DEF StoreFails, Change, CommittedInv
  <2>2. \A q \in Procs : /\ step'[q] \in {"publish", "fromfile", "write"} => step'[q] = step[q]
                         /\ q # c => rows'[q] = rows[q]
    BY <1>9 DEF StoreFails, IndexReturn, IndexGoto, IndexTypes
  <2>3. step'[c] = "done"
    BY <1>9 DEF StoreFails, IndexReturn, IndexGoto, IndexTypes
  <2>4. QED
    BY <2>1, <2>2, <2>3 DEF CommittedInv, IndexWasCommitted
<1>10. ASSUME NEW p \in Procs, BeginReload(p) PROVE CommittedInv'
  BY <1>10, AsideCommitted DEF BeginReload, IndexGoto, IndexTypes
<1>11. ASSUME NEW p \in Procs, QueryStamp(p) PROVE CommittedInv'
  BY <1>11, AsideCommitted DEF QueryStamp, IndexGoto, IndexTypes
<1>12. ASSUME NEW p \in Procs, Compare(p) PROVE CommittedInv'
  BY <1>12, AsideCommitted DEF Compare, End, IndexReturn, IndexGoto, IndexTypes
<1>13. ASSUME NEW p \in Procs, ReadFile(p) PROVE CommittedInv'
  BY <1>13 DEF ReadFile, IndexGoto, IndexTypes, CommittedInv, IndexWasCommitted
<1>14. ASSUME NEW p \in Procs, Load(p) PROVE CommittedInv'
  BY <1>14 DEF Load, IndexGoto, IndexTypes, CommittedInv, IndexWasCommitted
<1>15. ASSUME NEW p \in Procs, LoadFails(p) PROVE CommittedInv'
  BY <1>15, AsideCommitted DEF LoadFails, End, IndexReturn, IndexGoto, IndexTypes
<1>16. ASSUME NEW p \in Procs, Requery(p) PROVE CommittedInv'
  BY <1>16, AsideCommitted DEF Requery, End, IndexReturn, IndexGoto, IndexTypes
<1>17. ASSUME NEW p \in Procs, Publish(p) PROVE CommittedInv'
  BY <1>17 DEF Publish, IndexGoto, IndexTypes, CommittedInv, IndexWasCommitted
<1>18. ASSUME NEW p \in Procs, SetStamp(p) PROVE CommittedInv'
  BY <1>18, AsideCommitted DEF SetStamp, End, IndexReturn, IndexGoto, IndexTypes
<1>19. ASSUME NEW p \in Procs, Encode(p) PROVE CommittedInv'
  BY <1>19 DEF Encode, IndexGoto, IndexTypes, CommittedInv, IndexWasCommitted
<1>20. ASSUME NEW p \in Procs, Write(p) PROVE CommittedInv'
  <2>1. file' # NoFile => file'.rows \in committed
    BY <1>20 DEF Write, CommittedInv, IndexWasCommitted
  <2>2. \A q \in Procs : /\ step'[q] \in {"publish", "fromfile", "write"} => step'[q] = step[q]
                         /\ q # p => rows'[q] = rows[q]
    BY <1>20 DEF Write, End, IndexReturn, IndexGoto, IndexTypes
  <2>3. step'[p] \in {"done", "schedule"}
    BY <1>20 DEF Write, End, IndexReturn, IndexGoto, IndexTypes
  <2>4. QED
    BY <1>20, <2>1, <2>2, <2>3 DEF Write, CommittedInv, IndexWasCommitted
<1>21. QED
  BY <1>1, <1>2, <1>3, <1>5, <1>6, <1>7, <1>8, <1>9, <1>10, <1>11, <1>12, <1>13, <1>14, <1>15,
     <1>16, <1>17, <1>18, <1>19, <1>20 DEF IndexNext, GeoCall, Reload

-----------------------------------------------------------------------------
(* Who works at a time *)

LEMMA InitOrder == IndexInit => OrderInv
<1> SUFFICES ASSUME IndexInit PROVE OrderInv
  OBVIOUS
<1>1. PICK S \in Scenarios : step = [p \in Procs |-> CASE p = Startup -> "boot"
                                 [] p \in Calls \ S.calls -> "done"
                                 [] OTHER -> "idle"]
  BY DEF IndexInit
<1>2. /\ step[Startup] = "boot"
      /\ \A p \in Procs \ {Startup} : step[p] \in {"idle", "done"}
  BY <1>1, Processes DEF Reloaders, Procs
<1>3. Alone
  BY <1>2 DEF Alone, Resting
<1>4. EmptyHanded
  BY Processes DEF IndexInit, EmptyHanded
<1>5. QED
  BY <1>2, <1>3, <1>4 DEF IndexInit, OrderInv, Booting

\* A step that goes through IndexGoto notices when two processes are at work.
LEMMA GotoAlone == ASSUME Overlap(step') PROVE Alone'
BY DEF Overlap, Alone

\* A process that has begun, or that begins now that LoadDisk is over.
LEMMA MoveBooting ==
    ASSUME IndexTypes, Booting, NEW p \in Procs, NEW to, to # "boot",
           step' = [step EXCEPT ![p] = to],
           step[Startup] # "boot" \/ p = Startup \/ step[p] \notin {"idle", "done", "dead"}
    PROVE  Booting'
BY Processes DEF IndexTypes, Booting

LEMMA StepOrder == IndexTypes /\ OrderInv /\ [IndexNext]_indexVars => OrderInv'
<1> SUFFICES ASSUME IndexTypes, OrderInv, [IndexNext]_indexVars PROVE OrderInv'
  OBVIOUS
<1> USE Processes
<1>1. Alone /\ Booting /\ EmptyHanded
  BY DEF OrderInv
<1>2. CASE IndexCrash
  <2>1. /\ \A p \in Procs : step'[p] \in Resting
        /\ \A p \in Procs \ {Startup} : step'[p] \in {"idle", "done", "dead"}
    BY <1>2 DEF IndexCrash, IndexTypes, Resting, Working
  <2>2. QED
    BY <1>2, <2>1 DEF IndexCrash, OrderInv, Alone, Booting, EmptyHanded
<1>3. CASE Supersede \/ IndexFinished \/ UNCHANGED indexVars
  BY <1>1, <1>3 DEF Supersede, IndexFinished, indexVars, OrderInv, Alone, Booting, EmptyHanded
<1>4. CASE LoadDisk
  BY <1>1, <1>4, GotoAlone, MoveBooting DEF LoadDisk, IndexGoto, IndexTypes, OrderInv, EmptyHanded, Reloaders
<1>5. ASSUME NEW c \in Calls, NEW R, Prepare(c, R), Serving \/ step[c] = "slot" PROVE OrderInv'
  BY <1>1, <1>5, GotoAlone, MoveBooting DEF Prepare, Serving, IndexGoto, IndexTypes, OrderInv, EmptyHanded
<1>6. ASSUME NEW c \in Calls, AcquireSlot(c) \/ AppendRange(c) \/ UpdateRange(c) PROVE OrderInv'
  BY <1>5, <1>6 DEF AcquireSlot, AppendRange, UpdateRange
<1>7. ASSUME NEW c \in Calls, UploadCSV(c) \/ ClearAll(c) PROVE OrderInv'
  BY <1>1, <1>7, GotoAlone, MoveBooting
     DEF UploadCSV, ClearAll, Serving, IndexGoto, IndexTypes, OrderInv, EmptyHanded
<1>8. ASSUME NEW c \in Calls, Refuse(c) \/ ScheduleReload(c) PROVE OrderInv'
  BY <1>1, <1>8, GotoAlone, MoveBooting
     DEF Refuse, ScheduleReload, Serving, IndexReturn, IndexGoto, IndexTypes, OrderInv, EmptyHanded
<1>9. ASSUME NEW c \in Calls, Store(c) \/ StoreFails(c) PROVE OrderInv'
  <2>1. Overlap(step') /\ step[c] \in {"replace", "truncate"}
    BY <1>9 DEF Store, StoreFails, IndexReturn, IndexGoto
  <2>2. PICK to \in {"publish", "done"} : step' = [step EXCEPT ![c] = to]
    BY <1>9 DEF Store, StoreFails, IndexReturn, IndexGoto
  <2>3. \A q \in Calls \ {c} : rows'[q] = rows[q]
    BY <1>9 DEF Store, StoreFails, IndexReturn, IndexTypes
  <2>4. EmptyHanded'
    BY <1>1, <2>2, <2>3 DEF EmptyHanded, IndexTypes
  <2>5. QED
    BY <1>1, <2>1, <2>2, <2>4, GotoAlone, MoveBooting DEF OrderInv
<1>10. ASSUME NEW p \in Reloaders, BeginReload(p) PROVE OrderInv'
  <2>1. Overlap(step') /\ step' = [step EXCEPT ![p] = "query"] /\ rows' = rows
    BY <1>10 DEF BeginReload, IndexGoto
  <2>2. p = Startup \/ step[Startup] # "boot"
    BY <1>1, <1>10 DEF BeginReload, Booting
  <2>3. EmptyHanded'
    BY <1>1, <2>1 DEF EmptyHanded, IndexTypes
  <2>4. QED
    BY <1>1, <2>1, <2>2, <2>3, GotoAlone, MoveBooting DEF OrderInv
<1>11. ASSUME NEW p \in Procs, NEW to \in (Resting \cup Working) \ {"boot", "idle", "slot", "truncate"},
              step[p] \in {"query"} \cup Working, step' = [step EXCEPT ![p] = to], Overlap(step'),
              \A q \in Procs \ {p} : rows'[q] = rows[q]
       PROVE  OrderInv'
  <2>1. step[p] \notin {"idle", "done", "dead"}
    BY <1>11 DEF Working
  <2>2. Booting'
    BY <1>1, <1>11, <2>1, MoveBooting
  <2>3. EmptyHanded'
    BY <1>1, <1>11 DEF EmptyHanded, IndexTypes
  <2>4. QED
    BY <1>11, <2>2, <2>3, GotoAlone DEF OrderInv
<1>12. ASSUME NEW p \in Procs, QueryStamp(p) \/ Load(p) \/ Encode(p) PROVE OrderInv'
  BY <1>11, <1>12 DEF QueryStamp, Load, Encode, IndexGoto, IndexTypes, Resting, Working
<1>13. ASSUME NEW p \in Procs, Compare(p) \/ ReadFile(p) PROVE OrderInv'
  BY <1>11, <1>13 DEF Compare, ReadFile, End, IndexReturn, IndexGoto, IndexTypes, Resting, Working
<1>14. ASSUME NEW p \in Procs, LoadFails(p) \/ Requery(p) PROVE OrderInv'
  BY <1>11, <1>14 DEF LoadFails, Requery, End, IndexReturn, IndexGoto, IndexTypes, Resting, Working
<1>15. ASSUME NEW p \in Procs, Publish(p) PROVE OrderInv'
  BY <1>11, <1>15 DEF Publish, IndexGoto, IndexTypes, Resting, Working
<1>16. ASSUME NEW p \in Procs, SetStamp(p) PROVE OrderInv'
  BY <1>11, <1>16 DEF SetStamp, End, IndexReturn, IndexGoto, IndexTypes, Resting, Working
<1>17. ASSUME NEW p \in Procs, Write(p) PROVE OrderInv'
  BY <1>11, <1>17 DEF Write, End, IndexReturn, IndexGoto, IndexTypes, Resting, Working
<1>18. QED
  BY <1>2, <1>3, <1>4, <1>6, <1>7, <1>8, <1>9, <1>10, <1>12, <1>13, <1>14, <1>15, <1>16, <1>17
     DEF IndexNext, GeoCall, Reload

-----------------------------------------------------------------------------
(* The stamps *)

LEMMA RestingKnows ==
    \A q : (step[q] \in Resting => Knows(q)) /\ (step'[q] \in Resting => Knows(q)')
BY DEF Resting, Knows

\* A process at work, before and after its step, has the others resting.
LEMMA OthersRest ==
    ASSUME IndexTypes, OrderInv, Honest, NEW p \in Procs, NEW to,
           step' = [step EXCEPT ![p] = to], Overlap(step'), ~overlapped',
           step[p] \notin Resting \/ to \notin Resting
    PROVE  /\ ~overlapped
           /\ \A q \in Procs \ {p} : step[q] \in Resting /\ step'[q] \in Resting
           /\ step'[p] = to
           /\ Knows(p) /\ FileFits
           /\ step[p] \notin {"requery", "stamp", "filestamp"} => StampFits
<1>1. ~overlapped
  BY DEF Overlap
<1>2. \A q \in Procs \ {p} : step'[q] = step[q]
  BY DEF IndexTypes
<1>3. step'[p] = to
  BY DEF IndexTypes
<1>4. \A q \in Procs \ {p} : step[q] \in Resting
  <2>1. CASE step[p] \notin Resting
    BY <1>1, <2>1 DEF OrderInv, Alone
  <2>2. CASE to \notin Resting
    BY <1>2, <1>3, <2>2 DEF Overlap
  <2>3. QED
    BY <2>1, <2>2
<1>5. step[p] \notin {"requery", "stamp", "filestamp"} => ~Unequal
  BY <1>4 DEF Unequal, Resting
<1>6. QED
  BY <1>1, <1>2, <1>3, <1>4, <1>5 DEF Honest

\* What is to be shown of such a step.
LEMMA WorkHonest ==
    ASSUME NEW p \in Procs,
           \A q \in Procs \ {p} : step'[q] \in Resting,
           Knows(p)', FileFits',
           step'[p] \notin {"requery", "stamp", "filestamp"} => StampFits'
    PROVE  Honest'
<1>1. \A q \in Procs : Knows(q)'
  BY RestingKnows
<1>2. step'[p] \in {"requery", "stamp", "filestamp"} => Unequal'
  BY DEF Unequal
<1>3. QED
  BY <1>1, <1>2 DEF Honest

\* A step between two states of rest.
LEMMA RestHonest ==
    ASSUME IndexTypes, Honest, NEW p \in Procs, NEW to \in Resting, step[p] \in Resting,
           step' = [step EXCEPT ![p] = to], Overlap(step'),
           UNCHANGED <<table, index, stamp, file, unstamped>>,
           \A q \in Procs \ {p} : rows'[q] = rows[q] /\ mark'[q] = mark[q]
    PROVE  Honest'
<1> SUFFICES ASSUME ~overlapped' PROVE Honest'
  BY DEF Honest
<1>1. ~overlapped
  BY DEF Overlap
<1>2. \A q \in Procs \ {p} : step'[q] = step[q]
  BY DEF IndexTypes
<1>3. step'[p] \in Resting
  BY DEF IndexTypes
<1>4. \A q \in Procs \ {p} : Knows(q)'
  <2> SUFFICES ASSUME NEW q \in Procs \ {p} PROVE Knows(q)'
    OBVIOUS
  <2>1. Knows(q)
    BY <1>1 DEF Honest
  <2>2. step'[q] = step[q] /\ rows'[q] = rows[q] /\ mark'[q] = mark[q]
    BY <1>2
  <2>3. QED
    BY <2>1, <2>2 DEF Knows, StampOf
<1>5. Unequal' <=> Unequal
  BY <1>2, <1>3 DEF Unequal, Resting
<1>6. FileFits' /\ (StampFits' <=> StampFits)
  BY <1>1 DEF Honest, FileFits, StampFits, StampOf
<1>7. QED
  BY <1>1, <1>3, <1>4, <1>5, <1>6, RestingKnows DEF Honest

LEMMA InitHonest == IndexInit => Honest
<1> SUFFICES ASSUME IndexInit PROVE Honest
  OBVIOUS
<1>1. PICK S \in Scenarios : step = [p \in Procs |-> CASE p = Startup -> "boot"
                                 [] p \in Calls \ S.calls -> "done"
                                 [] OTHER -> "idle"]
  BY DEF IndexInit
<1>2. \A p \in Procs : step[p] \in Resting
  BY <1>1, Processes DEF Reloaders, Procs, Resting
<1>3. FileFits
  BY DEF IndexInit, FileFits
<1>4. StampFits
  BY DEF IndexInit, StampFits
<1>5. QED
  BY <1>2, <1>3, <1>4, RestingKnows DEF Honest

\* A step of a process at work that leaves index, stamp and file alone.
LEMMA KeepHonest ==
    ASSUME IndexTypes, OrderInv, Honest, NEW p \in Procs, NEW to,
           step' = [step EXCEPT ![p] = to], Overlap(step'),
           step[p] \notin Resting \/ to \notin Resting,
           UNCHANGED <<index, stamp, file, unstamped>>,
           step[p] \notin {"requery", "stamp", "filestamp"},
           ~overlapped' /\ Knows(p) /\ step'[p] = to => Knows(p)'
    PROVE  Honest'
<1>0. SUFFICES ASSUME ~overlapped' PROVE Honest'
  BY DEF Honest
<1>1. /\ \A q \in Procs \ {p} : step'[q] \in Resting
      /\ step'[p] = to /\ Knows(p) /\ FileFits /\ StampFits
  BY <1>0, OthersRest
<1>2. FileFits' /\ StampFits'
  BY <1>1 DEF FileFits, StampFits, StampOf
<1>3. Knows(p)'
  BY <1>0, <1>1
<1>4. QED
  BY <1>1, <1>2, <1>3, WorkHonest

LEMMA CallHonest ==
    ASSUME IndexTypes, OrderInv, Honest, NEW c \in Calls, GeoCall(c)
    PROVE  Honest'
<1> USE Processes, NoneIsNone
<1>1. ASSUME NEW R, Prepare(c, R), step[c] \in {"idle", "slot"} PROVE Honest'
  <2>1. /\ step' = [step EXCEPT ![c] = "replace"] /\ Overlap(step') /\ "replace" \notin Resting
        /\ UNCHANGED <<table, index, stamp, file, unstamped>>
        /\ rows'[c] = R /\ mark'[c] = StampOf(R)
    BY <1>1 DEF Prepare, IndexGoto, IndexTypes, Resting
  <2>2. step'[c] = "replace" => Knows(c)'
    BY <2>1 DEF Knows
  <2>3. QED
    BY <1>1, <2>1, <2>2, KeepHonest
<1>2. CASE AcquireSlot(c) \/ AppendRange(c) \/ UpdateRange(c)
  BY <1>1, <1>2 DEF AcquireSlot, AppendRange, UpdateRange
<1>3. CASE UploadCSV(c)
  BY <1>3, RestHonest DEF UploadCSV, IndexGoto, IndexTypes, Resting
<1>4. CASE Refuse(c)
  BY <1>4, RestHonest DEF Refuse, IndexReturn, IndexGoto, IndexTypes, Resting
<1>5. CASE ClearAll(c)
  <2>1. /\ step' = [step EXCEPT ![c] = "truncate"] /\ Overlap(step') /\ "truncate" \notin Resting
        /\ UNCHANGED <<table, index, stamp, file, unstamped>>
        /\ mark'[c] = {} /\ step[c] = "idle"
    BY <1>5 DEF ClearAll, IndexGoto, IndexTypes, Resting, StampOf
  <2>2. step'[c] = "truncate" => Knows(c)'
    BY <2>1 DEF Knows
  <2>3. QED
    BY <2>1, <2>2, KeepHonest
<1>6. CASE Store(c)
  <2>1. /\ step' = [step EXCEPT ![c] = "publish"] /\ Overlap(step') /\ "publish" \notin Resting
        /\ UNCHANGED <<index, stamp, file, rows, mark, unstamped>>
        /\ table' = rows[c] /\ step[c] \in {"replace", "truncate"}
    BY <1>6 DEF Store, Change, IndexGoto, Resting
  <2>2. step[c] = "truncate" => StampOf(rows[c]) = {}
    BY DEF OrderInv, EmptyHanded, StampOf
  <2>3. Knows(c) => mark[c] = StampOf(rows[c])
    BY <2>1, <2>2 DEF Knows
  <2>4. Knows(c) /\ step'[c] = "publish" => Knows(c)'
    BY <2>1, <2>3 DEF Knows, StampOf
  <2>5. QED
    BY <2>1, <2>4, KeepHonest
<1>7. CASE StoreFails(c) \/ ScheduleReload(c)
  <2>1. /\ step' = [step EXCEPT ![c] = "done"] /\ Overlap(step')
        /\ UNCHANGED <<index, stamp, file, unstamped>>
        /\ step[c] \in {"replace", "truncate", "schedule"}
    BY <1>7 DEF StoreFails, ScheduleReload, IndexReturn, IndexGoto
  <2>2. step'[c] = "done" => Knows(c)'
    BY RestingKnows DEF Resting
  <2>3. step[c] \notin Resting
    BY <2>1 DEF Resting
  <2>4. QED
    BY <2>1, <2>2, <2>3, KeepHonest
<1>8. QED
  BY <1>2, <1>3, <1>4, <1>5, <1>6, <1>7 DEF GeoCall

LEMMA ReloadHonest ==
    ASSUME IndexTypes, Marked, OrderInv, Honest, NEW p \in Procs, Reload(p)
    PROVE  Honest'
<1> USE NoneIsNone
<1>1. CASE BeginReload(p)
  <2>1. CASE step[p] \in Resting
    BY <1>1, <2>1, RestHonest DEF BeginReload, IndexGoto, IndexTypes, Resting
  <2>2. step[p] \in Resting
    BY <1>1 DEF BeginReload, SlotFree, Resting
  <2>3. QED
    BY <2>1, <2>2
<1>2. CASE QueryStamp(p)
  <2>1. PICK to \in {"compare", "load"} :
           /\ step' = [step EXCEPT ![p] = to]
           /\ mark'[p] = (IF to = "compare" THEN StampOf(table) ELSE NoStamp)
    BY <1>2 DEF QueryStamp, IndexGoto, IndexTypes
  <2>2. Overlap(step') /\ UNCHANGED <<table, index, stamp, file, unstamped>> /\ step[p] = "query"
    BY <1>2 DEF QueryStamp, IndexGoto
  <2>3. step'[p] = to => Knows(p)'
    BY <2>1, <2>2 DEF Knows, StampOf
  <2>4. to \notin Resting
    BY <2>1 DEF Resting
  <2>5. QED
    BY <2>1, <2>2, <2>3, <2>4, KeepHonest
<1>3. CASE Compare(p)
  <2>1. PICK to \in {"done", "readfile"} :
           /\ step' = [step EXCEPT ![p] = to]
           /\ to = "readfile" => UNCHANGED <<rows, mark>>
    BY <1>3 DEF Compare, End, IndexReturn, IndexGoto
  <2>2. Overlap(step') /\ UNCHANGED <<table, index, stamp, file, unstamped>> /\ step[p] = "compare"
    BY <1>3 DEF Compare, End, IndexReturn, IndexGoto
  <2>3. Knows(p) /\ step'[p] = to => Knows(p)'
    BY <2>1, <2>2 DEF Knows, StampOf
  <2>4. step[p] \notin Resting
    BY <2>2 DEF Resting
  <2>5. QED
    BY <2>1, <2>2, <2>3, <2>4, KeepHonest
<1>4. CASE ReadFile(p)
  <2>0. SUFFICES ASSUME ~overlapped' PROVE Honest'
    BY DEF Honest
  <2>1. PICK to \in {"fromfile", "load"} :
           /\ step' = [step EXCEPT ![p] = to]
           /\ to = "fromfile" => file # NoFile /\ file.stamp = mark[p] /\ rows'[p] = file.rows
           /\ to = "load" => UNCHANGED rows
    BY <1>4 DEF ReadFile, IndexGoto, IndexTypes
  <2>2. Overlap(step') /\ UNCHANGED <<table, index, stamp, file, mark, unstamped>> /\ step[p] = "readfile"
    BY <1>4 DEF ReadFile, IndexGoto
  <2>3. step[p] \notin Resting
    BY <2>2 DEF Resting
  <2>4. FileFits
    BY <2>0, <2>1, <2>2, <2>3, OthersRest
  <2>5. Knows(p) /\ step'[p] = to => Knows(p)'
    BY <2>1, <2>2, <2>4 DEF Knows, StampOf, FileFits
  <2>6. QED
    BY <2>1, <2>2, <2>3, <2>5, KeepHonest
<1>5. CASE Load(p)
  <2>1. /\ step' = [step EXCEPT ![p] = "publish"] /\ Overlap(step')
        /\ UNCHANGED <<table, index, stamp, file, mark, unstamped>> /\ step[p] = "load"
        /\ rows'[p] = table
    BY <1>5 DEF Load, IndexGoto, IndexTypes
  <2>2. Knows(p) /\ step'[p] = "publish" => Knows(p)'
    BY <2>1 DEF Knows, StampOf
  <2>3. step[p] \notin Resting
    BY <2>1 DEF Resting
  <2>4. QED
    BY <2>1, <2>2, <2>3, KeepHonest
<1>6. CASE LoadFails(p)
  <2>1. /\ step' = [step EXCEPT ![p] = "done"] /\ Overlap(step')
        /\ UNCHANGED <<index, stamp, file, unstamped>> /\ step[p] = "load"
    BY <1>6 DEF LoadFails, End, IndexReturn, IndexGoto
  <2>2. step'[p] = "done" => Knows(p)'
    BY RestingKnows DEF Resting
  <2>3. step[p] \notin Resting
    BY <2>1 DEF Resting
  <2>4. QED
    BY <2>1, <2>2, <2>3, KeepHonest
<1>7. CASE Requery(p)
  <2>0. SUFFICES ASSUME ~overlapped' PROVE Honest'
    BY DEF Honest
  <2>1. PICK to \in {"done", "stamp"} :
           /\ step' = [step EXCEPT ![p] = to]
           /\ to = "stamp" => mark'[p] = StampOf(table)
           /\ to = "done" => unstamped'
    BY <1>7 DEF Requery, End, IndexReturn, IndexGoto, IndexTypes
  <2>2. Overlap(step') /\ UNCHANGED <<table, index, stamp, file>> /\ step[p] = "requery"
    BY <1>7 DEF Requery, End, IndexReturn, IndexGoto
  <2>3. step[p] \notin Resting
    BY <2>2 DEF Resting
  <2>4. /\ \A q \in Procs \ {p} : step'[q] \in Resting
        /\ step'[p] = to /\ Knows(p) /\ FileFits
    BY <2>0, <2>1, <2>2, <2>3, OthersRest
  <2>5. Knows(p)'
    BY <2>1, <2>2, <2>4 DEF Knows, StampOf
  <2>6. FileFits' /\ (step'[p] # "stamp" => StampFits')
    BY <2>1, <2>2, <2>4 DEF FileFits, StampFits, StampOf
  <2>7. QED
    BY <2>4, <2>5, <2>6, WorkHonest
<1>8. QED
  BY <1>1, <1>2, <1>3, <1>4, <1>5, <1>6, <1>7 DEF Reload

LEMMA PublishHonest ==
    ASSUME IndexTypes, Marked, OrderInv, Honest, NEW p \in Procs,
           Publish(p) \/ SetStamp(p) \/ Encode(p) \/ Write(p)
    PROVE  Honest'
<1> USE NoneIsNone
<1>0. SUFFICES ASSUME ~overlapped' PROVE Honest'
  BY DEF Honest
<1>1. CASE Publish(p)
  <2>1. PICK to \in {"filestamp", "requery", "stamp"} :
           /\ step' = [step EXCEPT ![p] = to]
           /\ to = "filestamp" <=> step[p] = "fromfile"
           /\ to = "requery" => mark[p] = NoStamp
           /\ to = "stamp" => mark[p] # NoStamp
    <3>1. CASE step[p] = "fromfile"
      <4>1. step' = [step EXCEPT ![p] = "filestamp"]
        BY <1>1, <3>1 DEF Publish, IndexGoto, Marked
      <4>2. QED
        BY <3>1, <4>1
    <3>2. CASE step[p] = "publish" /\ mark[p] = NoStamp
      <4>1. step' = [step EXCEPT ![p] = "requery"]
        BY <1>1, <3>2 DEF Publish, IndexGoto
      <4>2. QED
        BY <3>2, <4>1
    <3>3. CASE step[p] = "publish" /\ mark[p] # NoStamp
      <4>1. step' = [step EXCEPT ![p] = "stamp"]
        BY <1>1, <3>3 DEF Publish, IndexGoto
      <4>2. QED
        BY <3>3, <4>1
    <3>4. QED
      BY <1>1, <3>1, <3>2, <3>3 DEF Publish
  <2>2. /\ Overlap(step') /\ UNCHANGED <<table, stamp, file, rows, mark, unstamped>>
        /\ index' = rows[p] /\ step[p] \in {"publish", "fromfile"}
    BY <1>1 DEF Publish, IndexGoto
  <2>3. step[p] \notin Resting
    BY <2>2 DEF Resting
  <2>4. /\ \A q \in Procs \ {p} : step'[q] \in Resting
        /\ step'[p] = to /\ Knows(p) /\ FileFits
    BY <1>0, <2>1, <2>2, <2>3, OthersRest
  <2>5. Knows(p)'
    BY <2>1, <2>2, <2>4 DEF Knows, StampOf
  <2>6. FileFits'
    BY <2>2, <2>4 DEF FileFits, StampOf
  <2>7. QED
    BY <2>1, <2>4, <2>5, <2>6, WorkHonest
<1>2. CASE SetStamp(p)
  <2>1. PICK to \in {"done", "encode"} :
           /\ step' = [step EXCEPT ![p] = to]
           /\ to = "encode" <=> step[p] = "stamp"
           /\ to = "encode" => UNCHANGED mark
    BY <1>2 DEF SetStamp, End, IndexReturn, IndexGoto
  <2>2. /\ Overlap(step') /\ UNCHANGED <<table, index, file>>
        /\ stamp' = mark[p] /\ step[p] \in {"stamp", "filestamp"}
    BY <1>2 DEF SetStamp, End, IndexReturn, IndexGoto
  <2>3. step[p] \notin Resting
    BY <2>2 DEF Resting
  <2>4. /\ \A q \in Procs \ {p} : step'[q] \in Resting
        /\ step'[p] = to /\ Knows(p) /\ FileFits
    BY <1>0, <2>1, <2>2, <2>3, OthersRest
  <2>5. Knows(p)'
    BY <2>1, <2>2, <2>4 DEF Knows, StampOf
  <2>6. mark[p] = StampOf(index)
    BY <2>2, <2>4 DEF Knows
  <2>7. FileFits' /\ StampFits'
    BY <2>2, <2>4, <2>6 DEF FileFits, StampFits, StampOf
  <2>8. QED
    BY <2>4, <2>5, <2>7, WorkHonest
<1>3. CASE Encode(p)
  <2>1. /\ step' = [step EXCEPT ![p] = "write"] /\ Overlap(step')
        /\ UNCHANGED <<table, index, stamp, file, mark, unstamped>> /\ step[p] = "encode"
        /\ rows'[p] = index
    BY <1>3 DEF Encode, IndexGoto, IndexTypes
  <2>2. Knows(p) /\ step'[p] = "write" => Knows(p)'
    BY <2>1 DEF Knows, StampOf
  <2>3. step[p] \notin Resting
    BY <2>1 DEF Resting
  <2>4. QED
    BY <2>1, <2>2, <2>3, KeepHonest
<1>4. CASE Write(p)
  <2>1. PICK to \in {"done", "schedule"} : step' = [step EXCEPT ![p] = to]
    BY <1>4 DEF Write, End, IndexReturn, IndexGoto
  <2>2. /\ Overlap(step') /\ UNCHANGED <<table, index, stamp, unstamped>> /\ step[p] = "write"
        /\ file' \in {file, NoFile, [rows |-> rows[p], stamp |-> mark[p]]}
    BY <1>4 DEF Write, End, IndexReturn, IndexGoto
  <2>3. step[p] \notin Resting
    BY <2>2 DEF Resting
  <2>4. /\ \A q \in Procs \ {p} : step'[q] \in Resting
        /\ step'[p] = to /\ Knows(p) /\ FileFits /\ StampFits
    BY <1>0, <2>1, <2>2, <2>3, OthersRest
  <2>5. Knows(p)'
    BY <2>1, <2>4 DEF Knows
  <2>6. mark[p] = StampOf(rows[p])
    BY <2>2, <2>4 DEF Knows
  <2>7. FileFits'
    BY <2>2, <2>4, <2>6 DEF FileFits, StampOf
  <2>8. StampFits'
    BY <2>2, <2>4 DEF StampFits, StampOf
  <2>9. QED
    BY <2>4, <2>5, <2>7, <2>8, WorkHonest
<1>5. QED
  BY <1>1, <1>2, <1>3, <1>4

LEMMA StepHonest ==
    IndexTypes /\ Marked /\ OrderInv /\ Honest /\ [IndexNext]_indexVars => Honest'
<1> SUFFICES ASSUME IndexTypes, Marked, OrderInv, Honest, [IndexNext]_indexVars PROVE Honest'
  OBVIOUS
<1> USE Processes, NoneIsNone
<1>1. CASE LoadDisk
  <2>0. SUFFICES ASSUME ~overlapped' PROVE Honest'
    BY DEF Honest
  <2>1. /\ step' = [step EXCEPT ![Startup] = "idle"] /\ step[Startup] = "boot"
        /\ UNCHANGED <<table, file>> /\ ~overlapped
    BY <1>1, <2>0 DEF LoadDisk, IndexGoto, Overlap
  <2>2. /\ \A q \in Procs : step'[q] \in Resting
        /\ stamp = NoStamp
    BY <2>1 DEF OrderInv, Booting, IndexTypes, Resting
  <2>3. FileFits
    BY <2>1 DEF Honest
  <2>4. FileFits' /\ StampFits'
    BY <1>1, <2>1, <2>2, <2>3 DEF LoadDisk, FileFits, StampFits, StampOf
  <2>5. QED
    BY <2>2, <2>4, RestingKnows DEF Honest
<1>2. CASE IndexCrash
  <2>1. \A p \in Procs : step'[p] \in Resting
    BY <1>2 DEF IndexCrash, IndexTypes, Resting, Working
  <2>2. ~overlapped => FileFits' /\ StampFits'
    BY <1>2 DEF IndexCrash, Honest, FileFits, StampFits, StampOf
  <2>3. UNCHANGED overlapped
    BY <1>2 DEF IndexCrash
  <2>4. QED
    BY <2>1, <2>2, <2>3, RestingKnows DEF Honest
<1>3. CASE Supersede \/ IndexFinished \/ UNCHANGED indexVars
  <2>1. UNCHANGED <<table, index, stamp, file, step, rows, mark, overlapped, unstamped>>
    BY <1>3 DEF Supersede, IndexFinished, indexVars
  <2>2. \A p \in Procs : Knows(p) => Knows(p)'
    BY <2>1 DEF Knows, StampOf
  <2>3. (FileFits => FileFits') /\ (StampFits => StampFits') /\ (Unequal => Unequal')
    BY <2>1 DEF FileFits, StampFits, Unequal, StampOf
  <2>4. QED
    BY <2>1, <2>2, <2>3 DEF Honest
<1>4. QED
  BY <1>1, <1>2, <1>3, CallHonest, ReloadHonest, PublishHonest DEF IndexNext

-----------------------------------------------------------------------------
(* A reload brings the index up to date *)

\* Equal stamps mean equal rows, now as well as later.
LEMMA TellsEarlier == ASSUME committed \subseteq committed', StampsTell' PROVE StampsTell
BY DEF StampsTell, StampOf

LEMMA NothingForgotten == [IndexNext]_indexVars => committed \subseteq committed'
<1> SUFFICES ASSUME [IndexNext]_indexVars PROVE committed \subseteq committed'
  OBVIOUS
<1>1. CASE LoadDisk \/ Supersede \/ IndexCrash \/ IndexFinished \/ UNCHANGED indexVars
  BY <1>1 DEF LoadDisk, Supersede, IndexCrash, IndexFinished, indexVars
<1>2. ASSUME NEW c \in Calls, GeoCall(c) PROVE committed \subseteq committed'
  BY <1>2 DEF GeoCall, UploadCSV, AcquireSlot, AppendRange, UpdateRange, Prepare, ClearAll, Refuse,
              Store, StoreFails, ScheduleReload, Change
<1>3. ASSUME NEW p \in Reloaders, Reload(p) PROVE committed \subseteq committed'
  BY <1>3 DEF Reload, BeginReload, QueryStamp, Compare, ReadFile, Load, LoadFails, Requery
<1>4. ASSUME NEW p \in Procs, Publish(p) \/ SetStamp(p) \/ Encode(p) \/ Write(p)
      PROVE  committed \subseteq committed'
  BY <1>4 DEF Publish, SetStamp, Encode, Write
<1>5. QED
  BY <1>1, <1>2, <1>3, <1>4 DEF IndexNext

LEMMA StepRepaired ==
    IndexTypes /\ Marked /\ CommittedInv /\ OrderInv /\ Honest /\ Repaired /\ [IndexNext]_indexVars => Repaired'
<1> SUFFICES ASSUME IndexTypes, Marked, CommittedInv, OrderInv, Honest, Repaired, [IndexNext]_indexVars,
                    StampsTell', synced', ~overlapped'
             PROVE  index' = table'
  BY DEF Repaired
<1> USE Processes, NoneIsNone
<1>1. StampsTell
  BY NothingForgotten, TellsEarlier
<1>2. synced /\ ~overlapped => index = table
  BY <1>1 DEF Repaired
<1>3. ASSUME NEW p \in Procs, NEW to, step' = [step EXCEPT ![p] = to], Overlap(step'), step[p] \in Working
      PROVE  /\ ~overlapped /\ Knows(p)
             /\ step[p] \notin {"requery", "stamp", "filestamp"} => StampFits
  <2>1. step[p] \notin Resting
    BY <1>3 DEF Working, Resting
  <2>2. QED
    BY <1>3, <2>1, OthersRest
<1>4. CASE LoadDisk
  BY <1>4 DEF LoadDisk, OrderInv, Booting
<1>5. CASE IndexCrash
  BY <1>5 DEF IndexCrash
<1>6. CASE Supersede \/ IndexFinished \/ UNCHANGED indexVars
  <2>1. UNCHANGED <<table, index, synced, overlapped>>
    BY <1>6 DEF Supersede, IndexFinished, indexVars
  <2>2. QED
    BY <1>2, <2>1
<1>7. ASSUME UNCHANGED <<table, index, synced>>, Overlap(step') PROVE index' = table'
  BY <1>2, <1>7 DEF Overlap
<1>8. ASSUME NEW c \in Calls, GeoCall(c) PROVE index' = table'
  <2>1. CASE AcquireSlot(c) \/ AppendRange(c) \/ UpdateRange(c)
    BY <1>7, <2>1 DEF AcquireSlot, AppendRange, UpdateRange, Prepare, IndexGoto
  <2>2. CASE UploadCSV(c) \/ ClearAll(c) \/ Refuse(c) \/ ScheduleReload(c)
    BY <1>7, <2>2 DEF UploadCSV, ClearAll, Refuse, ScheduleReload, IndexReturn, IndexGoto
  <2>3. CASE Store(c)
    BY <2>3 DEF Store, Change
  <2>4. CASE StoreFails(c)
    BY <1>7, <2>4 DEF StoreFails, Change, IndexReturn, IndexGoto
  <2>5. QED
    BY <1>8, <2>1, <2>2, <2>3, <2>4 DEF GeoCall
<1>9. ASSUME NEW p \in Procs, Reload(p) PROVE index' = table'
  <2>1. CASE BeginReload(p) \/ QueryStamp(p) \/ ReadFile(p) \/ Load(p)
    BY <1>7, <2>1 DEF BeginReload, QueryStamp, ReadFile, Load, IndexGoto
  <2>2. CASE LoadFails(p)
    BY <1>7, <2>2 DEF LoadFails, End, IndexReturn, IndexGoto, IndexTypes
  <2>3. CASE Compare(p)
    <3>1. PICK to : step' = [step EXCEPT ![p] = to] /\ Overlap(step')
      BY <2>3 DEF Compare, End, IndexReturn, IndexGoto
    <3>2. UNCHANGED <<table, index>> /\ step[p] = "compare"
      BY <2>3 DEF Compare
    <3>3. ~overlapped /\ Knows(p) /\ StampFits
      BY <1>3, <3>1, <3>2 DEF Working
    <3>4. CASE synced
      BY <1>2, <3>2, <3>3, <3>4
    <3>5. CASE ~synced
      <4>1. stamp = mark[p] /\ ~unstamped
        BY <2>3, <3>5 DEF Compare, End, IndexTypes
      <4>2. StampOf(index) = StampOf(table)
        BY <3>2, <3>3, <4>1 DEF Marked, Knows, StampFits
      <4>3. QED
        BY <1>1, <3>2, <4>2 DEF StampsTell, CommittedInv, IndexWasCommitted
    <3>6. QED
      BY <3>4, <3>5
  <2>4. CASE Requery(p)
    <3>1. PICK to : step' = [step EXCEPT ![p] = to] /\ Overlap(step')
      BY <2>4 DEF Requery, End, IndexReturn, IndexGoto
    <3>2. UNCHANGED <<table, index>> /\ step[p] = "requery"
      BY <2>4 DEF Requery
    <3>3. QED
      BY <1>3, <3>1, <3>2 DEF Working, Knows
  <2>5. QED
    BY <1>9, <2>1, <2>2, <2>3, <2>4 DEF Reload
<1>10. ASSUME NEW p \in Procs, Publish(p) PROVE index' = table'
  <2>1. PICK to : step' = [step EXCEPT ![p] = to] /\ Overlap(step')
    BY <1>10 DEF Publish, IndexGoto
  <2>2. index' = rows[p] /\ table' = table /\ step[p] \in {"publish", "fromfile"}
    BY <1>10 DEF Publish
  <2>3. Knows(p)
    BY <1>3, <2>1, <2>2 DEF Working
  <2>4. step[p] = "publish" => rows[p] = table
    BY <2>3 DEF Knows
  <2>5. step[p] = "fromfile" => StampOf(rows[p]) = StampOf(table)
    BY <2>3 DEF Knows
  <2>6. rows[p] = table
    BY <1>1, <2>2, <2>4, <2>5 DEF StampsTell, CommittedInv
  <2>7. QED
    BY <2>2, <2>6
<1>11. ASSUME NEW p \in Procs, SetStamp(p) PROVE index' = table'
  <2>1. PICK to : step' = [step EXCEPT ![p] = to] /\ Overlap(step')
    BY <1>11 DEF SetStamp, End, IndexReturn, IndexGoto
  <2>2. UNCHANGED <<table, index>> /\ step[p] \in {"stamp", "filestamp"}
    BY <1>11 DEF SetStamp
  <2>3. Knows(p)
    BY <1>3, <2>1, <2>2 DEF Working
  <2>4. step[p] = "filestamp" => StampOf(index) = StampOf(table)
    BY <2>3 DEF Knows
  <2>5. step[p] = "stamp" => index = table
    BY <2>3 DEF Knows
  <2>6. QED
    BY <1>1, <2>2, <2>4, <2>5 DEF StampsTell, CommittedInv, IndexWasCommitted
<1>12. ASSUME NEW p \in Procs, Encode(p) PROVE index' = table'
  BY <1>7, <1>12 DEF Encode, IndexGoto
<1>13. ASSUME NEW p \in Procs, Write(p) PROVE index' = table'
  <2>1. PICK to : step' = [step EXCEPT ![p] = to] /\ Overlap(step')
    BY <1>13 DEF Write, End, IndexReturn, IndexGoto
  <2>2. UNCHANGED <<table, index>> /\ step[p] = "write"
    BY <1>13 DEF Write
  <2>3. QED
    BY <1>3, <2>1, <2>2 DEF Working, Knows
<1>14. QED
  BY <1>4, <1>5, <1>6, <1>8, <1>9, <1>10, <1>11, <1>12, <1>13 DEF IndexNext

-----------------------------------------------------------------------------
(* The theorems *)

\* The copies of the ranges keep their types and IndexInv through every call,
\* reload and restart.
THEOREM IndexInvariant == IndexSpec => []IndexInv
<1>1. IndexInit => IndexInv
  BY IndexInitTypes, InitCommitted, InitOrder, InitHonest DEF IndexInv, Repaired, IndexInit
<1>2. IndexInv /\ [IndexNext]_indexVars => IndexInv'
  BY IndexStepTypes, StepCommitted, StepOrder, StepHonest, StepRepaired DEF IndexInv
<1>3. QED
  BY <1>1, <1>2, PTL DEF IndexSpec

\* Lookups only ever see contents that geo_ranges has had, and a restart
\* brings back nothing else, for any calls, failures and restarts.
THEOREM LookupsSeeCommitted == IndexSpec => []IndexWasCommitted
<1>1. IndexInv => IndexWasCommitted
  BY DEF IndexInv, CommittedInv
<1>2. QED
  BY <1>1, IndexInvariant, PTL

\* The snapshot file describes itself while publications do not overlap.
THEOREM SnapshotDescribesItself == IndexSpec => []StampsHonest
<1>1. IndexInv => StampsHonest
  BY DEF IndexInv, Honest, FileFits, StampsHonest
<1>2. QED
  BY <1>1, IndexInvariant, PTL

\* Where the stamp tells the contents of the table apart, Reload brings the
\* index up to date.
THEOREM ReloadsRepair == IndexSpec => [](StampsTell => ReloadRepairs)
<1>1. IndexInv => (StampsTell => ReloadRepairs)
  BY DEF IndexInv, Repaired, ReloadRepairs
<1>2. QED
  BY <1>1, IndexInvariant, PTL

-----------------------------------------------------------------------------
(* The jobs *)

\* The slots of the jobs are finitely many.
LEMMA HoldersFinite == IsFiniteSet(Holders) /\ Cardinality(Holders) \in Nat
BY JobsAssumption, FS_Subset, FS_CardinalityType DEF Holders

\* Before the first job nothing is scheduled, held or cancelled.
LEMMA InitJobInv == JobInit => JobInv
<1> SUFFICES ASSUME JobInit
             PROVE  JobInv
  OBVIOUS
<1>1. JobTypeOK
  <2>1. Holders = {}
    BY DEF JobInit, Holders, AtSlot, Body
  <2>2. Cardinality(Holders) = 0
    BY <2>1, FS_EmptySet
  <2>3. gate \in BOOLEAN
    BY Zenon DEF JobInit
  <2>4. QED
    BY <2>2, <2>3, JobsAssumption DEF JobInit, JobTypeOK
<1>2. Order
  BY DEF JobInit, Order, AtSlot, Body
<1>3. OnlyNewestRuns
  BY DEF JobInit, OnlyNewestRuns
<1>4. QED
  BY <1>1, <1>2, <1>3 DEF JobInv

\* A step that gives a job no slot it had not leaves the holders among the old ones.
LEMMA SlotsNotTaken ==
    ASSUME Holders' \subseteq Holders
    PROVE  Cardinality(Holders') \in Nat /\ Cardinality(Holders') <= Cardinality(Holders)
BY HoldersFinite, FS_Subset, FS_CardinalityType

\* Scheduling preserves the invariant: the job before is cancelled, the new
\* one gets a generation of its own.
LEMMA ScheduleJobInv ==
    ASSUME NEW j \in Jobs, JobInv, Schedule(j)
    PROVE  JobInv'
<1> USE DEF JobGoto, AtSlot, Body
<1>0. JobTypeOK /\ Order /\ OnlyNewestRuns
  BY DEF JobInv
<1>1. Holders' \subseteq Holders
  BY <1>0 DEF Schedule, Holders, JobTypeOK
<1>2. JobTypeOK'
  BY <1>0, <1>1, SlotsNotTaken, HoldersFinite, JobsAssumption DEF Schedule, JobTypeOK
<1>3. Order'
  <2>1. /\ gen \in Nat /\ gen' = gen + 1 /\ num' = [num EXCEPT ![j] = gen + 1]
        /\ num \in [Jobs -> 0 .. gen] /\ begun' = begun /\ begun \in 0 .. gen
        /\ workMu' = workMu
    BY <1>0 DEF Schedule, JobTypeOK
  <2>2. /\ place[j] = "new" /\ place'[j] \in {"gate", "acquire"}
        /\ \A i \in Jobs \ {j} : place'[i] = place[i] /\ num'[i] = num[i]
    BY <1>0 DEF Schedule, JobTypeOK
  <2>3. num'[j] = gen + 1 /\ \A i \in Jobs \ {j} : num'[i] # num'[j]
    BY <2>1, <2>2
  <2>4. QED
    BY <1>0, <2>1, <2>2, <2>3 DEF Order
<1>4. OnlyNewestRuns'
  BY <1>0, JobsAssumption DEF Schedule, JobTypeOK, OnlyNewestRuns
<1>5. QED
  BY <1>2, <1>3, <1>4 DEF JobInv

\* Taking a slot preserves the invariant: there was a free one.
LEMMA AcquireJobInv ==
    ASSUME NEW j \in Jobs, JobInv, Acquire(j)
    PROVE  JobInv'
<1> USE DEF JobGoto, AtSlot, Body
<1>0. JobTypeOK /\ Order /\ OnlyNewestRuns
  BY DEF JobInv
<1>1. Holders' = Holders \cup {j} /\ j \notin Holders
  BY <1>0 DEF Acquire, Holders, JobTypeOK
<1>2. Cardinality(Holders') = Cardinality(Holders) + 1
  BY <1>1, HoldersFinite, FS_AddElement
<1>3. JobTypeOK'
  BY <1>0, <1>2, HoldersFinite, JobsAssumption DEF Acquire, JobTypeOK
<1>4. Order'
  BY <1>0 DEF Acquire, JobTypeOK, Order
<1>5. OnlyNewestRuns'
  BY <1>0 DEF Acquire, JobTypeOK, OnlyNewestRuns
<1>6. QED
  BY <1>3, <1>4, <1>5 DEF JobInv

\* The steps of a job's goroutine preserve the invariant.
LEMMA StepJobInv ==
    ASSUME NEW j \in Jobs, JobInv, Step(j)
    PROVE  JobInv'
<1> USE DEF JobGoto, AtSlot, Body, Exit
<1>0. JobTypeOK /\ Order /\ OnlyNewestRuns
  BY DEF JobInv
<1>1. CASE CheckGate(j) \/ AcquireCancelled(j)
  <2>1. Holders' \subseteq Holders
    BY <1>0, <1>1 DEF CheckGate, AcquireCancelled, Holders, JobTypeOK
  <2>2. JobTypeOK'
    BY <1>0, <1>1, <2>1, SlotsNotTaken, HoldersFinite, JobsAssumption
       DEF CheckGate, AcquireCancelled, JobTypeOK
  <2>3. Order'
    BY <1>0, <1>1 DEF CheckGate, AcquireCancelled, JobTypeOK, Order
  <2>4. OnlyNewestRuns'
    BY <1>0, <1>1 DEF CheckGate, AcquireCancelled, JobTypeOK, OnlyNewestRuns
  <2>5. QED
    BY <2>2, <2>3, <2>4 DEF JobInv
<1>2. CASE Lock(j)
  <2>1. Holders' \subseteq Holders
    BY <1>0, <1>2 DEF Lock, Holders, JobTypeOK
  <2>2. JobTypeOK'
    BY <1>0, <1>2, <2>1, SlotsNotTaken, HoldersFinite, JobsAssumption DEF Lock, JobTypeOK
  <2>3. Order'
    BY <1>0, <1>2, JobsAssumption DEF Lock, JobTypeOK, Order
  <2>4. OnlyNewestRuns'
    BY <1>0, <1>2 DEF Lock, JobTypeOK, OnlyNewestRuns
  <2>5. QED
    BY <2>2, <2>3, <2>4 DEF JobInv
<1>3. CASE CheckCtx(j)
  <2>1. Holders' \subseteq Holders
    BY <1>0, <1>3 DEF CheckCtx, Holders, JobTypeOK
  <2>2. JobTypeOK'
    BY <1>0, <1>3, <2>1, SlotsNotTaken, HoldersFinite, JobsAssumption DEF CheckCtx, JobTypeOK
  <2>3. Order'
    BY <1>0, <1>3, JobsAssumption DEF CheckCtx, JobTypeOK, Order
  <2>4. OnlyNewestRuns'
    BY <1>0, <1>3 DEF CheckCtx, JobTypeOK, OnlyNewestRuns
  <2>5. QED
    BY <2>2, <2>3, <2>4 DEF JobInv
<1>4. CASE CheckGen(j) \/ Recheck(j)
  <2>1. Holders' \subseteq Holders
    BY <1>0, <1>4 DEF CheckGen, Recheck, BeginBody, FirstOf, Holders, JobTypeOK
  <2>2. JobTypeOK'
    <3>1. FirstOf(j) \in Body
      BY JobsAssumption DEF FirstOf
    <3>2. QED
      BY <1>0, <1>4, <2>1, <3>1, SlotsNotTaken, HoldersFinite, JobsAssumption
         DEF CheckGen, Recheck, BeginBody, JobTypeOK
  <2>3. Order'
    <3>1. \A i \in Jobs \ {j} : place[i] \notin AtSlot \ {"lock"}
      BY <1>0, <1>4 DEF CheckGen, Recheck, Order
    <3>2. FirstOf(j) \in Body
      BY JobsAssumption DEF FirstOf
    <3>3. begun \in 0 .. gen /\ gen \in Nat /\ num \in [Jobs -> 0 .. gen]
      BY <1>0 DEF JobTypeOK
    <3>4. CASE UNCHANGED begun
      BY <1>0, <1>4, <3>1, <3>2, <3>3, <3>4 DEF CheckGen, Recheck, BeginBody, JobTypeOK, Order
    <3>5. CASE BeginBody(j)
      <4>1. num[j] # 0 /\ \A i \in Jobs \ {j} : num[i] # num[j]
        BY <1>0, <1>4 DEF CheckGen, Recheck, Order
      <4>2. QED
        BY <1>0, <1>4, <3>1, <3>2, <3>3, <3>5, <4>1 DEF CheckGen, Recheck, BeginBody, JobTypeOK, Order
    <3>6. QED
      BY <1>4, <3>4, <3>5 DEF CheckGen, Recheck
  <2>4. OnlyNewestRuns'
    BY <1>0, <1>4 DEF CheckGen, Recheck, BeginBody, JobTypeOK, OnlyNewestRuns
  <2>5. QED
    BY <2>2, <2>3, <2>4 DEF JobInv
<1>5. CASE Advance(j) \/ GiveUp(j)
  <2>1. Holders' \subseteq Holders
    BY <1>0, <1>5 DEF Advance, GiveUp, Holders, JobTypeOK
  <2>2. JobTypeOK'
    BY <1>0, <1>5, <2>1, SlotsNotTaken, HoldersFinite, JobsAssumption DEF Advance, GiveUp, JobTypeOK
  <2>3. Order'
    BY <1>0, <1>5, JobsAssumption DEF Advance, GiveUp, JobTypeOK, Order
  <2>4. OnlyNewestRuns'
    BY <1>0, <1>5 DEF Advance, GiveUp, JobTypeOK, OnlyNewestRuns
  <2>5. QED
    BY <2>2, <2>3, <2>4 DEF JobInv
<1>6. QED
  BY <1>1, <1>2, <1>3, <1>4, <1>5 DEF Step

\* Deadlines, the other users of the slots, the gate and Shutdown preserve it.
LEMMA RestJobInv ==
    ASSUME JobInv,
           \/ \E j \in Jobs : Timeout(j)
           \/ OtherAcquires \/ OtherReleases \/ GateMoves
           \/ Shutdown \/ ShutdownDone \/ ShutdownTimeout
           \/ UNCHANGED jobVars
    PROVE  JobInv'
<1>0. JobTypeOK /\ Order /\ OnlyNewestRuns
  BY DEF JobInv
<1>1. /\ UNCHANGED <<gen, num, newest, place, workMu, begun>>
      /\ cancelled \subseteq cancelled'
  BY DEF Timeout, OtherAcquires, OtherReleases, GateMoves, Shutdown, ShutdownDone,
         ShutdownTimeout, jobVars
<1>2. Holders' = Holders
  BY <1>1 DEF Holders
<1>3. JobTypeOK'
  <2>1. gate' \in BOOLEAN
    BY Zenon, <1>0 DEF JobTypeOK, Timeout, OtherAcquires, OtherReleases, GateMoves, Shutdown,
                   ShutdownDone, ShutdownTimeout, jobVars
  <2>2. cancelled' \subseteq Jobs
    BY <1>0 DEF JobTypeOK, Timeout, OtherAcquires, OtherReleases, GateMoves, Shutdown,
                ShutdownDone, ShutdownTimeout, jobVars
  <2>3. others' \in Nat /\ Cardinality(Holders) + others' <= Slots
    BY <1>0, HoldersFinite, JobsAssumption
       DEF JobTypeOK, Timeout, OtherAcquires, OtherReleases, GateMoves, Shutdown,
           ShutdownDone, ShutdownTimeout, jobVars
  <2>4. shutdown' \in {"no", "waiting", "done", "timeout"}
    BY <1>0 DEF JobTypeOK, Timeout, OtherAcquires, OtherReleases, GateMoves, Shutdown,
                ShutdownDone, ShutdownTimeout, jobVars
  <2>5. QED
    BY <1>0, <1>1, <1>2, <2>1, <2>2, <2>3, <2>4 DEF JobTypeOK
<1>4. Order'
  BY <1>0, <1>1 DEF Order
<1>5. OnlyNewestRuns'
  BY <1>0, <1>1 DEF OnlyNewestRuns
<1>6. QED
  BY <1>3, <1>4, <1>5 DEF JobInv

\* Every step preserves the invariant.
LEMMA NextJobInv == JobInv /\ [JobNext]_jobVars => JobInv'
BY ScheduleJobInv, AcquireJobInv, StepJobInv, RestJobInv DEF JobNext

\* The invariant of the scheduler holds for ever.
LEMMA JobInvHolds == JobSpec => []JobInv
BY InitJobInv, NextJobInv, PTL DEF JobSpec

\* The slots of the limiter are never overdrawn by geo jobs.
THEOREM JobTypes == JobSpec => []JobTypeOK
<1>1. JobInv => JobTypeOK
  BY DEF JobInv
<1>2. QED
  BY <1>1, JobInvHolds, PTL

\* At most one geo job is in its body, however many jobs there are and however
\* many slots the limiter has.
THEOREM SingleBody == JobSpec => []OneBody
<1>1. JobInv => OneBody
  BY DEF JobInv, OneBody, Order, AtSlot, Body
<1>2. QED
  BY <1>1, JobInvHolds, PTL

\* Every unfinished job but the newest has been cancelled.
THEOREM SupersededAreCancelled == JobSpec => []OnlyNewestRuns
<1>1. JobInv => OnlyNewestRuns
  BY DEF JobInv
<1>2. QED
  BY <1>1, JobInvHolds, PTL

\* Bodies begin in the order of scheduling.
THEOREM OrderOfBodies == JobSpec => BodiesInOrder
<1>1. JobInv /\ [JobNext]_jobVars
        => [\A j \in Jobs : place[j] \notin Body /\ place'[j] \in Body => num[j] > begun]_jobVars
  <2> SUFFICES ASSUME JobInv, JobNext, NEW j \in Jobs, place[j] \notin Body, place'[j] \in Body
               PROVE  num[j] > begun
    OBVIOUS
  <2>0. JobTypeOK /\ Order
    BY DEF JobInv
  <2>1. CheckGen(j) \/ Recheck(j)
    BY <2>0 DEF JobNext, Schedule, Timeout, Acquire, Step, CheckGate, AcquireCancelled, Lock,
                CheckCtx, CheckGen, Recheck, BeginBody, Advance, GiveUp, Exit, OtherAcquires,
                OtherReleases, GateMoves, Shutdown, ShutdownDone, ShutdownTimeout,
                JobGoto, JobTypeOK, Body, AtSlot
  <2>2. CASE CheckGen(j)
    <3>1. num[j] = gen /\ begun # num[j] /\ begun \in 0 .. gen /\ gen \in Nat
      BY <2>0, <2>2 DEF CheckGen, Exit, JobGoto, Order, JobTypeOK, Body
    <3>2. QED
      BY <3>1
  <2>3. CASE Recheck(j)
    <3>1. begun < num[j] /\ begun \in 0 .. gen /\ gen \in Nat /\ num[j] \in 0 .. gen
      BY <2>0, <2>3 DEF Recheck, Order, JobTypeOK
    <3>2. QED
      BY <3>1
  <2>4. QED
    BY <2>1, <2>2, <2>3
<1>2. QED
  BY <1>1, JobInvHolds, PTL DEF JobSpec, BodiesInOrder
=============================================================================
