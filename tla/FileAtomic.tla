----------------------------- MODULE FileAtomic -----------------------------
(***************************************************************************)
(* The replacement of a file of the control plane (fileatomic/write.go):   *)
(* every JSON store writes a temporary file, syncs it and renames it over  *)
(* the old one.  Writers and readers of one path run concurrently; the     *)
(* machine may stop at any moment, and then a file that was not synced may *)
(* be torn and a rename that was not followed by a sync of the directory   *)
(* may be undone.                                                          *)
(*                                                                         *)
(* On Windows a rename or a removal fails while a reader has the file open *)
(* and an open fails while a rename is going on.                           *)
(***************************************************************************)
EXTENDS Integers, FiniteSets

CONSTANTS
    Writers, Readers,
    Platforms,          \* subset of {"unix", "windows"}
    ReplaceAttempts,    \* replaceAttempts
    MaxWrites,          \* bound of the model: writes
    MaxFileFaults,      \* bound of the model: failed calls, crashes
    NoFile

\* A file: which rename brought it, and whether its contents are synced and
\* complete.
File == [n : Nat, synced : BOOLEAN, torn : BOOLEAN]

ASSUME FileAtomicAssumption ==
    /\ IsFiniteSet(Writers) /\ IsFiniteSet(Readers)
    /\ Platforms \subseteq {"unix", "windows"}
    /\ ReplaceAttempts \in Nat \ {0} /\ {MaxWrites, MaxFileFaults} \subseteq Nat
    /\ NoFile \notin File

VARIABLES
    platform,
    dest,       \* the file under its name; n orders the renames
    maybe,      \* what the name may stand for after a crash
    temp,       \* the temporary file of a writer
    orphans,    \* temporary files that crashes left behind, by age
    wpc,        \* the step a writer is at
    tries,      \* the attempt of replace
    mine,       \* history: the rename of the write that a writer is finishing
    open,       \* readers that have the file open
    opened,     \* the attempt of a reader
    renames,    \* renames so far
    acked,      \* history: the rename of the newest write reported as done
    writes, fileFaults

fileVars == <<platform, dest, maybe, temp, orphans, wpc, tries, mine, open, opened, renames, acked,
              writes, fileFaults>>

Whole(n) == [n |-> n, synced |-> TRUE, torn |-> FALSE]

(* The file exists and was written long ago.                               *)
FileInit ==
    /\ platform \in Platforms
    /\ dest = Whole(0) /\ maybe = {Whole(0)}
    /\ temp = [w \in Writers |-> NoFile] /\ orphans = {}
    /\ wpc = [w \in Writers |-> "idle"] /\ tries = [w \in Writers |-> 0]
    /\ mine = [w \in Writers |-> 0]
    /\ open = {} /\ opened = [r \in Readers |-> 0]
    /\ renames = 0 /\ acked = 0 /\ writes = 0 /\ fileFaults = 0

At(w, l) == wpc[w] = l

WGoto(w, l) == wpc' = [wpc EXCEPT ![w] = l]

Fault == fileFaults < MaxFileFaults /\ fileFaults' = fileFaults + 1

\* A failed call: the temporary file is removed and the error returned.
GiveUp(w) ==
    /\ temp' = [temp EXCEPT ![w] = NoFile]
    /\ WGoto(w, "idle")

-----------------------------------------------------------------------------
(* sweepStaleTemps removes orphans older than staleTempAge.                *)
sweepStaleTemps == orphans' = orphans \ {"old"}

CreateTemp(w) ==
    /\ At(w, "idle") /\ writes < MaxWrites /\ writes' = writes + 1
    /\ sweepStaleTemps
    /\ temp' = [temp EXCEPT ![w] = [n |-> 0, synced |-> FALSE, torn |-> TRUE]]
    /\ WGoto(w, "write")
    /\ UNCHANGED <<mine, platform, dest, maybe, tries, open, opened, renames, acked, fileFaults>>

\* Chmod, Write, Sync or Close fails.
WriteFails(w) ==
    /\ wpc[w] \in {"write", "sync"} /\ Fault
    /\ GiveUp(w)
    /\ UNCHANGED <<mine, platform, dest, maybe, orphans, tries, open, opened, renames, acked, writes>>

WriteTemp(w) ==
    /\ At(w, "write")
    /\ temp' = [temp EXCEPT ![w].torn = FALSE]
    /\ WGoto(w, "sync")
    /\ UNCHANGED <<mine, platform, dest, maybe, orphans, tries, open, opened, renames, acked, writes,
                   fileFaults>>

SyncTempSkipped(w) ==
    /\ At(w, "sync")
    /\ tries' = [tries EXCEPT ![w] = 0]
    /\ WGoto(w, "replace")
    /\ UNCHANGED <<mine, platform, dest, maybe, temp, orphans, open, opened, renames, acked, writes,
                   fileFaults>>

SyncTemp(w) ==
    /\ At(w, "sync")
    /\ temp' = [temp EXCEPT ![w].synced = TRUE]
    /\ tries' = [tries EXCEPT ![w] = 0]
    /\ WGoto(w, "replace")
    /\ UNCHANGED <<mine, platform, dest, maybe, orphans, open, opened, renames, acked, writes, fileFaults>>

Blocked == platform = "windows" /\ open # {} /\ dest # NoFile

Rename(w) ==
    /\ renames' = renames + 1
    /\ dest' = [temp[w] EXCEPT !.n = renames + 1]
    /\ maybe' = maybe \union {dest'}
    /\ temp' = [temp EXCEPT ![w] = NoFile]
    /\ mine' = [mine EXCEPT ![w] = renames + 1]
    /\ WGoto(w, "syncDir")

(* replace: attempts at the rename ...                                     *)
Replace(w) ==
    /\ At(w, "replace") /\ ~Blocked
    /\ Rename(w)
    /\ UNCHANGED <<platform, orphans, tries, open, opened, acked, writes, fileFaults>>

RetryReplace(w) ==
    /\ At(w, "replace") /\ Blocked
    /\ tries' = [tries EXCEPT ![w] = @ + 1]
    /\ IF tries[w] < ReplaceAttempts - 1 THEN UNCHANGED wpc ELSE WGoto(w, "remove")
    /\ UNCHANGED <<mine, platform, dest, maybe, temp, orphans, open, opened, renames, acked, writes,
                   fileFaults>>

(* ... and then, not atomically, a removal and one more attempt.           *)
RemoveDest(w) ==
    /\ At(w, "remove")
    /\ IF Blocked
       THEN GiveUp(w) /\ UNCHANGED <<dest, maybe>>
       ELSE /\ dest' = NoFile /\ maybe' = maybe \union {NoFile}
            /\ WGoto(w, "last") /\ UNCHANGED temp
    /\ UNCHANGED <<mine, platform, orphans, tries, open, opened, renames, acked, writes, fileFaults>>

LastRename(w) ==
    /\ At(w, "last")
    /\ IF Blocked
       THEN GiveUp(w) /\ UNCHANGED <<dest, maybe, renames, mine>>
       ELSE Rename(w)
    /\ UNCHANGED <<platform, orphans, tries, open, opened, acked, writes, fileFaults>>

(* syncDir: its errors are ignored, so a write is reported either way.     *)
syncDir(w) ==
    /\ At(w, "syncDir")
    /\ \/ /\ maybe' = {dest}
          /\ acked' = IF mine[w] > acked THEN mine[w] ELSE acked
          /\ UNCHANGED fileFaults
       \/ Fault /\ UNCHANGED <<maybe, acked>>
    /\ WGoto(w, "idle")
    /\ UNCHANGED <<mine, platform, dest, temp, orphans, tries, open, opened, renames, writes>>

-----------------------------------------------------------------------------
(* ReadFile: a missing file is an answer; a sharing violation is tried     *)
(* again.                                                                  *)
Renaming == \E w \in Writers : wpc[w] \in {"replace", "last"}

OpenFile(r) ==
    /\ r \notin open /\ dest # NoFile
    /\ open' = open \union {r} /\ opened' = [opened EXCEPT ![r] = 0]
    /\ UNCHANGED <<mine, platform, dest, maybe, temp, orphans, wpc, tries, renames, acked, writes, fileFaults>>

RetryOpen(r) ==
    /\ r \notin open /\ platform = "windows" /\ Renaming /\ opened[r] < ReplaceAttempts
    /\ opened' = [opened EXCEPT ![r] = @ + 1]
    /\ UNCHANGED <<mine, platform, dest, maybe, temp, orphans, wpc, tries, open, renames, acked, writes,
                   fileFaults>>

CloseFile(r) ==
    /\ r \in open /\ open' = open \ {r}
    /\ UNCHANGED <<mine, platform, dest, maybe, temp, orphans, wpc, tries, opened, renames, acked, writes,
                   fileFaults>>

-----------------------------------------------------------------------------
(* The machine stops: what a name stands for and what an unsynced file      *)
(* holds is what had reached the disk.                                     *)
Crash ==
    /\ Fault
    /\ \E f \in maybe :
         dest' = IF f = NoFile \/ f.synced THEN f ELSE [f EXCEPT !.torn = TRUE]
    /\ maybe' = {dest'}
    /\ orphans' = orphans \union {"young" : w \in {v \in Writers : temp[v] # NoFile}}
    /\ temp' = [w \in Writers |-> NoFile]
    /\ wpc' = [w \in Writers |-> "idle"] /\ tries' = [w \in Writers |-> 0]
    /\ open' = {} /\ opened' = [r \in Readers |-> 0]
    /\ UNCHANGED <<mine, platform, renames, acked, writes>>

HourPasses ==
    /\ "young" \in orphans /\ orphans' = {"old"}
    /\ \A w \in Writers : At(w, "idle")
    /\ UNCHANGED <<mine, platform, dest, maybe, temp, wpc, tries, open, opened, renames, acked, writes,
                   fileFaults>>

FileNext ==
    \/ \E w \in Writers :
         \/ CreateTemp(w) \/ WriteFails(w) \/ WriteTemp(w) \/ SyncTemp(w) \/ Replace(w)
         \/ RetryReplace(w) \/ RemoveDest(w) \/ LastRename(w) \/ syncDir(w)
    \/ \E r \in Readers : OpenFile(r) \/ RetryOpen(r) \/ CloseFile(r)
    \/ Crash \/ HourPasses

FileSpec == FileInit /\ [][FileNext]_fileVars

-----------------------------------------------------------------------------
(* A reader never sees a torn file, whenever the machine stopped; and on   *)
(* Unix, where no removal precedes a rename, the file is always there and  *)
(* neither it nor what a crash would leave is older than the newest write  *)
(* whose directory was synced, however writers overlap.                    *)
FileWhole ==
    /\ dest # NoFile => ~dest.torn
    /\ platform = "unix" => \A f \in maybe \union {dest} : f # NoFile /\ f.n >= acked
=============================================================================
