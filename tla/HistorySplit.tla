---------------------------- MODULE HistorySplit ----------------------------
(* The split of a single-file history store into a directory of files, by    *)
(* every process that opens the store while it is still to be done: the lock *)
(* and its takeover, the copies, the index built aside and renamed, and the  *)
(* crash that leaves any of them half done.                                  *)
(*                                                                           *)
(* A step is one call on the file system or one SQLite transaction.  A test  *)
(* of a path and the call it guards are one step, but for the two places     *)
(* where another process fits between them: the look at the store, and the   *)
(* age of a lock.  Left out: the schema steps, and calls the disk refuses.   *)
EXTENDS Naturals, FiniteSets

CONSTANTS
    Procs,          \* processes that open the store, each to record one turn
    Old,            \* the files the old store is split into
    MaxCrashes,     \* bound: crashes
    Suspends        \* a live split may outlast STALE_LOCK_MS (a laptop sleeps)

ASSUME SplitAssumption ==
    /\ Old # {} /\ Procs \cap Old = {}
    /\ MaxCrashes \in Nat /\ Suspends \in BOOLEAN

VARIABLES
    store,      \* statKind(storePath); "root": a directory without threads/
    pre,        \* <store>.pre-split, whole or an empty database
    files,      \* whose rows are in a file under threads/
    staged,     \* index.db.split-tmp: the rows in it, who is building it
    index,      \* index.db, likewise
    lock,       \* <store>.migrating: absent, or its age against STALE_LOCK_MS
    at,         \* what each process does next
    seen,       \* kind, in prepareHistoryStore
    tries,      \* attempt, in acquireLock
    todo,       \* the threads it has not copied yet
    crashes,    \* history: crashes so far
    contested   \* history: two processes were inside the split at once

disk == <<store, pre, files, staged, index>>
local == <<seen, tries, todo>>
ghosts == <<crashes, contested>>
vars == <<disk, lock, at, local, ghosts>>

Rows == Old \cup Procs
Nobody == "nobody"
NoFile == [there |-> FALSE, rows |-> {}, by |-> Nobody]
Kinds == {"file", "absent", "root", "threads"}

\* Where the lock's holder may be.
InSplit == {"deciding", "rooting", "threading", "surveying", "copying",
            "filling", "publishing", "discarding", "failing",
            "finishing"}

TypeOK ==
    LET Database == [there : BOOLEAN, rows : SUBSET Rows, by : Procs \cup {Nobody}]
    IN /\ store \in Kinds
       /\ pre \in {"none", "whole", "empty"}
       /\ files \subseteq Rows
       /\ staged \in Database /\ index \in Database
       /\ lock \in {"free", "fresh", "stale"}
       /\ at \in [Procs -> InSplit \cup {"closed", "looking", "locking",
                                         "judging", "taking", "ready", "done"}]
       /\ seen \in [Procs -> Kinds]
       /\ tries \in [Procs -> 0 .. 2]
       /\ todo \in [Procs -> SUBSET Old]
       /\ crashes \in 0 .. MaxCrashes
       /\ contested \in BOOLEAN

Init ==
    /\ store = "file" /\ pre = "none" /\ files = {}
    /\ staged = NoFile /\ index = NoFile
    /\ lock = "free"
    /\ at = [p \in Procs |-> "closed"]
    /\ seen = [p \in Procs |-> "file"]
    /\ tries = [p \in Procs |-> 0]
    /\ todo = [p \in Procs |-> {}]
    /\ crashes = 0 /\ contested = FALSE

\* p goes on from one place to another.
Goes(p, from, to) == at[p] = from /\ at' = [at EXCEPT ![p] = to]

\* Rows written to the database p has open, wherever its file is by now.
Written(db, p, rows) ==
    IF db.by = p THEN [db EXCEPT !.rows = @ \cup rows, !.by = Nobody] ELSE db

\* The same file, without p's connection.
Closed(db, p) == IF db.by = p THEN [db EXCEPT !.by = Nobody] ELSE db
-----------------------------------------------------------------------------
(* prepareHistoryStore. *)

\* Stats the store.
Open(p) ==
    /\ Goes(p, "closed", "looking")
    /\ seen' = [seen EXCEPT ![p] = store]
    /\ UNCHANGED <<disk, lock, tries, todo, ghosts>>

\* Goes by what it saw, and by whether a split is under way.
SplitFirst(p) ==
    /\ seen[p] = "file" \/ pre # "none"
    /\ Goes(p, "looking", "locking")
    /\ tries' = [tries EXCEPT ![p] = 0]
    /\ UNCHANGED <<disk, lock, seen, todo, ghosts>>

\* Mutant: a directory is a store, whatever is beside it.
TakesAnyDirectory(p) ==
    /\ seen[p] \in {"root", "threads"}
    /\ Goes(p, "looking", "ready")
    /\ store' = "threads"
    /\ UNCHANGED <<pre, files, staged, index, lock, local, ghosts>>

\* A directory is opened, with the threads/ it lacks; where the look found
\* nothing one is made, which what came there since refuses.
UseDirectory(p) ==
    LET refused == store = "file" \/ (seen[p] = "absent" /\ store # "absent")
    IN /\ seen[p] # "file" /\ pre = "none"
       /\ Goes(p, "looking", IF refused THEN "closed" ELSE "ready")
       /\ store' = IF refused THEN store ELSE "threads"
       /\ UNCHANGED <<pre, files, staged, index, lock, local, ghosts>>

\* What it opened the store for: a turn, in its record file and the index.
RecordTurn(p) ==
    /\ Goes(p, "ready", "done")
    /\ files' = files \cup {p}
    /\ index' = [index EXCEPT !.rows = @ \cup {p}]
    /\ UNCHANGED <<store, pre, staged, lock, local, ghosts>>
-----------------------------------------------------------------------------
(* acquireLock. *)

\* openSync with "wx".
TakeLock(p) ==
    /\ lock = "free"
    /\ Goes(p, "locking", "deciding")
    /\ lock' = "fresh"
    /\ contested' = (contested \/ \E q \in Procs \ {p} : at[q] \in InSplit)
    /\ UNCHANGED <<disk, local, crashes>>

FindLock(p) ==
    /\ lock # "free"
    /\ Goes(p, "locking", "judging")
    /\ UNCHANGED <<disk, lock, local, ghosts>>

\* Mutant: a lock is somebody's, however old.
RespectsEveryLock(p) ==
    /\ at[p] = "judging"
    /\ \/ /\ lock = "free"
          /\ tries' = [tries EXCEPT ![p] = @ + 1]
          /\ at' = [at EXCEPT ![p] = IF tries[p] = 0 THEN "locking" ELSE "closed"]
       \/ /\ lock # "free"
          /\ at' = [at EXCEPT ![p] = "closed"] /\ UNCHANGED tries
    /\ UNCHANGED <<disk, lock, seen, todo, ghosts>>

\* It was released meanwhile, or is someone's, or was left by a crash.
JudgeLock(p) ==
    /\ at[p] = "judging"
    /\ \/ /\ lock = "free"
          /\ tries' = [tries EXCEPT ![p] = @ + 1]
          /\ at' = [at EXCEPT ![p] = IF tries[p] = 0 THEN "locking" ELSE "closed"]
       \/ /\ lock = "fresh"
          /\ at' = [at EXCEPT ![p] = "closed"] /\ UNCHANGED tries
       \/ /\ lock = "stale"
          /\ at' = [at EXCEPT ![p] = "taking"] /\ UNCHANGED tries
    /\ UNCHANGED <<disk, lock, seen, todo, ghosts>>

\* Removes whatever lock is there by now.
RemoveLock(p) ==
    /\ Goes(p, "taking", IF tries[p] = 0 THEN "locking" ELSE "closed")
    /\ lock' = "free"
    /\ tries' = [tries EXCEPT ![p] = @ + 1]
    /\ UNCHANGED <<disk, seen, todo, ghosts>>

\* STALE_LOCK_MS go by.
LockAges ==
    /\ lock = "fresh"
    /\ Suspends \/ \A p \in Procs : at[p] \notin InSplit
    /\ lock' = "stale"
    /\ UNCHANGED <<disk, at, local, ghosts>>
-----------------------------------------------------------------------------
(* splitLegacyStore, up to the copies. *)

\* The old file is brought up to date and renamed.
RetireOldFile(p) ==
    /\ store = "file" /\ pre = "none"
    /\ Goes(p, "deciding", "rooting")
    /\ store' = "absent" /\ pre' = "whole"
    /\ UNCHANGED <<files, staged, index, lock, local, ghosts>>

\* An old file beside a half-split one: two stores, and neither is touched.
LeaveTwoStores(p) ==
    /\ store = "file" /\ pre # "none"
    /\ Goes(p, "deciding", "failing")
    /\ UNCHANGED <<disk, lock, local, ghosts>>

ResumeSplit(p) ==
    /\ store # "file" /\ pre # "none"
    /\ Goes(p, "deciding", "rooting")
    /\ UNCHANGED <<disk, lock, local, ghosts>>

\* Somebody else finished it while p waited for the lock.
FindSplitDone(p) ==
    /\ store # "file" /\ pre = "none"
    /\ Goes(p, "deciding", IF store = "absent" THEN "failing" ELSE "finishing")
    /\ UNCHANGED <<disk, lock, local, ghosts>>

MakeRoot(p) ==
    /\ Goes(p, "rooting", "threading")
    /\ store' = IF store = "absent" THEN "root" ELSE store
    /\ UNCHANGED <<pre, files, staged, index, lock, local, ghosts>>

MakeThreads(p) ==
    /\ store # "file"
    /\ Goes(p, "threading", "surveying")
    /\ store' = "threads"
    /\ UNCHANGED <<pre, files, staged, index, lock, local, ghosts>>

\* threads/ cannot be made in a file.
FailThreads(p) ==
    /\ store = "file"
    /\ Goes(p, "threading", "failing")
    /\ UNCHANGED <<disk, lock, local, ghosts>>

\* Outside: an earlier release finds no store, and starts one.
EarlierRelease ==
    /\ store = "absent"
    /\ store' = "file"
    /\ UNCHANGED <<pre, files, staged, index, lock, at, local, ghosts>>

\* Mutant: a split that has begun to copy is taken to have copied everything.
SurveyMissing(p) ==
    /\ pre = "whole"
    /\ Goes(p, "surveying", "copying")
    /\ todo' = [todo EXCEPT ![p] = IF files = {} THEN Old ELSE {}]
    /\ UNCHANGED <<disk, lock, seen, tries, ghosts>>

\* Reads from the old file which files there are to be.
Survey(p) ==
    /\ pre = "whole"
    /\ Goes(p, "surveying", "copying")
    /\ todo' = [todo EXCEPT ![p] = Old]
    /\ UNCHANGED <<disk, lock, seen, tries, ghosts>>

FailSurvey(p) ==
    /\ pre # "whole"
    /\ Goes(p, "surveying", "failing")
    /\ UNCHANGED <<disk, lock, local, ghosts>>
-----------------------------------------------------------------------------
(* The copies, the index, and the end. *)

\* One thread, in a transaction of its own, and touchLock.
CopyThread(p) == \E t \in todo[p] :
    /\ pre = "whole"
    /\ Goes(p, "copying", "copying")
    /\ files' = files \cup {t}
    /\ todo' = [todo EXCEPT ![p] = @ \ {t}]
    /\ lock' = IF lock = "free" THEN lock ELSE "fresh"
    /\ UNCHANGED <<store, pre, staged, index, seen, tries, ghosts>>

\* ATTACH makes the file it does not find; then it has no such table.
AttachNothing(p) ==
    /\ \/ at[p] = "copying" /\ todo[p] # {}
       \/ at[p] = "filling"
    /\ pre # "whole"
    /\ pre' = "empty"
    /\ at' = [at EXCEPT ![p] = "failing"]
    /\ staged' = Closed(staged, p) /\ index' = Closed(index, p)
    /\ UNCHANGED <<store, files, lock, local, ghosts>>

\* Mutant: the index does not wait for the copies.
StagesEarly(p) ==
    /\ Goes(p, "copying", "filling")
    /\ staged' = [there |-> TRUE, rows |-> {}, by |-> p]
    /\ UNCHANGED <<store, pre, files, index, lock, local, ghosts>>

\* A new database in place of any left over.
StageIndex(p) ==
    /\ todo[p] = {}
    /\ Goes(p, "copying", "filling")
    /\ staged' = [there |-> TRUE, rows |-> {}, by |-> p]
    /\ UNCHANGED <<store, pre, files, index, lock, local, ghosts>>

FillIndex(p) ==
    /\ pre = "whole"
    /\ Goes(p, "filling", "publishing")
    /\ staged' = Written(staged, p, Old) /\ index' = Written(index, p, Old)
    /\ UNCHANGED <<store, pre, files, lock, local, ghosts>>

\* renameSync of the staged index, which fails when it is gone.
PublishIndex(p) ==
    /\ staged.there
    /\ Goes(p, "publishing", "discarding")
    /\ index' = staged /\ staged' = NoFile
    /\ UNCHANGED <<store, pre, files, lock, local, ghosts>>

FailPublish(p) ==
    /\ ~staged.there
    /\ Goes(p, "publishing", "failing")
    /\ UNCHANGED <<disk, lock, local, ghosts>>

DiscardOldFile(p) ==
    /\ Goes(p, "discarding", "finishing")
    /\ pre' = "none"
    /\ UNCHANGED <<store, files, staged, index, lock, local, ghosts>>

\* finally: whoever's lock it is, it goes; and prepareHistoryStore looks again.
LeaveSplit(p) ==
    /\ \/ /\ Goes(p, "finishing", IF store = "file" THEN "closed" ELSE "ready")
          /\ store' = IF store = "file" THEN store ELSE "threads"
       \/ Goes(p, "failing", "closed") /\ UNCHANGED store
    /\ lock' = "free"
    /\ UNCHANGED <<pre, files, staged, index, local, ghosts>>

\* Nothing is undone but the open transaction, and nothing is released.
Crash(p) ==
    /\ crashes < MaxCrashes /\ at[p] \notin {"closed", "done"}
    /\ crashes' = crashes + 1
    /\ at' = [at EXCEPT ![p] = "closed"]
    /\ staged' = Closed(staged, p) /\ index' = Closed(index, p)
    /\ UNCHANGED <<store, pre, files, lock, local, contested>>
-----------------------------------------------------------------------------
Step(p) ==
    \/ Open(p) \/ SplitFirst(p) \/ UseDirectory(p) \/ RecordTurn(p)
    \/ TakeLock(p) \/ FindLock(p) \/ JudgeLock(p) \/ RemoveLock(p)
    \/ RetireOldFile(p) \/ LeaveTwoStores(p) \/ ResumeSplit(p)
    \/ FindSplitDone(p)
    \/ MakeRoot(p) \/ MakeThreads(p) \/ FailThreads(p) \/ Survey(p)
    \/ FailSurvey(p) \/ CopyThread(p) \/ AttachNothing(p) \/ StageIndex(p) \/ FillIndex(p)
    \/ PublishIndex(p) \/ FailPublish(p) \/ DiscardOldFile(p) \/ LeaveSplit(p)

Next ==
    \/ LockAges \/ EarlierRelease
    \/ \E p \in Procs : Step(p) \/ Crash(p)

\* The lock of a dead process gets old, a running process goes on, and a store
\* that was unavailable is opened again some day.
Fairness == WF_vars(LockAges) /\ \A p \in Procs : WF_vars(Step(p))

Spec == Init /\ [][Next]_vars /\ Fairness
-----------------------------------------------------------------------------
(* Properties. *)

\* Whatever crashes, and whoever splits at the same time, a row of the old
\* store is in the old file, at either of its names, or in a file of its own.
NothingIsLost ==
    \/ Old \subseteq files
    \/ pre = "whole"
    \/ store = "file" /\ pre = "none"

\* "The index goes last, so a reader never sees an index row whose file has
\* not been written": however the builds of two splits overlap.
IndexGoesLast == index.rows \subseteq files

\* A store that is open for use has an index of everything: the old rows, and
\* every turn recorded so far, also by those who were done while another
\* process was about to split.  Only where two processes were in the split at
\* once may it be missing some.
ReadyMeansWhole ==
    (~contested /\ \E p \in Procs : at[p] = "ready") =>
        /\ index.there /\ Old \subseteq index.rows
        /\ \A q \in Procs : at[q] = "done" => q \in index.rows

TwoStores == store = "file" /\ pre # "none"

InPlace ==
    store = "threads" /\ pre = "none" /\ index.there /\ Old \subseteq index.rows

\* The store is split in the end and every process gets to its turn, after any
\* crashes: no lock is left for good, and no attempt leaves what the next
\* cannot go on from; but for two splits at once, and for an old file that came
\* back.
SplitsEnd ==
    <>(\/ contested \/ TwoStores
       \/ InPlace /\ \A p \in Procs : at[p] = "done")
=============================================================================
