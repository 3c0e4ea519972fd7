------------------------- MODULE HistorySplitProofs -------------------------
(* For any processes, files and number of crashes, and also where two        *)
(* processes are in the split at once: the split loses nothing, and the      *)
(* index goes last.                                                          *)
EXTENDS HistorySplit, TLAPS

\* Past the look at the old file, and not yet through with it.
Splitting == {"rooting", "threading", "surveying", "copying", "filling",
              "publishing", "discarding"}

\* As long as a row has no file, it is in the one old file there is.
Kept ==
    \/ Old \subseteq files
    \/ pre = "whole"
    \/ /\ store = "file" /\ pre = "none"
       /\ \A p \in Procs : at[p] \notin Splitting

\* What a process has done of the copies.
Copied ==
    \A p \in Procs :
        /\ at[p] = "copying" => Old \subseteq files \cup todo[p]
        /\ at[p] \in {"filling", "publishing", "discarding"} => Old \subseteq files

\* Of either index, published or not.
Indexed == staged.rows \subseteq files /\ index.rows \subseteq files

\* A process that is after the lock has an attempt left.
Trying == \A p \in Procs : at[p] \in {"locking", "judging", "taking"} => tries[p] \in 0 .. 1

SplitInv == TypeOK /\ Kept /\ Copied /\ Indexed /\ Trying

\* Before any process opens the store, all of it is in the old file.
LEMMA InvInit == Init => SplitInv
<1> SUFFICES ASSUME Init PROVE SplitInv
  OBVIOUS
<1>1. TypeOK
  <2>1. NoFile \in [there : BOOLEAN, rows : SUBSET Rows, by : Procs \cup {Nobody}]
    BY DEF NoFile
  <2>2. /\ store \in Kinds /\ pre \in {"none", "whole", "empty"}
        /\ files \subseteq Rows /\ lock \in {"free", "fresh", "stale"}
        /\ contested \in BOOLEAN
    BY DEF Init, Kinds
  <2>3. crashes \in 0 .. MaxCrashes
    BY SplitAssumption DEF Init
  <2>4. /\ at \in [Procs -> InSplit \cup {"closed", "looking", "locking",
                                          "judging", "taking", "ready", "done"}]
        /\ seen \in [Procs -> Kinds]
        /\ tries \in [Procs -> 0 .. 2]
        /\ todo \in [Procs -> SUBSET Old]
    BY DEF Init, Kinds
  <2> QED BY <2>1, <2>2, <2>3, <2>4 DEF Init, TypeOK
<1>2. Kept /\ Copied /\ Trying
  BY DEF Init, Kept, Copied, Trying, Splitting
<1>3. Indexed
  BY DEF Init, Indexed, NoFile
<1> QED BY <1>1, <1>2, <1>3 DEF SplitInv

\* Databases a process writes to, closes or is done with are still databases.
LEMMA Databases ==
  ASSUME TypeOK, NEW p \in Procs, NEW db \in {staged, index}
  PROVE  LET Database == [there : BOOLEAN, rows : SUBSET Rows, by : Procs \cup {Nobody}]
         IN /\ NoFile \in Database /\ NoFile.rows = {}
            /\ [there |-> TRUE, rows |-> {}, by |-> p] \in Database
            /\ Closed(db, p) \in Database /\ Closed(db, p).rows = db.rows
            /\ Written(db, p, Old) \in Database
            /\ Written(db, p, Old).rows \subseteq db.rows \cup Old
            /\ [db EXCEPT !.rows = @ \cup {p}] \in Database
            /\ [db EXCEPT !.rows = @ \cup {p}].rows = db.rows \cup {p}
  BY DEF TypeOK, NoFile, Closed, Written, Rows, Nobody

\* How a process opens the store and gets at the lock.
LEMMA OpenKeepsInv ==
  ASSUME SplitInv, NEW p \in Procs,
         \/ Open(p) \/ SplitFirst(p) \/ TakeLock(p) \/ FindLock(p)
         \/ JudgeLock(p) \/ RemoveLock(p)
  PROVE  SplitInv'
<1> USE DEF SplitInv, disk, local, ghosts, Goes, Splitting
<1>1. TypeOK'
  <2>1. CASE Open(p)       BY <2>1 DEF TypeOK, Open, Kinds, InSplit
  <2>2. CASE SplitFirst(p) BY <2>2 DEF TypeOK, SplitFirst, InSplit
  <2>3. CASE TakeLock(p)   BY <2>3 DEF TypeOK, TakeLock, InSplit
  <2>4. CASE FindLock(p)   BY <2>4 DEF TypeOK, FindLock, InSplit
  <2>5. CASE JudgeLock(p)  BY <2>5 DEF TypeOK, JudgeLock, Trying, InSplit
  <2>6. CASE RemoveLock(p) BY <2>6 DEF TypeOK, RemoveLock, Trying, InSplit
  <2> QED BY <2>1, <2>2, <2>3, <2>4, <2>5, <2>6
<1>2. UNCHANGED <<store, pre, files, staged, index, todo>>
  BY DEF Open, SplitFirst, TakeLock, FindLock, JudgeLock, RemoveLock
<1>3. /\ at'[p] \in {"looking", "locking", "deciding", "judging", "closed", "taking"}
      /\ \A q \in Procs \ {p} : at'[q] = at[q]
  BY DEF TypeOK, Open, SplitFirst, TakeLock, FindLock, JudgeLock, RemoveLock
<1>4. Kept' /\ Copied' /\ Indexed'
  BY <1>2, <1>3 DEF Kept, Copied, Indexed
<1>5. Trying'
  <2>1. CASE Open(p)       BY <2>1 DEF TypeOK, Open, Trying
  <2>2. CASE SplitFirst(p) BY <2>2 DEF TypeOK, SplitFirst, Trying
  <2>3. CASE TakeLock(p)   BY <2>3 DEF TypeOK, TakeLock, Trying
  <2>4. CASE FindLock(p)   BY <2>4 DEF TypeOK, FindLock, Trying
  <2>5. CASE JudgeLock(p)  BY <2>5 DEF TypeOK, JudgeLock, Trying
  <2>6. CASE RemoveLock(p) BY <2>6 DEF TypeOK, RemoveLock, Trying
  <2> QED BY <2>1, <2>2, <2>3, <2>4, <2>5, <2>6
<1> QED BY <1>1, <1>4, <1>5

\* The split up to the copies: the old file is renamed, or found so.
LEMMA BeginKeepsInv ==
  ASSUME SplitInv, NEW p \in Procs,
         \/ RetireOldFile(p) \/ LeaveTwoStores(p) \/ ResumeSplit(p)
         \/ FindSplitDone(p) \/ MakeRoot(p) \/ MakeThreads(p)
         \/ FailThreads(p) \/ Survey(p) \/ FailSurvey(p)
  PROVE  SplitInv'
<1> USE DEF disk, local, ghosts, Goes
<1>1. TypeOK'
  <2>1. CASE RetireOldFile(p)  BY <2>1 DEF SplitInv, TypeOK, InSplit, RetireOldFile, Kinds
  <2>2. CASE LeaveTwoStores(p) BY <2>2 DEF SplitInv, TypeOK, InSplit, LeaveTwoStores
  <2>3. CASE ResumeSplit(p)    BY <2>3 DEF SplitInv, TypeOK, InSplit, ResumeSplit
  <2>4. CASE FindSplitDone(p)  BY <2>4 DEF SplitInv, TypeOK, InSplit, FindSplitDone
  <2>5. CASE MakeRoot(p)       BY <2>5 DEF SplitInv, TypeOK, InSplit, MakeRoot, Kinds
  <2>6. CASE MakeThreads(p)    BY <2>6 DEF SplitInv, TypeOK, InSplit, MakeThreads, Kinds
  <2>7. CASE FailThreads(p)    BY <2>7 DEF SplitInv, TypeOK, InSplit, FailThreads
  <2>8. CASE Survey(p)         BY <2>8 DEF SplitInv, TypeOK, InSplit, Survey
  <2>9. CASE FailSurvey(p)     BY <2>9 DEF SplitInv, TypeOK, InSplit, FailSurvey
  <2> QED BY <2>1, <2>2, <2>3, <2>4, <2>5, <2>6, <2>7, <2>8, <2>9
<1>2. Kept'
  <2>1. CASE RetireOldFile(p)  BY <2>1 DEF SplitInv, TypeOK, Kept, Copied, Splitting, RetireOldFile
  <2>2. CASE LeaveTwoStores(p) BY <2>2 DEF SplitInv, TypeOK, Kept, Copied, Splitting, LeaveTwoStores
  <2>3. CASE ResumeSplit(p)    BY <2>3 DEF SplitInv, TypeOK, Kept, Copied, Splitting, ResumeSplit
  <2>4. CASE FindSplitDone(p)  BY <2>4 DEF SplitInv, TypeOK, Kept, Copied, Splitting, FindSplitDone
  <2>5. CASE MakeRoot(p)       BY <2>5 DEF SplitInv, TypeOK, Kept, Copied, Splitting, MakeRoot
  <2>6. CASE MakeThreads(p)    BY <2>6 DEF SplitInv, TypeOK, Kept, Copied, Splitting, MakeThreads
  <2>7. CASE FailThreads(p)    BY <2>7 DEF SplitInv, TypeOK, Kept, Copied, Splitting, FailThreads
  <2>8. CASE Survey(p)         BY <2>8 DEF SplitInv, TypeOK, Kept, Copied, Splitting, Survey
  <2>9. CASE FailSurvey(p)     BY <2>9 DEF SplitInv, TypeOK, Kept, Copied, Splitting, FailSurvey
  <2> QED BY <2>1, <2>2, <2>3, <2>4, <2>5, <2>6, <2>7, <2>8, <2>9
<1>3. Copied'
  <2>1. CASE RetireOldFile(p)  BY <2>1 DEF SplitInv, TypeOK, Kept, Copied, Splitting, RetireOldFile
  <2>2. CASE LeaveTwoStores(p) BY <2>2 DEF SplitInv, TypeOK, Kept, Copied, Splitting, LeaveTwoStores
  <2>3. CASE ResumeSplit(p)    BY <2>3 DEF SplitInv, TypeOK, Kept, Copied, Splitting, ResumeSplit
  <2>4. CASE FindSplitDone(p)  BY <2>4 DEF SplitInv, TypeOK, Kept, Copied, Splitting, FindSplitDone
  <2>5. CASE MakeRoot(p)       BY <2>5 DEF SplitInv, TypeOK, Kept, Copied, Splitting, MakeRoot
  <2>6. CASE MakeThreads(p)    BY <2>6 DEF SplitInv, TypeOK, Kept, Copied, Splitting, MakeThreads
  <2>7. CASE FailThreads(p)    BY <2>7 DEF SplitInv, TypeOK, Kept, Copied, Splitting, FailThreads
  <2>8. CASE Survey(p)         BY <2>8 DEF SplitInv, TypeOK, Kept, Copied, Splitting, Survey
  <2>9. CASE FailSurvey(p)     BY <2>9 DEF SplitInv, TypeOK, Kept, Copied, Splitting, FailSurvey
  <2> QED BY <2>1, <2>2, <2>3, <2>4, <2>5, <2>6, <2>7, <2>8, <2>9
<1>4. Indexed'
  <2>1. CASE RetireOldFile(p)  BY <2>1 DEF SplitInv, TypeOK, Copied, Indexed, RetireOldFile
  <2>2. CASE LeaveTwoStores(p) BY <2>2 DEF SplitInv, TypeOK, Copied, Indexed, LeaveTwoStores
  <2>3. CASE ResumeSplit(p)    BY <2>3 DEF SplitInv, TypeOK, Copied, Indexed, ResumeSplit
  <2>4. CASE FindSplitDone(p)  BY <2>4 DEF SplitInv, TypeOK, Copied, Indexed, FindSplitDone
  <2>5. CASE MakeRoot(p)       BY <2>5 DEF SplitInv, TypeOK, Copied, Indexed, MakeRoot
  <2>6. CASE MakeThreads(p)    BY <2>6 DEF SplitInv, TypeOK, Copied, Indexed, MakeThreads
  <2>7. CASE FailThreads(p)    BY <2>7 DEF SplitInv, TypeOK, Copied, Indexed, FailThreads
  <2>8. CASE Survey(p)         BY <2>8 DEF SplitInv, TypeOK, Copied, Indexed, Survey
  <2>9. CASE FailSurvey(p)     BY <2>9 DEF SplitInv, TypeOK, Copied, Indexed, FailSurvey
  <2> QED BY <2>1, <2>2, <2>3, <2>4, <2>5, <2>6, <2>7, <2>8, <2>9
<1>5. Trying'
  <2>1. CASE RetireOldFile(p)  BY <2>1 DEF SplitInv, TypeOK, Trying, RetireOldFile
  <2>2. CASE LeaveTwoStores(p) BY <2>2 DEF SplitInv, TypeOK, Trying, LeaveTwoStores
  <2>3. CASE ResumeSplit(p)    BY <2>3 DEF SplitInv, TypeOK, Trying, ResumeSplit
  <2>4. CASE FindSplitDone(p)  BY <2>4 DEF SplitInv, TypeOK, Trying, FindSplitDone
  <2>5. CASE MakeRoot(p)       BY <2>5 DEF SplitInv, TypeOK, Trying, MakeRoot
  <2>6. CASE MakeThreads(p)    BY <2>6 DEF SplitInv, TypeOK, Trying, MakeThreads
  <2>7. CASE FailThreads(p)    BY <2>7 DEF SplitInv, TypeOK, Trying, FailThreads
  <2>8. CASE Survey(p)         BY <2>8 DEF SplitInv, TypeOK, Trying, Survey
  <2>9. CASE FailSurvey(p)     BY <2>9 DEF SplitInv, TypeOK, Trying, FailSurvey
  <2> QED BY <2>1, <2>2, <2>3, <2>4, <2>5, <2>6, <2>7, <2>8, <2>9
<1> QED BY <1>1, <1>2, <1>3, <1>4, <1>5 DEF SplitInv

\* The copies, the index and the end of the old file.
LEMMA CopyKeepsInv ==
  ASSUME SplitInv, NEW p \in Procs,
         \/ CopyThread(p) \/ AttachNothing(p) \/ StageIndex(p)
         \/ FillIndex(p) \/ PublishIndex(p) \/ FailPublish(p)
         \/ DiscardOldFile(p)
  PROVE  SplitInv'
<1> USE DEF disk, local, ghosts, Goes
<1>1. TypeOK'
  <2>1. CASE CopyThread(p)     BY <2>1 DEF SplitInv, TypeOK, InSplit, Rows, CopyThread
  <2>2. CASE AttachNothing(p)  BY <2>2, Databases DEF SplitInv, TypeOK, InSplit, AttachNothing
  <2>3. CASE StageIndex(p)     BY <2>3, Databases DEF SplitInv, TypeOK, InSplit, StageIndex
  <2>4. CASE FillIndex(p)      BY <2>4, Databases DEF SplitInv, TypeOK, InSplit, FillIndex
  <2>5. CASE PublishIndex(p)   BY <2>5, Databases DEF SplitInv, TypeOK, InSplit, PublishIndex
  <2>6. CASE FailPublish(p)    BY <2>6 DEF SplitInv, TypeOK, InSplit, FailPublish
  <2>7. CASE DiscardOldFile(p) BY <2>7 DEF SplitInv, TypeOK, InSplit, DiscardOldFile
  <2> QED BY <2>1, <2>2, <2>3, <2>4, <2>5, <2>6, <2>7
<1>2. Kept'
  <2>1. CASE CopyThread(p)     BY <2>1 DEF SplitInv, TypeOK, Kept, Copied, Splitting, CopyThread
  <2>2. CASE AttachNothing(p)  BY <2>2 DEF SplitInv, TypeOK, Kept, Copied, Splitting, AttachNothing
  <2>3. CASE StageIndex(p)     BY <2>3 DEF SplitInv, TypeOK, Kept, Copied, Splitting, StageIndex
  <2>4. CASE FillIndex(p)      BY <2>4 DEF SplitInv, TypeOK, Kept, Copied, Splitting, FillIndex
  <2>5. CASE PublishIndex(p)   BY <2>5 DEF SplitInv, TypeOK, Kept, Copied, Splitting, PublishIndex
  <2>6. CASE FailPublish(p)    BY <2>6 DEF SplitInv, TypeOK, Kept, Copied, Splitting, FailPublish
  <2>7. CASE DiscardOldFile(p) BY <2>7 DEF SplitInv, TypeOK, Kept, Copied, Splitting, DiscardOldFile
  <2> QED BY <2>1, <2>2, <2>3, <2>4, <2>5, <2>6, <2>7
<1>3. Copied'
  <2>1. CASE CopyThread(p)     BY <2>1 DEF SplitInv, TypeOK, Kept, Copied, Splitting, CopyThread
  <2>2. CASE AttachNothing(p)  BY <2>2 DEF SplitInv, TypeOK, Kept, Copied, Splitting, AttachNothing
  <2>3. CASE StageIndex(p)     BY <2>3 DEF SplitInv, TypeOK, Kept, Copied, Splitting, StageIndex
  <2>4. CASE FillIndex(p)      BY <2>4 DEF SplitInv, TypeOK, Kept, Copied, Splitting, FillIndex
  <2>5. CASE PublishIndex(p)   BY <2>5 DEF SplitInv, TypeOK, Kept, Copied, Splitting, PublishIndex
  <2>6. CASE FailPublish(p)    BY <2>6 DEF SplitInv, TypeOK, Kept, Copied, Splitting, FailPublish
  <2>7. CASE DiscardOldFile(p) BY <2>7 DEF SplitInv, TypeOK, Kept, Copied, Splitting, DiscardOldFile
  <2> QED BY <2>1, <2>2, <2>3, <2>4, <2>5, <2>6, <2>7
<1>4. Indexed'
  <2>1. CASE CopyThread(p)     BY <2>1 DEF SplitInv, TypeOK, Copied, Indexed, CopyThread
  <2>2. CASE AttachNothing(p)  BY <2>2, Databases DEF SplitInv, TypeOK, Copied, Indexed, AttachNothing
  <2>3. CASE StageIndex(p)     BY <2>3, Databases DEF SplitInv, TypeOK, Copied, Indexed, StageIndex
  <2>4. CASE FillIndex(p)      BY <2>4, Databases DEF SplitInv, TypeOK, Copied, Indexed, FillIndex
  <2>5. CASE PublishIndex(p)   BY <2>5, Databases DEF SplitInv, TypeOK, Copied, Indexed, PublishIndex
  <2>6. CASE FailPublish(p)    BY <2>6 DEF SplitInv, TypeOK, Copied, Indexed, FailPublish
  <2>7. CASE DiscardOldFile(p) BY <2>7 DEF SplitInv, TypeOK, Copied, Indexed, DiscardOldFile
  <2> QED BY <2>1, <2>2, <2>3, <2>4, <2>5, <2>6, <2>7
<1>5. Trying'
  <2>1. CASE CopyThread(p)     BY <2>1 DEF SplitInv, TypeOK, Trying, CopyThread
  <2>2. CASE AttachNothing(p)  BY <2>2 DEF SplitInv, TypeOK, Trying, AttachNothing
  <2>3. CASE StageIndex(p)     BY <2>3 DEF SplitInv, TypeOK, Trying, StageIndex
  <2>4. CASE FillIndex(p)      BY <2>4 DEF SplitInv, TypeOK, Trying, FillIndex
  <2>5. CASE PublishIndex(p)   BY <2>5 DEF SplitInv, TypeOK, Trying, PublishIndex
  <2>6. CASE FailPublish(p)    BY <2>6 DEF SplitInv, TypeOK, Trying, FailPublish
  <2>7. CASE DiscardOldFile(p) BY <2>7 DEF SplitInv, TypeOK, Trying, DiscardOldFile
  <2> QED BY <2>1, <2>2, <2>3, <2>4, <2>5, <2>6, <2>7
<1> QED BY <1>1, <1>2, <1>3, <1>4, <1>5 DEF SplitInv

\* The end of an attempt, the use of the store, and a crash.
LEMMA LeaveKeepsInv ==
  ASSUME SplitInv, NEW p \in Procs,
         \/ LeaveSplit(p) \/ UseDirectory(p) \/ RecordTurn(p)
         \/ Crash(p)
  PROVE  SplitInv'
<1> USE DEF disk, local, ghosts, Goes
<1>1. TypeOK'
  <2>1. CASE LeaveSplit(p)   BY <2>1 DEF SplitInv, TypeOK, InSplit, LeaveSplit, Kinds
  <2>2. CASE UseDirectory(p) BY <2>2 DEF SplitInv, TypeOK, InSplit, UseDirectory, Kinds
  <2>3. CASE RecordTurn(p)   BY <2>3, Databases DEF SplitInv, TypeOK, InSplit, RecordTurn
  <2>4. CASE Crash(p)
    <3>1. crashes' \in 0 .. MaxCrashes
      BY <2>4, SplitAssumption DEF SplitInv, TypeOK, Crash
    <3>2. staged' = Closed(staged, p) /\ index' = Closed(index, p)
      BY <2>4 DEF Crash
    <3>3. LET Database == [there : BOOLEAN, rows : SUBSET Rows, by : Procs \cup {Nobody}]
          IN staged' \in Database /\ index' \in Database
      BY <3>2, Databases DEF SplitInv
    <3>4. at' = [at EXCEPT ![p] = "closed"]
          /\ UNCHANGED <<store, pre, files, lock, local, contested>>
      BY <2>4 DEF Crash
    <3> QED BY <3>1, <3>3, <3>4 DEF SplitInv, TypeOK
  <2> QED BY <2>1, <2>2, <2>3, <2>4
<1>2. Kept'
  <2>1. CASE LeaveSplit(p)   BY <2>1 DEF SplitInv, TypeOK, Kept, Copied, Splitting, LeaveSplit
  <2>2. CASE UseDirectory(p) BY <2>2 DEF SplitInv, TypeOK, Kept, Copied, Splitting, UseDirectory
  <2>3. CASE RecordTurn(p)   BY <2>3 DEF SplitInv, TypeOK, Kept, Copied, Splitting, RecordTurn
  <2>4. CASE Crash(p)        BY <2>4 DEF SplitInv, TypeOK, Kept, Copied, Splitting, Crash
  <2> QED BY <2>1, <2>2, <2>3, <2>4
<1>3. Copied'
  <2>1. CASE LeaveSplit(p)   BY <2>1 DEF SplitInv, TypeOK, Kept, Copied, Splitting, LeaveSplit
  <2>2. CASE UseDirectory(p) BY <2>2 DEF SplitInv, TypeOK, Kept, Copied, Splitting, UseDirectory
  <2>3. CASE RecordTurn(p)   BY <2>3 DEF SplitInv, TypeOK, Kept, Copied, Splitting, RecordTurn
  <2>4. CASE Crash(p)        BY <2>4 DEF SplitInv, TypeOK, Kept, Copied, Splitting, Crash
  <2> QED BY <2>1, <2>2, <2>3, <2>4
<1>4. Indexed'
  <2>1. CASE LeaveSplit(p)   BY <2>1 DEF SplitInv, TypeOK, Copied, Indexed, LeaveSplit
  <2>2. CASE UseDirectory(p) BY <2>2 DEF SplitInv, TypeOK, Copied, Indexed, UseDirectory
  <2>3. CASE RecordTurn(p)   BY <2>3, Databases DEF SplitInv, TypeOK, Copied, Indexed, RecordTurn
  <2>4. CASE Crash(p)        BY <2>4, Databases DEF SplitInv, TypeOK, Copied, Indexed, Crash
  <2> QED BY <2>1, <2>2, <2>3, <2>4
<1>5. Trying'
  <2>1. CASE LeaveSplit(p)   BY <2>1 DEF SplitInv, TypeOK, Trying, LeaveSplit
  <2>2. CASE UseDirectory(p) BY <2>2 DEF SplitInv, TypeOK, Trying, UseDirectory
  <2>3. CASE RecordTurn(p)   BY <2>3 DEF SplitInv, TypeOK, Trying, RecordTurn
  <2>4. CASE Crash(p)        BY <2>4 DEF SplitInv, TypeOK, Trying, Crash
  <2> QED BY <2>1, <2>2, <2>3, <2>4
<1> QED BY <1>1, <1>2, <1>3, <1>4, <1>5 DEF SplitInv

\* Time, and an earlier release.
LEMMA OthersKeepInv ==
  ASSUME SplitInv, LockAges \/ EarlierRelease
  PROVE  SplitInv'
<1> USE DEF disk, local, ghosts
<1>1. TypeOK'
  BY DEF SplitInv, TypeOK, LockAges, EarlierRelease, Kinds
<1>2. Kept'
  BY DEF SplitInv, Kept, LockAges, EarlierRelease
<1>3. Copied' /\ Indexed' /\ Trying'
  BY DEF SplitInv, Copied, Indexed, Trying, LockAges, EarlierRelease
<1> QED BY <1>1, <1>2, <1>3 DEF SplitInv

\* Every step of the split and of what goes on around it keeps the invariant.
THEOREM SplitInvHolds == Spec => []SplitInv
<1>1. SplitInv /\ [Next]_vars => SplitInv'
  <2> SUFFICES ASSUME SplitInv, [Next]_vars PROVE SplitInv'
    OBVIOUS
  <2>1. CASE LockAges \/ EarlierRelease
    BY <2>1, OthersKeepInv
  <2>2. ASSUME NEW p \in Procs, Step(p) \/ Crash(p) PROVE SplitInv'
    BY <2>2, OpenKeepsInv, BeginKeepsInv, CopyKeepsInv, LeaveKeepsInv DEF Step
  <2>3. CASE UNCHANGED vars
    BY <2>3 DEF vars, disk, local, ghosts, SplitInv, TypeOK, Kept, Copied, Indexed, Trying
  <2> QED BY <2>1, <2>2, <2>3 DEF Next
<1> QED BY InvInit, <1>1, PTL DEF Spec

\* The state of the store, of its lock and of every process stays in its types.
THEOREM SplitTypeCorrect == Spec => []TypeOK
<1>1. SplitInv => TypeOK
  BY DEF SplitInv
<1> QED BY SplitInvHolds, <1>1, PTL

\* No crash and no overlap of two splits loses a row of the old store.
THEOREM NoRowIsLost == Spec => []NothingIsLost
<1>1. SplitInv => NothingIsLost
  BY DEF SplitInv, Kept, NothingIsLost
<1> QED BY SplitInvHolds, <1>1, PTL

\* No row is in the index before it is in its file.
THEOREM TheIndexGoesLast == Spec => []IndexGoesLast
<1>1. SplitInv => IndexGoesLast
  BY DEF SplitInv, Indexed, IndexGoesLast
<1> QED BY SplitInvHolds, <1>1, PTL
-----------------------------------------------------------------------------
(* Where no two processes are in the split at once. *)

\* One splits at a time.
Alone == \A p, q \in Procs : at[p] \in InSplit /\ at[q] \in InSplit => p = q

\* The old file is there, under one name, until everything is in place.
OldFileStands ==
    /\ pre # "empty" /\ (pre = "none" => store # "absent")
    /\ \A p \in Procs : at[p] \in Splitting => pre = "whole"

\* Who uses the store, or found it split, came after that.
UsersFollow ==
    \A p \in Procs : at[p] \in {"ready", "done", "finishing"} =>
        pre = "none" /\ store # "file"

\* How far the one that splits has come.
Progressed ==
    \A p \in Procs :
        /\ at[p] \in Splitting \ {"rooting", "threading"} => store = "threads"
        /\ at[p] = "filling" => staged.there /\ staged.by = p
        /\ at[p] = "publishing" => staged.there /\ Old \subseteq staged.rows
        /\ at[p] = "discarding" => index.there /\ Old \subseteq index.rows

\* Once the old file is gone the index has everything.
IndexWhole ==
    (pre = "none" /\ store # "file") =>
        /\ index.there /\ Old \subseteq index.rows
        /\ \A q \in Procs : at[q] = "done" => q \in index.rows

Orderly == Alone /\ OldFileStands /\ UsersFollow /\ Progressed /\ IndexWhole

\* Opening the store, and the lock: who takes it while another is in the split
\* makes it contested.
LEMMA OpenKeepsOrder ==
  ASSUME SplitInv, ~contested, Orderly, NEW p \in Procs,
         \/ Open(p) \/ SplitFirst(p) \/ TakeLock(p) \/ FindLock(p)
         \/ JudgeLock(p) \/ RemoveLock(p)
  PROVE  contested' \/ Orderly'
<1> USE DEF SplitInv, TypeOK, Orderly, disk, local, ghosts, Goes, InSplit, Splitting
<1> SUFFICES ASSUME ~contested' PROVE Orderly'
  OBVIOUS
<1>1. Alone'
  <2>1. CASE Open(p)       BY <2>1 DEF Alone, Open
  <2>2. CASE SplitFirst(p) BY <2>2 DEF Alone, SplitFirst
  <2>3. CASE TakeLock(p)   BY <2>3 DEF Alone, TakeLock
  <2>4. CASE FindLock(p)   BY <2>4 DEF Alone, FindLock
  <2>5. CASE JudgeLock(p)  BY <2>5 DEF Alone, JudgeLock
  <2>6. CASE RemoveLock(p) BY <2>6 DEF Alone, RemoveLock
  <2> QED BY <2>1, <2>2, <2>3, <2>4, <2>5, <2>6
<1>2. OldFileStands'
  <2>1. CASE Open(p)       BY <2>1 DEF Alone, OldFileStands, UsersFollow, Progressed, Open
  <2>2. CASE SplitFirst(p) BY <2>2 DEF Alone, OldFileStands, UsersFollow, Progressed, SplitFirst
  <2>3. CASE TakeLock(p)   BY <2>3 DEF Alone, OldFileStands, UsersFollow, Progressed, TakeLock
  <2>4. CASE FindLock(p)   BY <2>4 DEF Alone, OldFileStands, UsersFollow, Progressed, FindLock
  <2>5. CASE JudgeLock(p)  BY <2>5 DEF Alone, OldFileStands, UsersFollow, Progressed, JudgeLock
  <2>6. CASE RemoveLock(p) BY <2>6 DEF Alone, OldFileStands, UsersFollow, Progressed, RemoveLock
  <2> QED BY <2>1, <2>2, <2>3, <2>4, <2>5, <2>6
<1>3. UsersFollow'
  <2>1. CASE Open(p)       BY <2>1 DEF Alone, OldFileStands, UsersFollow, Progressed, Open
  <2>2. CASE SplitFirst(p) BY <2>2 DEF Alone, OldFileStands, UsersFollow, Progressed, SplitFirst
  <2>3. CASE TakeLock(p)   BY <2>3 DEF Alone, OldFileStands, UsersFollow, Progressed, TakeLock
  <2>4. CASE FindLock(p)   BY <2>4 DEF Alone, OldFileStands, UsersFollow, Progressed, FindLock
  <2>5. CASE JudgeLock(p)  BY <2>5 DEF Alone, OldFileStands, UsersFollow, Progressed, JudgeLock
  <2>6. CASE RemoveLock(p) BY <2>6 DEF Alone, OldFileStands, UsersFollow, Progressed, RemoveLock
  <2> QED BY <2>1, <2>2, <2>3, <2>4, <2>5, <2>6
<1>4. Progressed'
  <2>1. CASE Open(p)       BY <2>1 DEF Alone, OldFileStands, UsersFollow, Progressed, Closed, Written, Open
  <2>2. CASE SplitFirst(p) BY <2>2 DEF Alone, OldFileStands, UsersFollow, Progressed, Closed, Written, SplitFirst
  <2>3. CASE TakeLock(p)   BY <2>3 DEF Alone, OldFileStands, UsersFollow, Progressed, Closed, Written, TakeLock
  <2>4. CASE FindLock(p)   BY <2>4 DEF Alone, OldFileStands, UsersFollow, Progressed, Closed, Written, FindLock
  <2>5. CASE JudgeLock(p)  BY <2>5 DEF Alone, OldFileStands, UsersFollow, Progressed, Closed, Written, JudgeLock
  <2>6. CASE RemoveLock(p) BY <2>6 DEF Alone, OldFileStands, UsersFollow, Progressed, Closed, Written, RemoveLock
  <2> QED BY <2>1, <2>2, <2>3, <2>4, <2>5, <2>6
<1>5. IndexWhole'
  <2>1. CASE Open(p)       BY <2>1 DEF OldFileStands, UsersFollow, Progressed, IndexWhole, Closed, Written, Open
  <2>2. CASE SplitFirst(p) BY <2>2 DEF OldFileStands, UsersFollow, Progressed, IndexWhole, Closed, Written, SplitFirst
  <2>3. CASE TakeLock(p)   BY <2>3 DEF OldFileStands, UsersFollow, Progressed, IndexWhole, Closed, Written, TakeLock
  <2>4. CASE FindLock(p)   BY <2>4 DEF OldFileStands, UsersFollow, Progressed, IndexWhole, Closed, Written, FindLock
  <2>5. CASE JudgeLock(p)  BY <2>5 DEF OldFileStands, UsersFollow, Progressed, IndexWhole, Closed, Written, JudgeLock
  <2>6. CASE RemoveLock(p) BY <2>6 DEF OldFileStands, UsersFollow, Progressed, IndexWhole, Closed, Written, RemoveLock
  <2> QED BY <2>1, <2>2, <2>3, <2>4, <2>5, <2>6
<1> QED BY <1>1, <1>2, <1>3, <1>4, <1>5

\* The split up to the copies.
LEMMA BeginKeepsOrder ==
  ASSUME SplitInv, ~contested, Orderly, NEW p \in Procs,
         \/ RetireOldFile(p) \/ LeaveTwoStores(p) \/ ResumeSplit(p)
         \/ FindSplitDone(p) \/ MakeRoot(p) \/ MakeThreads(p)
         \/ FailThreads(p) \/ Survey(p) \/ FailSurvey(p)
  PROVE  contested' \/ Orderly'
<1> USE DEF SplitInv, TypeOK, Orderly, disk, local, ghosts, Goes, InSplit, Splitting
<1> SUFFICES ASSUME ~contested' PROVE Orderly'
  OBVIOUS
<1>1. Alone'
  <2>1. CASE RetireOldFile(p)  BY <2>1 DEF Alone, RetireOldFile
  <2>2. CASE LeaveTwoStores(p) BY <2>2 DEF Alone, LeaveTwoStores
  <2>3. CASE ResumeSplit(p)    BY <2>3 DEF Alone, ResumeSplit
  <2>4. CASE FindSplitDone(p)  BY <2>4 DEF Alone, FindSplitDone
  <2>5. CASE MakeRoot(p)       BY <2>5 DEF Alone, MakeRoot
  <2>6. CASE MakeThreads(p)    BY <2>6 DEF Alone, MakeThreads
  <2>7. CASE FailThreads(p)    BY <2>7 DEF Alone, FailThreads
  <2>8. CASE Survey(p)         BY <2>8 DEF Alone, Survey
  <2>9. CASE FailSurvey(p)     BY <2>9 DEF Alone, FailSurvey
  <2> QED BY <2>1, <2>2, <2>3, <2>4, <2>5, <2>6, <2>7, <2>8, <2>9
<1>2. OldFileStands'
  <2>1. CASE RetireOldFile(p)  BY <2>1 DEF Alone, OldFileStands, UsersFollow, Progressed, RetireOldFile
  <2>2. CASE LeaveTwoStores(p) BY <2>2 DEF Alone, OldFileStands, UsersFollow, Progressed, LeaveTwoStores
  <2>3. CASE ResumeSplit(p)    BY <2>3 DEF Alone, OldFileStands, UsersFollow, Progressed, ResumeSplit
  <2>4. CASE FindSplitDone(p)  BY <2>4 DEF Alone, OldFileStands, UsersFollow, Progressed, FindSplitDone
  <2>5. CASE MakeRoot(p)       BY <2>5 DEF Alone, OldFileStands, UsersFollow, Progressed, MakeRoot
  <2>6. CASE MakeThreads(p)    BY <2>6 DEF Alone, OldFileStands, UsersFollow, Progressed, MakeThreads
  <2>7. CASE FailThreads(p)    BY <2>7 DEF Alone, OldFileStands, UsersFollow, Progressed, FailThreads
  <2>8. CASE Survey(p)         BY <2>8 DEF Alone, OldFileStands, UsersFollow, Progressed, Survey
  <2>9. CASE FailSurvey(p)     BY <2>9 DEF Alone, OldFileStands, UsersFollow, Progressed, FailSurvey
  <2> QED BY <2>1, <2>2, <2>3, <2>4, <2>5, <2>6, <2>7, <2>8, <2>9
<1>3. UsersFollow'
  <2>1. CASE RetireOldFile(p)  BY <2>1 DEF Alone, OldFileStands, UsersFollow, Progressed, RetireOldFile
  <2>2. CASE LeaveTwoStores(p) BY <2>2 DEF Alone, OldFileStands, UsersFollow, Progressed, LeaveTwoStores
  <2>3. CASE ResumeSplit(p)    BY <2>3 DEF Alone, OldFileStands, UsersFollow, Progressed, ResumeSplit
  <2>4. CASE FindSplitDone(p)  BY <2>4 DEF Alone, OldFileStands, UsersFollow, Progressed, FindSplitDone
  <2>5. CASE MakeRoot(p)       BY <2>5 DEF Alone, OldFileStands, UsersFollow, Progressed, MakeRoot
  <2>6. CASE MakeThreads(p)    BY <2>6 DEF Alone, OldFileStands, UsersFollow, Progressed, MakeThreads
  <2>7. CASE FailThreads(p)    BY <2>7 DEF Alone, OldFileStands, UsersFollow, Progressed, FailThreads
  <2>8. CASE Survey(p)         BY <2>8 DEF Alone, OldFileStands, UsersFollow, Progressed, Survey
  <2>9. CASE FailSurvey(p)     BY <2>9 DEF Alone, OldFileStands, UsersFollow, Progressed, FailSurvey
  <2> QED BY <2>1, <2>2, <2>3, <2>4, <2>5, <2>6, <2>7, <2>8, <2>9
<1>4. Progressed'
  <2>1. CASE RetireOldFile(p)  BY <2>1 DEF Alone, OldFileStands, UsersFollow, Progressed, Closed, Written, RetireOldFile
  <2>2. CASE LeaveTwoStores(p) BY <2>2 DEF Alone, OldFileStands, UsersFollow, Progressed, Closed, Written, LeaveTwoStores
  <2>3. CASE ResumeSplit(p)    BY <2>3 DEF Alone, OldFileStands, UsersFollow, Progressed, Closed, Written, ResumeSplit
  <2>4. CASE FindSplitDone(p)  BY <2>4 DEF Alone, OldFileStands, UsersFollow, Progressed, Closed, Written, FindSplitDone
  <2>5. CASE MakeRoot(p)       BY <2>5 DEF Alone, OldFileStands, UsersFollow, Progressed, Closed, Written, MakeRoot
  <2>6. CASE MakeThreads(p)    BY <2>6 DEF Alone, OldFileStands, UsersFollow, Progressed, Closed, Written, MakeThreads
  <2>7. CASE FailThreads(p)    BY <2>7 DEF Alone, OldFileStands, UsersFollow, Progressed, Closed, Written, FailThreads
  <2>8. CASE Survey(p)         BY <2>8 DEF Alone, OldFileStands, UsersFollow, Progressed, Closed, Written, Survey
  <2>9. CASE FailSurvey(p)     BY <2>9 DEF Alone, OldFileStands, UsersFollow, Progressed, Closed, Written, FailSurvey
  <2> QED BY <2>1, <2>2, <2>3, <2>4, <2>5, <2>6, <2>7, <2>8, <2>9
<1>5. IndexWhole'
  <2>1. CASE RetireOldFile(p)  BY <2>1 DEF OldFileStands, UsersFollow, Progressed, IndexWhole, Closed, Written, RetireOldFile
  <2>2. CASE LeaveTwoStores(p) BY <2>2 DEF OldFileStands, UsersFollow, Progressed, IndexWhole, Closed, Written, LeaveTwoStores
  <2>3. CASE ResumeSplit(p)    BY <2>3 DEF OldFileStands, UsersFollow, Progressed, IndexWhole, Closed, Written, ResumeSplit
  <2>4. CASE FindSplitDone(p)  BY <2>4 DEF OldFileStands, UsersFollow, Progressed, IndexWhole, Closed, Written, FindSplitDone
  <2>5. CASE MakeRoot(p)       BY <2>5 DEF OldFileStands, UsersFollow, Progressed, IndexWhole, Closed, Written, MakeRoot
  <2>6. CASE MakeThreads(p)    BY <2>6 DEF OldFileStands, UsersFollow, Progressed, IndexWhole, Closed, Written, MakeThreads
  <2>7. CASE FailThreads(p)    BY <2>7 DEF OldFileStands, UsersFollow, Progressed, IndexWhole, Closed, Written, FailThreads
  <2>8. CASE Survey(p)         BY <2>8 DEF OldFileStands, UsersFollow, Progressed, IndexWhole, Closed, Written, Survey
  <2>9. CASE FailSurvey(p)     BY <2>9 DEF OldFileStands, UsersFollow, Progressed, IndexWhole, Closed, Written, FailSurvey
  <2> QED BY <2>1, <2>2, <2>3, <2>4, <2>5, <2>6, <2>7, <2>8, <2>9
<1> QED BY <1>1, <1>2, <1>3, <1>4, <1>5

\* The copies, the index and the end of the old file.
LEMMA CopyKeepsOrder ==
  ASSUME SplitInv, ~contested, Orderly, NEW p \in Procs,
         \/ CopyThread(p) \/ AttachNothing(p) \/ StageIndex(p)
         \/ FillIndex(p) \/ PublishIndex(p) \/ FailPublish(p)
         \/ DiscardOldFile(p)
  PROVE  contested' \/ Orderly'
<1> USE DEF SplitInv, TypeOK, Orderly, disk, local, ghosts, Goes, InSplit, Splitting
<1> SUFFICES ASSUME ~contested' PROVE Orderly'
  OBVIOUS
<1>1. Alone'
  <2>1. CASE CopyThread(p)     BY <2>1 DEF Alone, CopyThread
  <2>2. CASE AttachNothing(p)  BY <2>2 DEF Alone, AttachNothing
  <2>3. CASE StageIndex(p)     BY <2>3 DEF Alone, StageIndex
  <2>4. CASE FillIndex(p)      BY <2>4 DEF Alone, FillIndex
  <2>5. CASE PublishIndex(p)   BY <2>5 DEF Alone, PublishIndex
  <2>6. CASE FailPublish(p)    BY <2>6 DEF Alone, FailPublish
  <2>7. CASE DiscardOldFile(p) BY <2>7 DEF Alone, DiscardOldFile
  <2> QED BY <2>1, <2>2, <2>3, <2>4, <2>5, <2>6, <2>7
<1>2. OldFileStands'
  <2>1. CASE CopyThread(p)     BY <2>1 DEF Alone, OldFileStands, UsersFollow, Progressed, CopyThread
  <2>2. CASE AttachNothing(p)  BY <2>2 DEF Alone, OldFileStands, UsersFollow, Progressed, AttachNothing
  <2>3. CASE StageIndex(p)     BY <2>3 DEF Alone, OldFileStands, UsersFollow, Progressed, StageIndex
  <2>4. CASE FillIndex(p)      BY <2>4 DEF Alone, OldFileStands, UsersFollow, Progressed, FillIndex
  <2>5. CASE PublishIndex(p)   BY <2>5 DEF Alone, OldFileStands, UsersFollow, Progressed, PublishIndex
  <2>6. CASE FailPublish(p)    BY <2>6 DEF Alone, OldFileStands, UsersFollow, Progressed, FailPublish
  <2>7. CASE DiscardOldFile(p) BY <2>7 DEF Alone, OldFileStands, UsersFollow, Progressed, DiscardOldFile
  <2> QED BY <2>1, <2>2, <2>3, <2>4, <2>5, <2>6, <2>7
<1>3. UsersFollow'
  <2>1. CASE CopyThread(p)     BY <2>1 DEF Alone, OldFileStands, UsersFollow, Progressed, CopyThread
  <2>2. CASE AttachNothing(p)  BY <2>2 DEF Alone, OldFileStands, UsersFollow, Progressed, AttachNothing
  <2>3. CASE StageIndex(p)     BY <2>3 DEF Alone, OldFileStands, UsersFollow, Progressed, StageIndex
  <2>4. CASE FillIndex(p)      BY <2>4 DEF Alone, OldFileStands, UsersFollow, Progressed, FillIndex
  <2>5. CASE PublishIndex(p)   BY <2>5 DEF Alone, OldFileStands, UsersFollow, Progressed, PublishIndex
  <2>6. CASE FailPublish(p)    BY <2>6 DEF Alone, OldFileStands, UsersFollow, Progressed, FailPublish
  <2>7. CASE DiscardOldFile(p) BY <2>7 DEF Alone, OldFileStands, UsersFollow, Progressed, DiscardOldFile
  <2> QED BY <2>1, <2>2, <2>3, <2>4, <2>5, <2>6, <2>7
<1>4. Progressed'
  <2>1. CASE CopyThread(p)     BY <2>1 DEF Alone, OldFileStands, UsersFollow, Progressed, Closed, Written, CopyThread
  <2>2. CASE AttachNothing(p)  BY <2>2 DEF Alone, OldFileStands, UsersFollow, Progressed, Closed, Written, AttachNothing
  <2>3. CASE StageIndex(p)     BY <2>3 DEF Alone, OldFileStands, UsersFollow, Progressed, Closed, Written, StageIndex
  <2>4. CASE FillIndex(p)      BY <2>4 DEF Alone, OldFileStands, UsersFollow, Progressed, Closed, Written, FillIndex
  <2>5. CASE PublishIndex(p)   BY <2>5 DEF Alone, OldFileStands, UsersFollow, Progressed, Closed, Written, PublishIndex
  <2>6. CASE FailPublish(p)    BY <2>6 DEF Alone, OldFileStands, UsersFollow, Progressed, Closed, Written, FailPublish
  <2>7. CASE DiscardOldFile(p) BY <2>7 DEF Alone, OldFileStands, UsersFollow, Progressed, Closed, Written, DiscardOldFile
  <2> QED BY <2>1, <2>2, <2>3, <2>4, <2>5, <2>6, <2>7
<1>5. IndexWhole'
  <2>1. CASE CopyThread(p)     BY <2>1 DEF OldFileStands, UsersFollow, Progressed, IndexWhole, Closed, Written, CopyThread
  <2>2. CASE AttachNothing(p)  BY <2>2 DEF OldFileStands, UsersFollow, Progressed, IndexWhole, Closed, Written, AttachNothing
  <2>3. CASE StageIndex(p)     BY <2>3 DEF OldFileStands, UsersFollow, Progressed, IndexWhole, Closed, Written, StageIndex
  <2>4. CASE FillIndex(p)      BY <2>4 DEF OldFileStands, UsersFollow, Progressed, IndexWhole, Closed, Written, FillIndex
  <2>5. CASE PublishIndex(p)   BY <2>5 DEF OldFileStands, UsersFollow, Progressed, IndexWhole, Closed, Written, PublishIndex
  <2>6. CASE FailPublish(p)    BY <2>6 DEF OldFileStands, UsersFollow, Progressed, IndexWhole, Closed, Written, FailPublish
  <2>7. CASE DiscardOldFile(p) BY <2>7 DEF OldFileStands, UsersFollow, Progressed, IndexWhole, Closed, Written, DiscardOldFile
  <2> QED BY <2>1, <2>2, <2>3, <2>4, <2>5, <2>6, <2>7
<1> QED BY <1>1, <1>2, <1>3, <1>4, <1>5

\* The end of an attempt, the use of the store, and a crash.
LEMMA LeaveKeepsOrder ==
  ASSUME SplitInv, ~contested, Orderly, NEW p \in Procs,
         \/ LeaveSplit(p) \/ UseDirectory(p) \/ RecordTurn(p)
         \/ Crash(p)
  PROVE  contested' \/ Orderly'
<1> USE DEF SplitInv, TypeOK, Orderly, disk, local, ghosts, Goes, InSplit, Splitting
<1> SUFFICES ASSUME ~contested' PROVE Orderly'
  OBVIOUS
<1>1. Alone'
  <2>1. CASE LeaveSplit(p)   BY <2>1 DEF Alone, LeaveSplit
  <2>2. CASE UseDirectory(p) BY <2>2 DEF Alone, UseDirectory
  <2>3. CASE RecordTurn(p)   BY <2>3 DEF Alone, RecordTurn
  <2>4. CASE Crash(p)        BY <2>4 DEF Alone, Crash
  <2> QED BY <2>1, <2>2, <2>3, <2>4
<1>2. OldFileStands'
  <2>1. CASE LeaveSplit(p)   BY <2>1 DEF Alone, OldFileStands, UsersFollow, Progressed, LeaveSplit
  <2>2. CASE UseDirectory(p) BY <2>2 DEF Alone, OldFileStands, UsersFollow, Progressed, UseDirectory
  <2>3. CASE RecordTurn(p)   BY <2>3 DEF Alone, OldFileStands, UsersFollow, Progressed, RecordTurn
  <2>4. CASE Crash(p)        BY <2>4 DEF Alone, OldFileStands, UsersFollow, Progressed, Crash
  <2> QED BY <2>1, <2>2, <2>3, <2>4
<1>3. UsersFollow'
  <2>1. CASE LeaveSplit(p)   BY <2>1 DEF Alone, OldFileStands, UsersFollow, Progressed, LeaveSplit
  <2>2. CASE UseDirectory(p) BY <2>2 DEF Alone, OldFileStands, UsersFollow, Progressed, UseDirectory
  <2>3. CASE RecordTurn(p)   BY <2>3 DEF Alone, OldFileStands, UsersFollow, Progressed, RecordTurn
  <2>4. CASE Crash(p)        BY <2>4 DEF Alone, OldFileStands, UsersFollow, Progressed, Crash
  <2> QED BY <2>1, <2>2, <2>3, <2>4
<1>4. Progressed'
  <2>1. CASE LeaveSplit(p)   BY <2>1 DEF Alone, OldFileStands, UsersFollow, Progressed, Closed, Written, LeaveSplit
  <2>2. CASE UseDirectory(p) BY <2>2 DEF Alone, OldFileStands, UsersFollow, Progressed, Closed, Written, UseDirectory
  <2>3. CASE RecordTurn(p)   BY <2>3 DEF Alone, OldFileStands, UsersFollow, Progressed, Closed, Written, RecordTurn
  <2>4. CASE Crash(p)        BY <2>4 DEF Alone, OldFileStands, UsersFollow, Progressed, Closed, Written, Crash
  <2> QED BY <2>1, <2>2, <2>3, <2>4
<1>5. IndexWhole'
  <2>1. CASE LeaveSplit(p)   BY <2>1 DEF OldFileStands, UsersFollow, Progressed, IndexWhole, Closed, Written, LeaveSplit
  <2>2. CASE UseDirectory(p) BY <2>2 DEF OldFileStands, UsersFollow, Progressed, IndexWhole, Closed, Written, UseDirectory
  <2>3. CASE RecordTurn(p)   BY <2>3 DEF OldFileStands, UsersFollow, Progressed, IndexWhole, Closed, Written, RecordTurn
  <2>4. CASE Crash(p)        BY <2>4 DEF OldFileStands, UsersFollow, Progressed, IndexWhole, Closed, Written, Crash
  <2> QED BY <2>1, <2>2, <2>3, <2>4
<1> QED BY <1>1, <1>2, <1>3, <1>4, <1>5

\* Steps keep the order, or leave it for good.
THEOREM OrderHolds == Spec => [](contested \/ Orderly)
<1>1. Init => Orderly
  BY DEF Init, Orderly, Alone, OldFileStands, UsersFollow, Progressed, IndexWhole, InSplit, Splitting
<1>2. SplitInv /\ (contested \/ Orderly) /\ [Next]_vars => (contested \/ Orderly)'
  <2> SUFFICES ASSUME SplitInv, contested \/ Orderly, [Next]_vars
               PROVE  contested' \/ Orderly'
    OBVIOUS
  <2>1. CASE contested
    <3>1. ASSUME NEW p \in Procs, Step(p) \/ Crash(p) PROVE contested'
      BY <2>1, <3>1 DEF Step, Crash, ghosts, Open, SplitFirst, UseDirectory, RecordTurn,
        TakeLock, FindLock, JudgeLock, RemoveLock, RetireOldFile, LeaveTwoStores,
        ResumeSplit, FindSplitDone, MakeRoot, MakeThreads, FailThreads, Survey, FailSurvey,
        CopyThread, AttachNothing, StageIndex, FillIndex, PublishIndex, FailPublish,
        DiscardOldFile, LeaveSplit
    <3>2. CASE LockAges \/ EarlierRelease \/ UNCHANGED vars
      BY <2>1, <3>2 DEF LockAges, EarlierRelease, vars, ghosts
    <3> QED BY <3>1, <3>2 DEF Next
  <2>2. CASE ~contested /\ Orderly
    <3>1. ASSUME NEW p \in Procs, Step(p) \/ Crash(p) PROVE contested' \/ Orderly'
      BY <2>2, <3>1, OpenKeepsOrder, BeginKeepsOrder, CopyKeepsOrder, LeaveKeepsOrder
        DEF Step
    <3>2. CASE LockAges \/ EarlierRelease \/ UNCHANGED vars
      BY <2>2, <3>2 DEF LockAges, EarlierRelease, vars, disk, local, ghosts, Orderly,
        Alone, OldFileStands, UsersFollow, Progressed, IndexWhole
    <3> QED BY <3>1, <3>2 DEF Next
  <2> QED BY <2>1, <2>2
<1> QED BY <1>1, <1>2, SplitInvHolds, PTL DEF Spec

\* Whoever gets to use the store finds all of it in the index.
THEOREM ReadyStoresAreWhole == Spec => []ReadyMeansWhole
<1>1. (contested \/ Orderly) => ReadyMeansWhole
  BY DEF Orderly, UsersFollow, IndexWhole, ReadyMeansWhole
<1> QED BY OrderHolds, <1>1, PTL
=============================================================================
