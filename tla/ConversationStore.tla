------------------------- MODULE ConversationStore -------------------------
(* Conversations kept on disk so that a later session can resume them.       *)
(*                                                                           *)
(* A conversation row of the index names a thread; the thread's file holds   *)
(* the checkpoints of the agent's graph, each with the whole conversation so *)
(* far, and a resume loads the newest.  Several processes share the store.   *)
(* The saver of a process keeps the newest checkpoint it wrote or read of    *)
(* every thread in memory and reads that copy first; after its first failed  *)
(* write it stops writing to the disk, and its conversation is cut from its  *)
(* thread so that nobody resumes the part that was saved.  A session that    *)
(* ends in order sweeps away threads that no conversation names and that are *)
(* a day old; `history prune` removes what a person chose.                   *)
(*                                                                           *)
(* A checkpoint is the set of the steps whose messages it carries.  Left     *)
(* out: pending writes, a failing serializer, resumes refused before a       *)
(* checkpoint is read, sessions whose store did not open (they never touch   *)
(* it).                                                                      *)
EXTENDS Naturals, FiniteSets

CONSTANTS Sessions,       \* processes that run a session, one after another
          Person,         \* whoever runs `gth history prune`
          Conversations, Threads,
          NoConversation, NoRow,   \* no conversation; a row not inserted yet
          NoThread,                \* thread_id NULL
          MAX_OPEN_THREAD_FILES,
          MaxSteps,       \* bound: steps taken by all the sessions together
          Sharing,        \* how living processes share a conversation
          Attended        \* no session stays open a day without taking a step

ASSUME StoreAssumption ==
    /\ Person \notin Sessions /\ NoConversation \notin Conversations
    /\ NoThread \notin Threads /\ NoRow \notin Threads /\ NoThread # NoRow
    /\ MAX_OPEN_THREAD_FILES \in Nat \ {0} /\ MaxSteps \in Nat
    /\ Sharing \in {"never", "in turns", "at once"} /\ Attended \in BOOLEAN

VARIABLES
    index,     \* conversations.thread_id in the index, by conversation
    records,   \* the same column of the conversation's record file
    files,     \* the threads that have a file
    disk,      \* the newest checkpoint in a thread's file, {} when it has none
    old,       \* threads whose newest checkpoint is older than RECLAIM_GRACE_MS
    steps,     \* steps taken so far; a step is known by its number
    told,      \* the steps taken on a thread, saved or not
    unmarked,  \* threads whose conversation should have been cut and was not
    stage,     \* where a session is
    thread,    \* the thread its runner is on, NoThread when there is no runner
    conv,      \* the conversation it records under and its checkpointer is bound to
    cut,       \* its saver has stopped writing to the disk
    held,      \* its mirror: the newest checkpoint of a thread, {} for none
    written,   \* GthSqliteSaver.writtenThreads
    open,      \* threads whose file it holds open
    lost,      \* of these, the ones whose file has been unlinked since
    doomed     \* threads a sweep or a prune has selected and not yet removed

shelf == <<index, records, unmarked>>
rows == <<files, disk, old>>
life == <<steps, told>>
place == <<stage, thread, conv>>
saver == <<cut, held, written>>
handles == <<open, lost>>
vars == <<shelf, rows, life, place, saver, handles, doomed>>

Links == Threads \cup {NoThread, NoRow}

\* The variables are in range; a session holds few files open, and has lost
\* none but files it holds.
TypeOK ==
    /\ index \in [Conversations -> Links] /\ records \in [Conversations -> Links]
    /\ files \subseteq Threads /\ disk \in [Threads -> SUBSET Nat] /\ old \subseteq Threads
    /\ steps \in Nat /\ told \in [Threads -> SUBSET Nat] /\ unmarked \subseteq Threads
    /\ stage \in [Sessions -> {"off", "asking", "live", "done", "closing"}]
    /\ thread \in [Sessions -> Threads \cup {NoThread}]
    /\ conv \in [Sessions -> Conversations \cup {NoConversation}]
    /\ cut \in [Sessions -> BOOLEAN] /\ held \in [Sessions -> [Threads -> SUBSET Nat]]
    /\ written \in [Sessions -> SUBSET Threads]
    /\ open \in [Sessions -> SUBSET Threads] /\ lost \in [Sessions -> SUBSET Threads]
    /\ \A s \in Sessions :
        lost[s] \subseteq open[s] /\ Cardinality(open[s]) <= MAX_OPEN_THREAD_FILES
    /\ doomed \in [Sessions \cup {Person} -> SUBSET Threads]

Init ==
    /\ index = [c \in Conversations |-> NoRow] /\ records = index
    /\ files = {} /\ disk = [t \in Threads |-> {}] /\ old = {}
    /\ steps = 0 /\ told = [t \in Threads |-> {}] /\ unmarked = {}
    /\ stage = [s \in Sessions |-> "off"] /\ thread = [s \in Sessions |-> NoThread]
    /\ conv = [s \in Sessions |-> NoConversation]
    /\ cut = [s \in Sessions |-> FALSE]
    /\ held = [s \in Sessions |-> [t \in Threads |-> {}]]
    /\ written = [s \in Sessions |-> {}] /\ open = written /\ lost = written
    /\ doomed = [a \in Sessions \cup {Person} |-> {}]
-----------------------------------------------------------------------------
Up(s) == stage[s] # "off"

\* The conversation rows that name thread t (NAMED_THREADS_SQL).
Named(t) == \E c \in Conversations : index[c] = t

\* A thread id nobody has used: randomUUID() never repeats one.
Fresh(t) ==
    /\ told[t] = {} /\ disk[t] = {}
    /\ \A c \in Conversations : index[c] # t /\ records[c] # t
    /\ \A s \in Sessions : Up(s) => thread[s] # t /\ t \notin written[s]

\* Mutant: a read that ignores the mirror.
LatestOnDisk(s, t) == disk[t]

\* What a read of thread t gives the graph of session s: its mirror first.
Latest(s, t) == IF held[s][t] # {} THEN held[s][t] ELSE disk[t]

\* Mutant: no connection is released for a new one.
UsesAll(s, t) ==
    /\ open' = [open EXCEPT ![s] = @ \cup {t}]
    /\ UNCHANGED lost

\* Session s uses its connection to the file of t, and releases another one
\* when it holds too many (the least recently used; here, any).
Uses(s, t) ==
    \E kept \in SUBSET (open[s] \cup {t}) :
        /\ t \in kept
        /\ IF Cardinality(open[s] \cup {t}) <= MAX_OPEN_THREAD_FILES
           THEN kept = open[s] \cup {t}
           ELSE Cardinality(kept) = MAX_OPEN_THREAD_FILES
        /\ open' = [open EXCEPT ![s] = kept]
        /\ lost' = [lost EXCEPT ![s] = @ \cap kept]

\* getTuple: a read that reaches the disk fills the mirror.
Reads(s, t) ==
    /\ held' = [held EXCEPT ![s][t] = Latest(s, t)]
    /\ written' = [written EXCEPT ![s] = @ \cup {t}]
    /\ IF held[s][t] # {} THEN UNCHANGED handles ELSE Uses(s, t)

\* Conversation c is to be cut from thread t, in the index and in its record
\* file, or in the index alone, or the store refuses that as well (or the
\* process dies first).
Marks(c, t) ==
    \E where \in {"both", "index", "nowhere"} :
        /\ index' = IF where = "nowhere" THEN index ELSE [index EXCEPT ![c] = NoThread]
        /\ records' = IF where = "both" THEN [records EXCEPT ![c] = NoThread] ELSE records
        /\ unmarked' = IF where = "both" THEN unmarked ELSE unmarked \cup {t}

\* Mutant: the conversation of a session that stops saving is not cut.
NeverMarks(degraded, c, t) == UNCHANGED shelf

\* applyMark of a session with that saver state, bound to c, whose row names t.
AppliesMark(degraded, c, t) ==
    IF degraded /\ c # NoConversation THEN Marks(c, t) ELSE UNCHANGED shelf

\* The processes that may take up thread t while others live.
Alone(s, t) ==
    \A u \in Sessions \ {s} : Up(u) =>
        CASE Sharing = "never" -> t \notin written[u]
          [] Sharing = "in turns" -> thread[u] # t
          [] OTHER -> TRUE

\* resolveResumeTarget accepts conversation c for session s.
CanResume(s, c) ==
    /\ index[c] \in files
    /\ Latest(s, index[c]) # {}
    /\ conv[s] # c
-----------------------------------------------------------------------------
(* Sessions.                                                                 *)

\* A chat or code session: mint a thread, open a row that names it, bind.
StartChat(s) ==
    /\ stage[s] = "off"
    /\ stage' = [stage EXCEPT ![s] = "live"]
    /\ \E t \in Threads :
        /\ Fresh(t)
        /\ thread' = [thread EXCEPT ![s] = t]
        /\ \/ \E c \in Conversations :
                /\ index[c] = NoRow
                /\ index' = [index EXCEPT ![c] = t]
                /\ records' = [records EXCEPT ![c] = t]
                /\ conv' = [conv EXCEPT ![s] = c]
                /\ files' = files \cup {t}
           \/ UNCHANGED <<index, records, conv, files>>   \* openConversation failed
    /\ UNCHANGED <<unmarked, disk, old, life, saver, handles, doomed>>

\* A session that starts inside a stored conversation (--resume).
BootResume(s, c) ==
    /\ stage[s] = "off"
    /\ CanResume(s, c) /\ Alone(s, index[c])
    /\ stage' = [stage EXCEPT ![s] = "live"]
    /\ thread' = [thread EXCEPT ![s] = index[c]]
    /\ conv' = [conv EXCEPT ![s] = c]
    /\ Reads(s, index[c])
    /\ UNCHANGED <<shelf, rows, life, cut, doomed>>

\* A single run (ask, exec): its conversation is recorded when it ends.
StartAsk(s) ==
    /\ stage[s] = "off"
    /\ stage' = [stage EXCEPT ![s] = "asking"]
    /\ \E t \in Threads : Fresh(t) /\ thread' = [thread EXCEPT ![s] = t]
    /\ UNCHANGED <<shelf, rows, life, conv, saver, handles, doomed>>

\* A step of the graph and the checkpoint it puts.
Step(s) ==
    LET t == thread[s]
        after == Latest(s, t) \cup {steps + 1}
    IN
    /\ stage[s] \in {"asking", "live"}
    /\ steps < MaxSteps
    /\ steps' = steps + 1
    /\ told' = [told EXCEPT ![t] = @ \cup {steps + 1}]
    /\ held' = [held EXCEPT ![s][t] = after]
    /\ written' = [written EXCEPT ![s] = @ \cup {t}]
    /\ \/ /\ ~cut[s] /\ t \notin lost[s]
          /\ Uses(s, t)
          /\ disk' = [disk EXCEPT ![t] = after]
          /\ files' = files \cup {t} /\ old' = old \ {t}
          /\ UNCHANGED <<cut, shelf>>
       \/ /\ ~cut[s]              \* the write fails; on an unlinked file it must
          /\ cut' = [cut EXCEPT ![s] = TRUE]
          /\ AppliesMark(TRUE, conv[s], t)
          /\ UNCHANGED <<rows, handles>>
       \/ /\ cut[s]
          /\ UNCHANGED <<cut, shelf, rows, handles>>
    /\ UNCHANGED <<place, doomed>>

\* Mutant: moving onto a row binds it and leaves its thread linked.
ResumeUnmarked(s, c) ==
    /\ stage[s] = "live"
    /\ CanResume(s, c) /\ Alone(s, index[c])
    /\ Reads(s, index[c])
    /\ thread' = [thread EXCEPT ![s] = index[c]]
    /\ conv' = [conv EXCEPT ![s] = c]
    /\ UNCHANGED <<shelf, rows, life, stage, cut, doomed>>

\* `/resume`: read the stored thread, move the runner onto it, bind its row.
Resume(s, c) ==
    /\ stage[s] = "live"
    /\ CanResume(s, c) /\ Alone(s, index[c])
    /\ Reads(s, index[c])
    /\ thread' = [thread EXCEPT ![s] = index[c]]
    /\ conv' = [conv EXCEPT ![s] = c]
    /\ AppliesMark(cut[s], c, index[c])
    /\ UNCHANGED <<rows, life, stage, cut, doomed>>

\* `/resume` while the thread being left has an unanswered tool approval: the
\* runner refuses, after the other thread was read.
RefusedByTheRunner(s, c) ==
    /\ stage[s] = "live"
    /\ held[s][thread[s]] # {}
    /\ CanResume(s, c) /\ Alone(s, index[c])
    /\ Reads(s, index[c])
    /\ UNCHANGED <<shelf, rows, life, place, cut, doomed>>

\* `/clear`: the runner moves onto a fresh thread that no row names.
Clear(s) ==
    /\ stage[s] = "live"
    /\ \E t \in Threads : Fresh(t) /\ thread' = [thread EXCEPT ![s] = t]
    /\ UNCHANGED <<shelf, rows, life, stage, conv, saver, handles, doomed>>

\* The end of a single run: insert its row and bind to it, or fail to.
Record(s) ==
    /\ stage[s] = "asking"
    /\ stage' = [stage EXCEPT ![s] = "done"]
    /\ \/ \E c \in Conversations :
            /\ index[c] = NoRow
            /\ conv' = [conv EXCEPT ![s] = c]
            /\ files' = files \cup {thread[s]}
            /\ IF ~cut[s]
               THEN /\ index' = [index EXCEPT ![c] = thread[s]]
                    /\ records' = [records EXCEPT ![c] = thread[s]]
                    /\ UNCHANGED unmarked
               ELSE \E where \in {"both", "index", "nowhere"} :
                    /\ index' = [index EXCEPT
                                 ![c] = IF where = "nowhere" THEN thread[s] ELSE NoThread]
                    /\ records' = [records EXCEPT
                                   ![c] = IF where = "both" THEN NoThread ELSE thread[s]]
                    /\ unmarked' = IF where = "both" THEN unmarked
                                   ELSE unmarked \cup {thread[s]}
       \/ UNCHANGED <<conv, files, shelf>>
    /\ UNCHANGED <<disk, old, life, thread, saver, handles, doomed>>
-----------------------------------------------------------------------------
(* Retention, and what happens to processes.                                 *)

\* Mutant: what no row names is taken at any age.
UnaddressableAtOnce(excluded) ==
    {t \in Threads \ excluded : disk[t] # {} /\ ~Named(t)}

\* findUnaddressableThreads: old enough, named by no row, not excluded.
Unaddressable(excluded) ==
    {t \in Threads \ excluded : disk[t] # {} /\ ~Named(t) /\ t \in old}

\* The orderly close selects what it will sweep (nothing when the index does
\* not open); the saver excludes the threads it has written.
Close(s) ==
    /\ stage[s] \in {"live", "done"}
    /\ stage' = [stage EXCEPT ![s] = "closing"]
    /\ \E chosen \in {{}, Unaddressable(written[s])} :
            doomed' = [doomed EXCEPT ![s] = chosen]
    /\ UNCHANGED <<shelf, rows, life, thread, conv, saver, handles>>

\* `gth history prune --yes`: the conversations inside the bounds the person
\* typed, and what is unaddressable.
Prune ==
    /\ doomed[Person] = {}
    /\ \E bounds \in SUBSET {t \in Threads : Named(t) /\ disk[t] # {}} :
            doomed' = [doomed EXCEPT ![Person] = bounds \cup Unaddressable({})]
    /\ doomed' # doomed
    /\ UNCHANGED <<shelf, rows, life, place, saver, handles>>

\* removeThreadState takes the next thread: it unlinks the file, or deletes
\* the rows when the file must or will stay, or fails.
Remove(a, t) ==
    /\ t \in doomed[a]
    /\ doomed' = [doomed EXCEPT ![a] = @ \ {t}]
    /\ \/ /\ disk[t] # {}
          /\ disk' = [disk EXCEPT ![t] = {}] /\ old' = old \ {t}
          /\ \/ /\ files' = files \ {t}
                /\ lost' = [u \in Sessions |->
                                IF t \in open[u] THEN lost[u] \cup {t} ELSE lost[u]]
             \/ UNCHANGED <<files, lost>>
       \/ UNCHANGED <<rows, lost>>
    /\ UNCHANGED <<shelf, life, place, saver, open>>

\* The process is gone: at the end of its close, by a signal (the exit hooks
\* close the files and sweep nothing), or by a crash.
Gone(s) ==
    /\ Up(s)
    /\ stage' = [stage EXCEPT ![s] = "off"]
    /\ thread' = [thread EXCEPT ![s] = NoThread]
    /\ conv' = [conv EXCEPT ![s] = NoConversation]
    /\ cut' = [cut EXCEPT ![s] = FALSE]
    /\ held' = [held EXCEPT ![s] = [t \in Threads |-> {}]]
    /\ written' = [written EXCEPT ![s] = {}]
    /\ open' = [open EXCEPT ![s] = {}] /\ lost' = [lost EXCEPT ![s] = {}]
    /\ doomed' = [doomed EXCEPT ![s] = {}]
    /\ UNCHANGED <<shelf, rows, life>>

\* `gth history rebuild`, run with no session open as its help asks: the
\* index is made again from the record files.
Rebuild ==
    /\ \A s \in Sessions : ~Up(s)
    /\ index # records
    /\ index' = records
    /\ UNCHANGED <<records, unmarked, rows, life, place, saver, handles, doomed>>

\* A day passes: every checkpoint is older than the grace window, save those
\* of the sessions that have taken a step since.
DayPasses ==
    /\ old' = {t \in Threads : disk[t] # {} /\
                 ~(Attended /\ \E s \in Sessions : Up(s) /\ thread[s] = t)} \cup old
    /\ old' # old
    /\ UNCHANGED <<shelf, files, disk, life, place, saver, handles, doomed>>

Next ==
    \/ \E s \in Sessions :
        \/ StartChat(s) \/ StartAsk(s) \/ Step(s) \/ Clear(s) \/ Record(s)
        \/ Close(s) \/ Gone(s)
        \/ \E c \in Conversations :
            BootResume(s, c) \/ Resume(s, c) \/ RefusedByTheRunner(s, c)
    \/ \E a \in Sessions \cup {Person}, t \in Threads : Remove(a, t)
    \/ Prune \/ Rebuild \/ DayPasses

Spec == Init /\ [][Next]_vars
-----------------------------------------------------------------------------
(* What a resume may rely on.                                                *)

\* The conversation a resume would load, now and from whichever process, is
\* the whole of it, whatever writes failed, processes died, files were pruned
\* or indexes rebuilt before: a truncated one is refused.  Excused are the
\* threads whose conversation could not be cut.
ResumeIsWhole ==
    \A s \in Sessions, c \in Conversations :
        /\ stage[s] \in {"off", "live"} /\ CanResume(s, c) /\ Alone(s, index[c])
        => Latest(s, index[c]) = told[index[c]] \/ index[c] \in unmarked

\* The running session's graph reads back every step of its conversation,
\* whatever happened to the thread's file: the mirror is enough.
RunningConversationIsRemembered ==
    \A s \in Sessions :
        Up(s) => Latest(s, thread[s]) = told[thread[s]] \/ thread[s] \in unmarked

\* A session that has stopped writing leaves no row naming the thread it is
\* on, so a step it takes is never missing from what another may resume.
DegradedSessionsAreUnlinked ==
    \A s \in Sessions, c \in Conversations :
        /\ Up(s) /\ cut[s] /\ index[c] = thread[s]
        => thread[s] \in unmarked

\* The automatic sweep takes only what nobody can reach: when it removes a
\* thread no conversation names it any more, and no session that still saves
\* is on it, though the selection was made earlier.
SweepsTakeOnlyTheUnreachable ==
    [][\A s \in Sessions, t \in Threads :
        /\ t \in doomed[s] /\ t \notin doomed'[s] /\ disk[t] # {} /\ disk'[t] = {}
        => /\ ~Named(t)
           /\ \A u \in Sessions : Up(u) /\ ~cut[u] => thread[u] # t]_vars
=============================================================================
