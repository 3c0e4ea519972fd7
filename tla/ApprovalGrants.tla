--------------------------- MODULE ApprovalGrants ---------------------------
(***************************************************************************)
(* The answers a user asked to be remembered: one list of approval entries *)
(* (the saved approvals, or the saved refusals), held in three places.     *)
(*                                                                         *)
(*   disk       the JSON file both kinds of list are saved in              *)
(*   store[s]   what process s read from that file and has written back    *)
(*              (PersistedApprovalGrants)                                  *)
(*   ledger[s]  what process s remembers on its own account, each entry    *)
(*              with the lifetime it got (ApprovalGrantStore)              *)
(*                                                                         *)
(* A call is allowed or refused by the union of store and ledger, and the  *)
(* user is told after every answer whether it was saved or lasts for the   *)
(* session only.  Writes may fail, the file may be edited by hand, and     *)
(* nothing keeps two processes from using the same file.                   *)
(***************************************************************************)
EXTENDS Naturals

CONSTANTS
    Sessions,       \* processes that may open the file
    Entries,        \* approval entries, identified by grantKey
    Migrates,       \* legacyPrefixMigration: TRUE for the approvals file
    Exclusive,      \* TRUE: one process at a time uses the file
    TornWrites,     \* TRUE: a process may die inside writeFileSync
    EditsWhileOpen  \* TRUE: the user edits the file under a live process

ASSUME FlagsAssumption ==
    {Migrates, Exclusive, TornWrites, EditsWhileOpen} \subseteq BOOLEAN

VARIABLES
    disk,      \* the file: its format and the entries it names
    store,     \* per process: the store backed by the file
    ledger,    \* per process: entry -> lifetime in the in-memory store
    live,      \* processes that are running
    promised   \* history: entries the user was told are saved

vars == <<disk, store, ledger, live, promised>>

Formats   == {"absent", "v1", "v2", "damaged"}
Lifetimes == {"none", "session", "always"}

\* A damaged file is one the loader cannot use: its text does not parse or
\* its lists sit under keys no version wrote.
Files == {f \in [format : Formats, grants : SUBSET Entries] :
            f.format \in {"absent", "damaged"} => f.grants = {}}

Damaged == [format |-> "damaged", grants |-> {}]

Stores == [loaded : BOOLEAN, readable : BOOLEAN,
           grants : SUBSET Entries, inSync : BOOLEAN]

NotLoaded == [loaded |-> FALSE, readable |-> FALSE,
              grants |-> {}, inSync |-> FALSE]

NoGrants == [e \in Entries |-> "none"]

TypeOK ==
    /\ disk \in Files
    /\ store \in [Sessions -> Stores]
    /\ ledger \in [Sessions -> [Entries -> Lifetimes]]
    /\ live \subseteq Sessions
    /\ promised \subseteq Entries

Init ==
    /\ disk \in Files
    /\ store = [s \in Sessions |-> NotLoaded]
    /\ ledger = [s \in Sessions |-> NoGrants]
    /\ live = {}
    /\ promised = disk.grants

-----------------------------------------------------------------------------
(* One read of the file. *)

\* The file is a v1 file and this list rewrites it as v2.
IsMigration == disk.format = "v1" /\ Migrates

\* reportLostToShape: without the migration a v1 file that holds prefixes is
\* content this store cannot read.
ReadsFile ==
    /\ disk.format # "damaged"
    /\ disk.format = "v1" => Migrates \/ disk.grants = {}

Recovered == IF ReadsFile THEN disk.grants ELSE {}

FirstRead == [loaded |-> TRUE, readable |-> ReadsFile,
              grants |-> Recovered, inSync |-> ReadsFile]

(* tryPersist: refused when the read failed, otherwise the whole list. *)

\* Mutant: the write is not refused when the read failed.
CanWriteUnread(st, writeOk) == writeOk

CanWrite(st, writeOk) == st.readable /\ writeOk

Written(st, writeOk) ==
    IF CanWrite(st, writeOk)
    THEN [format |-> "v2", grants |-> st.grants]
    ELSE disk

Persisted(st, writeOk) == [st EXCEPT !.inSync = CanWrite(st, writeOk)]

-----------------------------------------------------------------------------
Start(s) ==
    /\ s \notin live
    /\ Exclusive => live = {}
    /\ live' = live \cup {s}
    /\ UNCHANGED <<disk, store, ledger, promised>>

\* The process ends; what only it held is gone.
Exit(s) ==
    /\ s \in live
    /\ live' = live \ {s}
    /\ store' = [store EXCEPT ![s] = NotLoaded]
    /\ ledger' = [ledger EXCEPT ![s] = NoGrants]
    /\ UNCHANGED <<disk, promised>>

\* getPersistedGrants / getPersistedDenials: the first use reads the file,
\* and a migration writes it back in the same call.
Load(s, writeOk) ==
    /\ s \in live
    /\ ~store[s].loaded
    /\ IF IsMigration
       THEN /\ disk' = Written(FirstRead, writeOk)
            /\ store' = [store EXCEPT ![s] = Persisted(FirstRead, writeOk)]
       ELSE /\ disk' = disk
            /\ store' = [store EXCEPT ![s] = FirstRead]
    /\ UNCHANGED <<ledger, live, promised>>

(* PersistedApprovalGrants.add: a duplicate writes nothing; an entry that   *)
(* could not be written is taken back out of the store.                    *)

\* Mutant: asks whether the file can be written, not whether it was.
AddSavesIfReadable(s, e, writeOk) == store[s].readable

AddSaves(s, e, writeOk) ==
    IF e \in store[s].grants
    THEN store[s].inSync
    ELSE CanWrite(store[s], writeOk)

\* Mutant: the entry stays in the store when its write failed.
AddWithoutTakeBack(s, e, writeOk) ==
    LET with == [store[s] EXCEPT !.grants = @ \cup {e}]
    IN  IF e \in store[s].grants
        THEN UNCHANGED <<disk, store>>
        ELSE /\ disk' = Written(with, writeOk)
             /\ store' = [store EXCEPT ![s] = Persisted(with, writeOk)]

\* Mutant: a failed write is taken for an unreadable file.
AddGivesUp(s, e, writeOk) ==
    LET with == [store[s] EXCEPT !.grants = @ \cup {e}]
    IN  IF e \in store[s].grants
        THEN UNCHANGED <<disk, store>>
        ELSE /\ disk' = Written(with, writeOk)
             /\ store' = [store EXCEPT ![s] =
                            IF CanWrite(with, writeOk)
                            THEN Persisted(with, writeOk)
                            ELSE [NotLoaded EXCEPT !.loaded = TRUE]]

Add(s, e, writeOk) ==
    LET with == [store[s] EXCEPT !.grants = @ \cup {e}]
    IN  IF e \in store[s].grants
        THEN UNCHANGED <<disk, store>>
        ELSE /\ disk' = Written(with, writeOk)
             /\ store' = [store EXCEPT ![s] =
                            IF CanWrite(with, writeOk)
                            THEN Persisted(with, writeOk)
                            ELSE Persisted(store[s], FALSE)]

\* ApprovalGrantStore.add: an entry already held keeps its lifetime.
Remember(s, e, lifetime) ==
    ledger' = [ledger EXCEPT ![s][e] = IF @ = "none" THEN lifetime ELSE @]

\* recordApproval / recordDenial for an answer with scope "session".
RecordForSession(s, e) ==
    /\ s \in live
    /\ store[s].loaded
    /\ Remember(s, e, "session")
    /\ UNCHANGED <<disk, store, live, promised>>

\* recordApproval / recordDenial for an answer with scope "always": the
\* lifetime told to the user is the one the write achieved.
RecordAlways(s, e, writeOk) ==
    /\ s \in live
    /\ store[s].loaded
    /\ Add(s, e, writeOk)
    /\ IF AddSaves(s, e, writeOk)
       THEN /\ Remember(s, e, "always")
            /\ promised' = promised \cup {e}
       ELSE /\ Remember(s, e, "session")
            /\ promised' = promised
    /\ UNCHANGED live

\* liftRefusal, and invalidateWeakenedGrants on the approvals side: out of
\* the ledger, and out of the file when the store holds it.
Lift(s, e, writeOk) ==
    LET without == [store[s] EXCEPT !.grants = @ \ {e}]
    IN  /\ s \in live
        /\ store[s].loaded
        /\ e \in store[s].grants \/ ledger[s][e] # "none"
        /\ ledger' = [ledger EXCEPT ![s][e] = "none"]
        /\ IF e \in store[s].grants
           THEN /\ disk' = Written(without, writeOk)
                /\ store' = [store EXCEPT ![s] = Persisted(without, writeOk)]
           ELSE UNCHANGED <<disk, store>>
        /\ promised' = promised \ {e}
        /\ UNCHANGED live

\* resumeConversation: the session's own answers are replaced by those of
\* the conversation it resumes; what is saved in the project stays.
Resume(s, resumed) ==
    /\ s \in live
    /\ ledger' = [ledger EXCEPT ![s] =
                    [e \in Entries |->
                        CASE @[e] = "always" -> "always"
                          [] @[e] # "always" /\ e \in resumed -> "session"
                          [] OTHER -> "none"]]
    /\ UNCHANGED <<disk, store, live, promised>>

\* The process dies inside writeFileSync, which truncates before it writes.
TornWrite(s) ==
    /\ TornWrites
    /\ s \in live
    /\ store[s].loaded /\ store[s].readable
    /\ disk' = Damaged
    /\ live' = live \ {s}
    /\ store' = [store EXCEPT ![s] = NotLoaded]
    /\ ledger' = [ledger EXCEPT ![s] = NoGrants]
    /\ UNCHANGED promised

\* The user edits, breaks or repairs the file.  What they take out they no
\* longer expect to find.
HandEdit(f) ==
    /\ EditsWhileOpen \/ live = {}
    /\ disk' = f
    /\ promised' = IF f.format = "damaged" THEN promised
                                           ELSE promised \cap f.grants
    /\ UNCHANGED <<store, ledger, live>>

SessionStep(s) ==
    \/ Start(s)
    \/ Exit(s)
    \/ TornWrite(s)
    \/ \E resumed \in SUBSET Entries : Resume(s, resumed)
    \/ \E e \in Entries : RecordForSession(s, e)
    \/ \E writeOk \in BOOLEAN :
          \/ Load(s, writeOk)
          \/ \E e \in Entries : RecordAlways(s, e, writeOk)
          \/ \E e \in Entries : Lift(s, e, writeOk)

Next ==
    \/ \E s \in Sessions : SessionStep(s)
    \/ \E f \in Files : HandEdit(f)

Spec == Init /\ [][Next]_vars

-----------------------------------------------------------------------------
\* What decides calls in process s.
InForce(s) ==
    store[s].grants \cup {e \in Entries : ledger[s][e] # "none"}

(* A store whose file could not be read holds nothing: the invariant that   *)
(* PersistedApprovalGrants.remove relies on "by construction" so that a     *)
(* refused write can never strand a removal half-done.                     *)
UnreadableStoreIsEmpty ==
    \A s \in Sessions : ~store[s].readable => store[s].grants = {}

(* inSync is an honest answer to "has the file received what this store    *)
(* holds": with one process and no edits underneath it, the file names     *)
(* exactly the store's entries.  PersistedApprovalGrants.add answers a      *)
(* duplicate from this flag, after any sequence of failed writes.          *)
SyncedMeansSaved ==
    \A s \in live : store[s].loaded /\ store[s].inSync =>
        disk.format # "damaged" /\ disk.grants = store[s].grants

(* An answer the user was told is saved to the project, and has not lifted  *)
(* or edited out, is named by the file whenever the file can be read.      *)
PromiseKept ==
    disk.format # "damaged" => promised \subseteq disk.grants

(* A write never saves more than the user was promised: an entry enters     *)
(* the file only in the step that tells the user it is saved, so an answer  *)
(* whose write failed is not slipped in by the next successful write.  Like *)
(* PromiseKept, for one process at a time on the file: of two, one writes   *)
(* back what the other has lifted since it read.                           *)
NothingSavedUnasked ==
    [][live # {} /\ disk'.format # "damaged" =>
         disk'.grants \ disk.grants \subseteq promised']_vars

(* While a process is running, a file it cannot use (text that does not     *)
(* parse, or the old format on the refusals side) is left as it was: the   *)
(* only copy of the user's entries is never rewritten.                     *)
UnusableFileIsKept ==
    [][~ReadsFile /\ live # {} => UNCHANGED disk]_vars

(* An entry in force in a process goes out of force there only by being     *)
(* lifted, by resuming another conversation (session lifetimes only) or by  *)
(* the process ending; in particular a failed save leaves it in force.     *)
StaysInForce ==
    [][\A s \in live \cap live' : \A e \in InForce(s) \ InForce(s)' :
         \/ \E writeOk \in BOOLEAN : Lift(s, e, writeOk)
         \/ ledger[s][e] = "session" /\ UNCHANGED <<disk, store, promised>>]_vars
=============================================================================
