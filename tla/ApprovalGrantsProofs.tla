------------------------ MODULE ApprovalGrantsProofs ------------------------
(***************************************************************************)
(* What ApprovalGrants guarantees for every set of entries and processes.  *)
(*                                                                         *)
(* A store the file could not be read into stays empty, whatever shares    *)
(* the file.  What the user is told about saved answers is true as long    *)
(* as one process at a time uses the file and nobody edits it underneath.  *)
(***************************************************************************)
EXTENDS ApprovalGrants, TLAPS

LEMMA CanWriteIsBoolean ==
    ASSUME NEW st \in Stores, NEW w \in BOOLEAN
    PROVE  CanWrite(st, w) \in BOOLEAN
BY DEF Stores, CanWrite

LEMMA PersistedIsStore ==
    ASSUME NEW st \in Stores, NEW w \in BOOLEAN
    PROVE  Persisted(st, w) \in Stores
BY CanWriteIsBoolean DEF Stores, Persisted

LEMMA PersistedFields ==
    ASSUME NEW st \in Stores, NEW w \in BOOLEAN
    PROVE  /\ Persisted(st, w).loaded = st.loaded
           /\ Persisted(st, w).readable = st.readable
           /\ Persisted(st, w).grants = st.grants
           /\ Persisted(st, w).inSync = CanWrite(st, w)
BY DEF Stores, Persisted

LEMMA WrittenIsFile ==
    ASSUME disk \in Files, NEW st \in Stores, NEW w \in BOOLEAN
    PROVE  Written(st, w) \in Files
BY DEF Stores, Files, Formats, Written

LEMMA FirstReadIsStore ==
    ASSUME disk \in Files
    PROVE  FirstRead \in Stores
<1>1. ReadsFile \in BOOLEAN
  BY DEF ReadsFile
<1>2. Recovered \in SUBSET Entries
  BY DEF Recovered, Files
<1>3. QED
  BY <1>1, <1>2 DEF FirstRead, Stores

LEMMA TypeStep ==
    ASSUME TypeOK, [Next]_vars
    PROVE  TypeOK'
<1> USE DEF TypeOK
<1>1. CASE UNCHANGED vars
  BY <1>1 DEF vars
<1>2. ASSUME NEW f \in Files, HandEdit(f) PROVE TypeOK'
  BY <1>2 DEF HandEdit
<1>3. ASSUME NEW s \in Sessions, SessionStep(s) PROVE TypeOK'
  <2>1. CASE Start(s)
    BY <2>1 DEF Start
  <2>2. CASE Exit(s)
    BY <2>2 DEF Exit, NotLoaded, Stores, NoGrants, Lifetimes
  <2>3. CASE TornWrite(s)
    BY <2>3 DEF TornWrite, Damaged, Files, Formats, NotLoaded, Stores,
                NoGrants, Lifetimes
  <2>4. ASSUME NEW resumed \in SUBSET Entries, Resume(s, resumed)
        PROVE TypeOK'
    BY <2>4 DEF Resume, Lifetimes
  <2>5. ASSUME NEW e \in Entries, RecordForSession(s, e) PROVE TypeOK'
    BY <2>5 DEF RecordForSession, Remember, Lifetimes
  <2>6. ASSUME NEW w \in BOOLEAN, Load(s, w) PROVE TypeOK'
    <3>1. /\ FirstRead \in Stores
          /\ Persisted(FirstRead, w) \in Stores
          /\ Written(FirstRead, w) \in Files
      BY FirstReadIsStore, PersistedIsStore, WrittenIsFile DEF TypeOK
    <3>2. QED
      BY <2>6, <3>1 DEF Load
  <2>7. ASSUME NEW w \in BOOLEAN, NEW e \in Entries, RecordAlways(s, e, w)
        PROVE TypeOK'
    <3> DEFINE with == [store[s] EXCEPT !.grants = @ \cup {e}]
    <3>1. store[s] \in Stores /\ with \in Stores
      BY DEF TypeOK, Stores
    <3>2. /\ Persisted(with, w) \in Stores
          /\ Persisted(store[s], FALSE) \in Stores
          /\ Written(with, w) \in Files
      BY <3>1, PersistedIsStore, WrittenIsFile DEF TypeOK
    <3>3. disk' \in Files /\ store' \in [Sessions -> Stores]
      BY <2>7, <3>2 DEF RecordAlways, Add
    <3>4. /\ ledger' \in [Sessions -> [Entries -> Lifetimes]]
          /\ live' \subseteq Sessions
          /\ promised' \subseteq Entries
      BY <2>7 DEF RecordAlways, Remember, Lifetimes
    <3>5. QED
      BY <3>3, <3>4
  <2>8. ASSUME NEW w \in BOOLEAN, NEW e \in Entries, Lift(s, e, w)
        PROVE TypeOK'
    <3> DEFINE without == [store[s] EXCEPT !.grants = @ \ {e}]
    <3>1. without \in Stores
      BY DEF TypeOK, Stores
    <3>2. /\ Persisted(without, w) \in Stores
          /\ Written(without, w) \in Files
      BY <3>1, PersistedIsStore, WrittenIsFile DEF TypeOK
    <3>3. disk' \in Files /\ store' \in [Sessions -> Stores]
      BY <2>8, <3>2 DEF Lift
    <3>4. /\ ledger' \in [Sessions -> [Entries -> Lifetimes]]
          /\ live' \subseteq Sessions
          /\ promised' \subseteq Entries
      BY <2>8 DEF Lift, Lifetimes
    <3>5. QED
      BY <3>3, <3>4
  <2>9. QED
    BY <1>3, <2>1, <2>2, <2>3, <2>4, <2>5, <2>6, <2>7, <2>8
       DEF SessionStep
<1>4. QED
  BY <1>1, <1>2, <1>3 DEF Next

(* The type invariant: every reachable state is made of files, stores and   *)
(* lifetimes the code can build.                                           *)
THEOREM TypeCorrect == Spec => []TypeOK
<1>1. Init => TypeOK
  BY DEF Init, TypeOK, Stores, NotLoaded, NoGrants, Lifetimes, Files
<1>2. TypeOK /\ [Next]_vars => TypeOK'
  BY TypeStep
<1>3. QED
  BY <1>1, <1>2, PTL DEF Spec

-----------------------------------------------------------------------------
(* The invariant PersistedApprovalGrants.remove relies on, under every      *)
(* interleaving of processes, hand edits and failed or torn writes.        *)
THEOREM UnreadableStoresStayEmpty == Spec => []UnreadableStoreIsEmpty
<1>1. Init => UnreadableStoreIsEmpty
  BY DEF Init, UnreadableStoreIsEmpty, NotLoaded
<1>2. TypeOK /\ UnreadableStoreIsEmpty /\ [Next]_vars
        => UnreadableStoreIsEmpty'
  <2> SUFFICES ASSUME TypeOK, UnreadableStoreIsEmpty, [Next]_vars
               PROVE UnreadableStoreIsEmpty'
    OBVIOUS
  <2> USE DEF UnreadableStoreIsEmpty, TypeOK, Stores
  <2>1. CASE UNCHANGED vars
    BY <2>1 DEF vars
  <2>2. ASSUME NEW f \in Files, HandEdit(f) PROVE UnreadableStoreIsEmpty'
    BY <2>2 DEF HandEdit
  <2>3. ASSUME NEW s \in Sessions, SessionStep(s)
        PROVE UnreadableStoreIsEmpty'
    <3>1. CASE Start(s)
      BY <3>1 DEF Start
    <3>2. CASE Exit(s)
      BY <3>2 DEF Exit, NotLoaded
    <3>3. CASE TornWrite(s)
      BY <3>3 DEF TornWrite, NotLoaded
    <3>4. ASSUME NEW resumed \in SUBSET Entries, Resume(s, resumed)
          PROVE UnreadableStoreIsEmpty'
      BY <3>4 DEF Resume
    <3>5. ASSUME NEW e \in Entries, RecordForSession(s, e)
          PROVE UnreadableStoreIsEmpty'
      BY <3>5 DEF RecordForSession
    <3>6. ASSUME NEW w \in BOOLEAN, Load(s, w) PROVE UnreadableStoreIsEmpty'
      <4>1. FirstRead \in Stores
        BY FirstReadIsStore
      <4>2. ~FirstRead.readable => FirstRead.grants = {}
        BY DEF FirstRead, Recovered
      <4>3. ~Persisted(FirstRead, w).readable
              => Persisted(FirstRead, w).grants = {}
        BY <4>1, <4>2, PersistedFields
      <4>4. QED
        BY <3>6, <4>2, <4>3 DEF Load
    <3>7. ASSUME NEW w \in BOOLEAN, NEW e \in Entries, RecordAlways(s, e, w)
          PROVE UnreadableStoreIsEmpty'
      <4> DEFINE with == [store[s] EXCEPT !.grants = @ \cup {e}]
      <4>1. store[s] \in Stores /\ with \in Stores
        OBVIOUS
      <4>2. CASE e \in store[s].grants
        BY <3>7, <4>2 DEF RecordAlways, Add
      <4>3. CASE e \notin store[s].grants /\ CanWrite(with, w)
        <5>1. store' = [store EXCEPT ![s] = Persisted(with, w)]
          BY <3>7, <4>3 DEF RecordAlways, Add
        <5>2. Persisted(with, w).readable
          BY <4>1, <4>3, PersistedFields DEF CanWrite
        <5>3. QED
          BY <5>1, <5>2
      <4>4. CASE e \notin store[s].grants /\ ~CanWrite(with, w)
        <5>1. store' = [store EXCEPT ![s] = Persisted(store[s], FALSE)]
          BY <3>7, <4>4 DEF RecordAlways, Add
        <5>2. /\ Persisted(store[s], FALSE).readable = store[s].readable
              /\ Persisted(store[s], FALSE).grants = store[s].grants
          BY <4>1, PersistedFields
        <5>3. QED
          BY <5>1, <5>2
      <4>5. QED
        BY <4>2, <4>3, <4>4
    <3>8. ASSUME NEW w \in BOOLEAN, NEW e \in Entries, Lift(s, e, w)
          PROVE UnreadableStoreIsEmpty'
      BY <3>8 DEF Lift, Persisted
    <3>9. QED
      BY <2>3, <3>1, <3>2, <3>3, <3>4, <3>5, <3>6, <3>7, <3>8
         DEF SessionStep
  <2>4. QED
    BY <2>1, <2>2, <2>3 DEF Next
<1>3. QED
  BY <1>1, <1>2, TypeCorrect, PTL DEF Spec

-----------------------------------------------------------------------------
(* One process at a time: the inductive invariant.  The step that could     *)
(* break a promise is a write by a store that does not know of it, so the  *)
(* invariant says every readable store knows every promise, and that no    *)
(* store names an entry the file does not.                                 *)

AtMostOneLive == \A s, t \in live : s = t

StoppedIsNotLoaded == \A s \in Sessions \ live : store[s] = NotLoaded

StoreKnowsPromises ==
    \A s \in live : store[s].loaded /\ store[s].readable =>
        /\ ReadsFile
        /\ promised \subseteq store[s].grants
        /\ store[s].grants \subseteq disk.grants

InSyncIsReadable == \A s \in Sessions : store[s].inSync => store[s].readable

IInv ==
    /\ TypeOK
    /\ UnreadableStoreIsEmpty
    /\ AtMostOneLive
    /\ StoppedIsNotLoaded
    /\ InSyncIsReadable
    /\ StoreKnowsPromises
    /\ SyncedMeansSaved
    /\ PromiseKept

LEMMA InitIInv == Init => IInv
  BY DEF Init, IInv, TypeOK, UnreadableStoreIsEmpty, AtMostOneLive,
         StoppedIsNotLoaded, InSyncIsReadable, StoreKnowsPromises,
         SyncedMeansSaved, PromiseKept, Stores, NotLoaded, NoGrants,
         Lifetimes, Files

USE DEF AtMostOneLive, StoppedIsNotLoaded, StoreKnowsPromises, InSyncIsReadable

\* What a step has to establish when it changes the file or the store of the
\* one process that is running.
LEMMA OneProcessStep ==
    ASSUME TypeOK, AtMostOneLive, StoppedIsNotLoaded,
           TypeOK',
           NEW s \in live, live' = live,
           NEW st \in Stores, store' = [store EXCEPT ![s] = st],
           ~st.readable => st.grants = {},
           st.inSync => st.readable,
           st.loaded /\ st.readable =>
                /\ ReadsFile'
                /\ promised' \subseteq st.grants
                /\ st.grants \subseteq disk'.grants,
           st.loaded /\ st.inSync =>
                disk'.format # "damaged" /\ disk'.grants = st.grants,
           disk'.format # "damaged" => promised' \subseteq disk'.grants
    PROVE  IInv'
<1>1. \A t \in Sessions : store'[t] = IF t = s THEN st ELSE NotLoaded
  BY DEF TypeOK
<1>2. QED
  BY <1>1 DEF IInv, TypeOK, UnreadableStoreIsEmpty, SyncedMeansSaved,
              PromiseKept, NotLoaded

\* The same when the step wrote the file.
LEMMA SavingStep ==
    ASSUME TypeOK, AtMostOneLive, StoppedIsNotLoaded,
           TypeOK',
           NEW s \in live, live' = live,
           NEW st \in Stores, store' = [store EXCEPT ![s] = st],
           st.readable,
           disk' = [format |-> "v2", grants |-> st.grants],
           promised' \subseteq st.grants
    PROVE  IInv'
<1>1. disk'.format = "v2" /\ disk'.grants = st.grants
  OBVIOUS
<1>2. ReadsFile'
  BY <1>1 DEF ReadsFile
<1>3. QED
  BY <1>1, <1>2, OneProcessStep

\* Steps that touch only the ledger.
LEMMA LedgerStep ==
    ASSUME IInv, TypeOK', UNCHANGED <<disk, store, live, promised>>
    PROVE  IInv'
BY DEF IInv, UnreadableStoreIsEmpty, SyncedMeansSaved, PromiseKept, ReadsFile

LEMMA LoadStep ==
    ASSUME IInv, TypeOK', NEW s \in Sessions, NEW w \in BOOLEAN, Load(s, w)
    PROVE  IInv'
<1> USE DEF IInv
<1>1. /\ FirstRead \in Stores
      /\ FirstRead.loaded
      /\ FirstRead.readable = ReadsFile
      /\ FirstRead.inSync = ReadsFile
      /\ FirstRead.grants = Recovered
  BY FirstReadIsStore DEF FirstRead, TypeOK
<1>2. s \in live /\ live' = live /\ promised' = promised
  BY DEF Load
<1>3. ReadsFile => disk.format # "damaged"
  BY DEF ReadsFile
<1>4. CASE ~IsMigration
  <2>1. disk' = disk /\ store' = [store EXCEPT ![s] = FirstRead]
    BY <1>4 DEF Load
  <2>2. ReadsFile' = ReadsFile
    BY <2>1 DEF ReadsFile
  <2>3. QED
    BY <1>1, <1>2, <1>3, <2>1, <2>2, OneProcessStep
       DEF Recovered, PromiseKept
<1>5. CASE IsMigration
  <2> DEFINE p == Persisted(FirstRead, w)
  <2>1. disk' = Written(FirstRead, w) /\ store' = [store EXCEPT ![s] = p]
    BY <1>5 DEF Load
  <2>2. /\ p \in Stores
        /\ p.loaded
        /\ p.readable = FirstRead.readable
        /\ p.grants = FirstRead.grants
        /\ p.inSync = CanWrite(FirstRead, w)
    BY <1>1, PersistedFields, PersistedIsStore
  <2>3. ReadsFile
    BY <1>5 DEF IsMigration, ReadsFile
  <2>4. CASE CanWrite(FirstRead, w)
    <3>1. p.readable /\ p.grants = disk.grants
      BY <1>1, <2>2, <2>3 DEF Recovered
    <3>2. disk' = [format |-> "v2", grants |-> p.grants]
      BY <2>1, <2>2, <2>4 DEF Written
    <3>3. promised' \subseteq p.grants
      BY <1>2, <1>3, <2>3, <3>1 DEF PromiseKept
    <3> HIDE DEF p
    <3>4. QED
      BY <1>2, <2>1, <2>2, <3>1, <3>2, <3>3, SavingStep
  <2>5. CASE ~CanWrite(FirstRead, w)
    <3>1. disk' = disk
      BY <2>1, <2>5 DEF Written
    <3>2. ReadsFile'
      BY <2>3, <3>1 DEF ReadsFile
    <3>3. p.readable /\ ~p.inSync /\ p.grants = disk.grants
      BY <1>1, <2>2, <2>3, <2>5 DEF Recovered
    <3> HIDE DEF p
    <3>4. QED
      BY <1>2, <1>3, <2>1, <2>2, <2>3, <3>1, <3>2, <3>3, OneProcessStep
         DEF PromiseKept
  <2>6. QED
    BY <2>4, <2>5
<1>6. QED
  BY <1>4, <1>5

LEMMA RecordAlwaysStep ==
    ASSUME IInv, TypeOK', NEW s \in Sessions, NEW w \in BOOLEAN,
           NEW e \in Entries, RecordAlways(s, e, w)
    PROVE  IInv'
<1> DEFINE with == [store[s] EXCEPT !.grants = @ \cup {e}]
<1> USE DEF IInv
<1>1. s \in live /\ live' = live /\ store[s].loaded
  BY DEF RecordAlways
<1>2. /\ store[s] \in Stores
      /\ with \in Stores
      /\ with.loaded = store[s].loaded
      /\ with.readable = store[s].readable
      /\ with.grants = store[s].grants \cup {e}
  BY DEF TypeOK, Stores
<1>3. CASE e \in store[s].grants
  <2>1. disk' = disk /\ store' = store
    BY <1>3 DEF RecordAlways, Add
  <2>2. promised' = IF store[s].inSync THEN promised \cup {e} ELSE promised
    BY <1>3 DEF RecordAlways, AddSaves
  <2>3. ReadsFile' = ReadsFile /\ store' = [store EXCEPT ![s] = store[s]]
    BY <2>1 DEF ReadsFile, TypeOK
  <2>4. disk'.format # "damaged" => promised' \subseteq disk'.grants
    BY <1>1, <1>3, <2>1, <2>2 DEF PromiseKept, SyncedMeansSaved
  <2>5. /\ ~store[s].readable => store[s].grants = {}
        /\ store[s].inSync => store[s].readable
        /\ store[s].readable =>
              /\ ReadsFile'
              /\ promised' \subseteq store[s].grants
              /\ store[s].grants \subseteq disk'.grants
    BY <1>1, <1>3, <2>1, <2>2, <2>3 DEF UnreadableStoreIsEmpty
  <2>6. store[s].inSync => disk'.format # "damaged" /\ disk'.grants = store[s].grants
    BY <1>1, <2>1 DEF SyncedMeansSaved
  <2>7. QED
    BY <1>1, <1>2, <2>3, <2>4, <2>5, <2>6, OneProcessStep
<1>4. CASE e \notin store[s].grants /\ CanWrite(with, w)
  <2> DEFINE p == Persisted(with, w)
  <2>1. disk' = Written(with, w) /\ store' = [store EXCEPT ![s] = p]
    BY <1>4 DEF RecordAlways, Add
  <2>2. p \in Stores /\ p.readable /\ p.grants = store[s].grants \cup {e}
    BY <1>2, <1>4, PersistedFields, PersistedIsStore DEF CanWrite
  <2>3. disk' = [format |-> "v2", grants |-> p.grants]
    BY <1>2, <1>4, <2>1, <2>2 DEF Written
  <2>4. promised' \subseteq p.grants
    <3>1. promised' \subseteq promised \cup {e}
      BY DEF RecordAlways
    <3>2. promised \subseteq store[s].grants
      BY <1>1, <1>2, <1>4 DEF CanWrite
    <3>3. QED
      BY <2>2, <3>1, <3>2
  <2> HIDE DEF p
  <2>5. QED
    BY <1>1, <2>1, <2>2, <2>3, <2>4, SavingStep
<1>5. CASE e \notin store[s].grants /\ ~CanWrite(with, w)
  <2> DEFINE p == Persisted(store[s], FALSE)
  <2>1. disk' = disk /\ store' = [store EXCEPT ![s] = p]
    BY <1>5 DEF RecordAlways, Add, Written
  <2>2. /\ p \in Stores
        /\ p.loaded = store[s].loaded
        /\ p.readable = store[s].readable
        /\ p.grants = store[s].grants
        /\ ~p.inSync
    BY <1>2, PersistedFields, PersistedIsStore DEF CanWrite
  <2>3. ~CanWrite(store[s], w)
    BY <1>2, <1>5 DEF CanWrite
  <2>4. promised' = promised
    BY <1>5, <2>3 DEF RecordAlways, AddSaves
  <2>5. ReadsFile' = ReadsFile
    BY <2>1 DEF ReadsFile
  <2> HIDE DEF p
  <2>6. QED
    BY <1>1, <1>2, <2>1, <2>2, <2>4, <2>5, OneProcessStep
       DEF TypeOK, UnreadableStoreIsEmpty, PromiseKept
<1>6. QED
  BY <1>3, <1>4, <1>5

LEMMA LiftStep ==
    ASSUME IInv, TypeOK', NEW s \in Sessions, NEW w \in BOOLEAN,
           NEW e \in Entries, Lift(s, e, w)
    PROVE  IInv'
<1> DEFINE without == [store[s] EXCEPT !.grants = @ \ {e}]
<1> DEFINE p == Persisted(without, w)
<1> USE DEF IInv
<1>1. /\ s \in live /\ live' = live /\ store[s].loaded
      /\ promised' = promised \ {e}
  BY DEF Lift
<1>2. /\ store[s] \in Stores
      /\ without \in Stores
      /\ without.loaded = store[s].loaded
      /\ without.readable = store[s].readable
      /\ without.grants = store[s].grants \ {e}
  BY DEF TypeOK, Stores
<1>3. /\ p \in Stores
      /\ p.loaded = store[s].loaded
      /\ p.readable = store[s].readable
      /\ p.grants = store[s].grants \ {e}
      /\ p.inSync = CanWrite(without, w)
  BY <1>2, PersistedFields, PersistedIsStore
<1>4. CASE e \notin store[s].grants
  <2>1. disk' = disk /\ store' = store
    BY <1>4 DEF Lift
  <2>2. ReadsFile' = ReadsFile /\ store' = [store EXCEPT ![s] = store[s]]
    BY <2>1 DEF ReadsFile, TypeOK
  <2>3. QED
    BY <1>1, <1>2, <2>1, <2>2, OneProcessStep
       DEF TypeOK, UnreadableStoreIsEmpty, SyncedMeansSaved, PromiseKept
<1>5. CASE e \in store[s].grants
  <2>1. disk' = Written(without, w) /\ store' = [store EXCEPT ![s] = p]
    BY <1>5 DEF Lift
  <2>2. store[s].readable
    BY <1>1, <1>5 DEF UnreadableStoreIsEmpty, TypeOK
  <2>3. /\ ReadsFile
        /\ promised \subseteq store[s].grants
        /\ store[s].grants \subseteq disk.grants
    BY <1>1, <2>2
  <2>4. CASE CanWrite(without, w)
    <3>1. disk' = [format |-> "v2", grants |-> p.grants]
      BY <1>2, <1>3, <2>1, <2>4 DEF Written
    <3> HIDE DEF p
    <3>2. QED
      BY <1>1, <1>3, <2>1, <2>2, <2>3, <3>1, SavingStep
  <2>5. CASE ~CanWrite(without, w)
    <3>1. disk' = disk
      BY <2>1, <2>5 DEF Written
    <3>2. ReadsFile' = ReadsFile
      BY <3>1 DEF ReadsFile
    <3> HIDE DEF p
    <3>3. QED
      BY <1>1, <1>3, <2>1, <2>2, <2>3, <2>5, <3>1, <3>2, OneProcessStep
         DEF PromiseKept
  <2>6. QED
    BY <2>4, <2>5
<1>6. QED
  BY <1>4, <1>5

LEMMA IInvIsInductive ==
    ASSUME Exclusive = TRUE, EditsWhileOpen = FALSE,
           IInv, [Next]_vars
    PROVE  IInv'
<1>1. TypeOK'
  BY TypeStep DEF IInv
<1> USE <1>1
<1>2. CASE UNCHANGED vars
  BY <1>2 DEF vars, IInv, TypeOK, UnreadableStoreIsEmpty, SyncedMeansSaved,
              PromiseKept, ReadsFile
<1>3. ASSUME NEW f \in Files, HandEdit(f) PROVE IInv'
  <2>1. live = {} /\ live' = {} /\ store' = store
    BY <1>3 DEF HandEdit
  <2>2. PromiseKept'
    BY <1>3 DEF HandEdit, PromiseKept
  <2>3. QED
    BY <2>1, <2>2 DEF IInv, TypeOK, UnreadableStoreIsEmpty, SyncedMeansSaved
<1>4. ASSUME NEW s \in Sessions, SessionStep(s) PROVE IInv'
  <2>1. CASE Start(s)
    <3>1. /\ live = {} /\ live' = {s}
          /\ disk' = disk /\ store' = store /\ promised' = promised
      BY <2>1 DEF Start
    <3>2. \A t \in Sessions : store'[t] = NotLoaded
      BY <3>1 DEF IInv
    <3>3. QED
      BY <3>1, <3>2 DEF IInv, TypeOK, UnreadableStoreIsEmpty,
                        SyncedMeansSaved, PromiseKept, NotLoaded
  <2>2. CASE Exit(s) \/ TornWrite(s)
    <3>1. /\ s \in live /\ live' = live \ {s} /\ promised' = promised
          /\ store' = [store EXCEPT ![s] = NotLoaded]
          /\ disk' \in {disk, Damaged}
      BY <2>2 DEF Exit, TornWrite
    <3>2. live' = {}
      BY <3>1 DEF IInv
    <3>3. \A t \in Sessions : store'[t] = NotLoaded
      BY <3>1, <3>2 DEF IInv, TypeOK
    <3>4. QED
      BY <3>1, <3>2, <3>3 DEF IInv, TypeOK, UnreadableStoreIsEmpty,
                              SyncedMeansSaved, PromiseKept, NotLoaded, Damaged
  <2>3. ASSUME NEW resumed \in SUBSET Entries,
               Resume(s, resumed)
        PROVE  IInv'
    <3>1. UNCHANGED <<disk, store, live, promised>>
      BY <2>3 DEF Resume
    <3>2. QED
      BY <3>1, LedgerStep
  <2>4. ASSUME NEW e \in Entries, RecordForSession(s, e) PROVE IInv'
    <3>1. UNCHANGED <<disk, store, live, promised>>
      BY <2>4 DEF RecordForSession
    <3>2. QED
      BY <3>1, LedgerStep
  <2>5. ASSUME NEW w \in BOOLEAN,
               \/ Load(s, w)
               \/ \E e \in Entries : RecordAlways(s, e, w)
               \/ \E e \in Entries : Lift(s, e, w)
        PROVE  IInv'
    BY <2>5, LoadStep, RecordAlwaysStep, LiftStep
  <2>6. QED
    BY <1>4, <2>1, <2>2, <2>3, <2>4, <2>5 DEF SessionStep
<1>5. QED
  BY <1>2, <1>3, <1>4 DEF Next

(* With one process at a time and nobody editing the file underneath it, an *)
(* answer the user was told is saved is named by the file after any         *)
(* sequence of loads, migrations, answers, lifts, failed writes, torn       *)
(* writes and restarts, and a store's inSync flag never overstates.        *)
THEOREM PromisesAreKept ==
    ASSUME Exclusive = TRUE, EditsWhileOpen = FALSE
    PROVE  Spec => [](PromiseKept /\ SyncedMeansSaved)
<1>1. Init => IInv
  BY InitIInv
<1>2. IInv /\ [Next]_vars => IInv'
  BY IInvIsInductive
<1>3. IInv => PromiseKept /\ SyncedMeansSaved
  BY DEF IInv
<1>4. QED
  BY <1>1, <1>2, <1>3, PTL DEF Spec

(* Under the same conditions a running process never rewrites a file it     *)
(* cannot use, so the only copy of the user's entries stays on disk.       *)
THEOREM UnusableFilesAreKept ==
    ASSUME Exclusive = TRUE, EditsWhileOpen = FALSE
    PROVE  Spec => UnusableFileIsKept
<1> DEFINE Kept == ~ReadsFile /\ live # {} => UNCHANGED disk
<1>1. Init => IInv
  BY InitIInv
<1>2. IInv /\ [Next]_vars => IInv'
  BY IInvIsInductive
<1>3. IInv /\ [Next]_vars => [Kept]_vars
  <2> SUFFICES ASSUME IInv, Next, ~ReadsFile, live # {}
               PROVE  disk' = disk
    BY DEF vars
  <2>1. \A s \in live : ~(store[s].loaded /\ store[s].readable)
    BY DEF IInv
  <2>2. ASSUME NEW s \in Sessions, SessionStep(s) PROVE disk' = disk
    <3>1. ASSUME NEW w \in BOOLEAN, Load(s, w) PROVE disk' = disk
      BY <3>1 DEF Load, Written, CanWrite, FirstRead
    <3>2. ASSUME NEW w \in BOOLEAN, NEW e \in Entries, RecordAlways(s, e, w)
          PROVE  disk' = disk
      <4> DEFINE with == [store[s] EXCEPT !.grants = @ \cup {e}]
      <4>1. s \in live /\ store[s].loaded /\ store[s] \in Stores
        BY <3>2 DEF RecordAlways, IInv, TypeOK
      <4>2. with.readable = store[s].readable
        BY <4>1 DEF Stores
      <4>3. ~CanWrite(with, w)
        BY <2>1, <4>1, <4>2 DEF CanWrite
      <4>4. QED
        BY <3>2, <4>3 DEF RecordAlways, Add, Written
    <3>3. ASSUME NEW w \in BOOLEAN, NEW e \in Entries, Lift(s, e, w)
          PROVE  disk' = disk
      <4>1. s \in live /\ store[s].loaded /\ store[s] \in Stores
        BY <3>3 DEF Lift, IInv, TypeOK
      <4>2. store[s].grants = {}
        BY <2>1, <4>1 DEF IInv, UnreadableStoreIsEmpty
      <4>3. QED
        BY <3>3, <4>2 DEF Lift
    <3>4. CASE TornWrite(s)
      BY <2>1, <3>4 DEF TornWrite
    <3>5. QED
      BY <2>2, <3>1, <3>2, <3>3, <3>4
         DEF SessionStep, Start, Exit, Resume, RecordForSession
  <2>3. ASSUME NEW f \in Files, HandEdit(f) PROVE disk' = disk
    BY <2>3 DEF HandEdit
  <2>4. QED
    BY <2>2, <2>3 DEF Next
<1>4. QED
  BY <1>1, <1>2, <1>3, PTL DEF Spec, UnusableFileIsKept

(* Under the same conditions a store that says it is in step with the file  *)
(* is: the answer PersistedApprovalGrants.add gives for a duplicate.       *)
THEOREM SyncedStoresAreSaved ==
    ASSUME Exclusive = TRUE, EditsWhileOpen = FALSE
    PROVE  Spec => []SyncedMeansSaved
BY PromisesAreKept, PTL

(* With one process at a time on the file, and edits only between           *)
(* processes, an entry enters the file only in the step that tells the user *)
(* so: an answer whose write failed is taken back, and no later write       *)
(* brings it.                                                              *)
THEOREM SavesAreAsked ==
    ASSUME Exclusive = TRUE, EditsWhileOpen = FALSE
    PROVE  Spec => NothingSavedUnasked
<1> DEFINE Asked == live # {} /\ disk'.format # "damaged" =>
                        disk'.grants \ disk.grants \subseteq promised'
<1>1. Init => IInv
  BY InitIInv
<1>2. IInv /\ [Next]_vars => IInv'
  BY IInvIsInductive
<1>3. IInv /\ [Next]_vars => [Asked]_vars
  <2> SUFFICES ASSUME IInv, Next, live # {}, disk' # disk,
                      disk'.format # "damaged"
               PROVE  disk'.grants \ disk.grants \subseteq promised'
    BY DEF vars
  <2>1. ASSUME NEW s \in Sessions, SessionStep(s)
        PROVE  disk'.grants \ disk.grants \subseteq promised'
    <3>1. ASSUME NEW w \in BOOLEAN, Load(s, w)
          PROVE  disk'.grants \subseteq disk.grants
      BY <2>1, <3>1 DEF Load, Written, FirstRead, Recovered
    <3>2. ASSUME NEW w \in BOOLEAN, NEW e \in Entries, RecordAlways(s, e, w)
          PROVE  disk'.grants \ disk.grants \subseteq promised'
      <4> DEFINE with == [store[s] EXCEPT !.grants = @ \cup {e}]
      <4>1. s \in live /\ store[s].loaded /\ store[s] \in Stores
        BY <3>2 DEF RecordAlways, IInv, TypeOK
      <4>2. /\ with.readable = store[s].readable
            /\ with.grants = store[s].grants \cup {e}
        BY <4>1 DEF Stores
      <4>3. e \notin store[s].grants /\ disk' = Written(with, w)
        BY <3>2 DEF RecordAlways, Add
      <4>4. CanWrite(with, w) /\ disk'.grants = store[s].grants \cup {e}
        BY <4>2, <4>3 DEF Written
      <4>5. store[s].grants \subseteq disk.grants
        BY <4>1, <4>2, <4>4 DEF IInv, CanWrite
      <4>6. AddSaves(s, e, w)
        BY <4>2, <4>3, <4>4 DEF AddSaves, CanWrite
      <4>7. e \in promised'
        BY <3>2, <4>6 DEF RecordAlways
      <4>8. QED
        BY <4>4, <4>5, <4>7
    <3>3. ASSUME NEW w \in BOOLEAN, NEW e \in Entries, Lift(s, e, w)
          PROVE  disk'.grants \subseteq disk.grants
      <4> DEFINE without == [store[s] EXCEPT !.grants = @ \ {e}]
      <4>1. s \in live /\ store[s].loaded /\ store[s] \in Stores
        BY <3>3 DEF Lift, IInv, TypeOK
      <4>2. /\ without.readable = store[s].readable
            /\ without.grants = store[s].grants \ {e}
        BY <4>1 DEF Stores
      <4>3. disk' = Written(without, w)
        BY <3>3 DEF Lift
      <4>4. CanWrite(without, w) /\ disk'.grants = store[s].grants \ {e}
        BY <4>2, <4>3 DEF Written
      <4>5. store[s].grants \subseteq disk.grants
        BY <4>1, <4>2, <4>4 DEF IInv, CanWrite
      <4>6. QED
        BY <4>4, <4>5
    <3>4. CASE TornWrite(s)
      BY <3>4 DEF TornWrite, Damaged
    <3>5. QED
      BY <2>1, <3>1, <3>2, <3>3, <3>4
         DEF SessionStep, Start, Exit, Resume, RecordForSession
  <2>2. ASSUME NEW f \in Files, HandEdit(f) PROVE FALSE
    BY <2>2 DEF HandEdit
  <2>3. QED
    BY <2>1, <2>2 DEF Next
<1>4. QED
  BY <1>1, <1>2, <1>3, PTL DEF Spec, NothingSavedUnasked

-----------------------------------------------------------------------------
(* What is in force stays in force, under every interleaving of processes   *)
(* and edits: a store that is not loaded is empty, so the first read takes  *)
(* nothing away, and a store is not read a second time.                    *)

UnloadedIsEmpty == \A s \in Sessions : ~store[s].loaded => store[s].grants = {}

LEMMA UnloadedStep ==
    ASSUME TypeOK, UnloadedIsEmpty, [Next]_vars
    PROVE  UnloadedIsEmpty'
<1> USE DEF UnloadedIsEmpty, TypeOK
<1>1. ASSUME NEW s \in Sessions, SessionStep(s) PROVE UnloadedIsEmpty'
  <2>1. CASE Exit(s) \/ TornWrite(s)
    BY <2>1 DEF Exit, TornWrite, NotLoaded
  <2>2. ASSUME NEW w \in BOOLEAN, Load(s, w) PROVE UnloadedIsEmpty'
    <3>1. FirstRead \in Stores /\ FirstRead.loaded
      BY FirstReadIsStore DEF FirstRead
    <3>2. Persisted(FirstRead, w).loaded
      BY <3>1, PersistedFields
    <3>3. QED
      BY <2>2, <3>1, <3>2 DEF Load
  <2>3. ASSUME NEW w \in BOOLEAN, NEW e \in Entries, RecordAlways(s, e, w)
        PROVE  UnloadedIsEmpty'
    <3> DEFINE with == [store[s] EXCEPT !.grants = @ \cup {e}]
    <3>1. /\ store[s] \in Stores /\ store[s].loaded
          /\ with \in Stores /\ with.loaded
      BY <2>3 DEF RecordAlways, Stores
    <3>2. Persisted(with, w).loaded /\ Persisted(store[s], FALSE).loaded
      BY <3>1, PersistedFields
    <3>3. QED
      BY <2>3, <3>2 DEF RecordAlways, Add
  <2>4. ASSUME NEW w \in BOOLEAN, NEW e \in Entries, Lift(s, e, w)
        PROVE  UnloadedIsEmpty'
    <3> DEFINE without == [store[s] EXCEPT !.grants = @ \ {e}]
    <3>1. without \in Stores /\ without.loaded
      BY <2>4 DEF Lift, Stores
    <3>2. Persisted(without, w).loaded
      BY <3>1, PersistedFields
    <3>3. QED
      BY <2>4, <3>2 DEF Lift
  <2>5. QED
    BY <1>1, <2>1, <2>2, <2>3, <2>4
       DEF SessionStep, Start, Resume, RecordForSession
<1>2. QED
  BY <1>1 DEF Next, HandEdit, vars

\* A step of s takes an entry out of force in s only as StaysInForce says.
LEMMA LossesAreLifts ==
    ASSUME TypeOK, UnloadedIsEmpty,
           NEW s \in live, s \in live', SessionStep(s),
           NEW e \in InForce(s), e \notin InForce(s)'
    PROVE  \/ \E writeOk \in BOOLEAN : Lift(s, e, writeOk)
           \/ ledger[s][e] = "session" /\ UNCHANGED <<disk, store, promised>>
<1> USE DEF TypeOK, InForce
<1>1. e \in Entries /\ s \in Sessions /\ store[s] \in Stores
  BY DEF Stores
<1>2. ~Start(s) /\ ~Exit(s) /\ ~TornWrite(s)
  BY DEF Start, Exit, TornWrite
<1>3. ASSUME NEW resumed \in SUBSET Entries, Resume(s, resumed)
      PROVE  ledger[s][e] = "session" /\ UNCHANGED <<disk, store, promised>>
  BY <1>1, <1>3 DEF Resume, Lifetimes
<1>4. ASSUME NEW f \in Entries, NEW l \in Lifetimes \ {"none"}, Remember(s, f, l),
             store[s].grants \subseteq store'[s].grants
      PROVE  FALSE
  BY <1>1, <1>4 DEF Remember, Lifetimes
<1>5. ASSUME NEW f \in Entries PROVE ~RecordForSession(s, f)
  BY <1>4 DEF RecordForSession, Lifetimes
<1>6. ASSUME NEW w \in BOOLEAN PROVE ~Load(s, w)
  BY <1>1 DEF Load, UnloadedIsEmpty
<1>7. ASSUME NEW w \in BOOLEAN, NEW f \in Entries PROVE ~RecordAlways(s, f, w)
  <2> SUFFICES ASSUME RecordAlways(s, f, w) PROVE FALSE
    OBVIOUS
  <2> DEFINE with == [store[s] EXCEPT !.grants = @ \cup {f}]
  <2>1. with \in Stores /\ with.grants = store[s].grants \cup {f}
    BY <1>1 DEF Stores
  <2>2. /\ Persisted(with, w).grants = with.grants
        /\ Persisted(store[s], FALSE).grants = store[s].grants
    BY <1>1, <2>1, PersistedFields
  <2>3. store[s].grants \subseteq store'[s].grants
    BY <1>1, <2>1, <2>2 DEF RecordAlways, Add
  <2>4. QED
    BY <1>4, <2>3 DEF RecordAlways, Lifetimes
<1>8. ASSUME NEW w \in BOOLEAN, NEW f \in Entries, Lift(s, f, w)
      PROVE  f = e
  <2> DEFINE without == [store[s] EXCEPT !.grants = @ \ {f}]
  <2>1. without \in Stores /\ without.grants = store[s].grants \ {f}
    BY <1>1 DEF Stores
  <2>2. Persisted(without, w).grants = store[s].grants \ {f}
    BY <2>1, PersistedFields
  <2>3. store[s].grants \ {f} \subseteq store'[s].grants
    BY <1>1, <1>8, <2>2 DEF Lift
  <2>4. e # f => ledger'[s][e] = ledger[s][e]
    BY <1>1, <1>8 DEF Lift
  <2>5. QED
    BY <1>1, <2>3, <2>4
<1>9. QED
  BY <1>2, <1>3, <1>5, <1>6, <1>7, <1>8 DEF SessionStep

(* An answer goes out of force in a running process only when it is lifted  *)
(* or, if it was for the session, when another conversation is resumed:     *)
(* with any number of processes, edits, failed and torn writes.            *)
THEOREM AnswersStayInForce == Spec => StaysInForce
<1> DEFINE Stays ==
        \A s \in live \cap live' : \A e \in InForce(s) \ InForce(s)' :
            \/ \E writeOk \in BOOLEAN : Lift(s, e, writeOk)
            \/ ledger[s][e] = "session" /\ UNCHANGED <<disk, store, promised>>
<1>1. Init => UnloadedIsEmpty
  BY DEF Init, UnloadedIsEmpty, NotLoaded
<1>2. TypeOK /\ UnloadedIsEmpty /\ [Next]_vars => UnloadedIsEmpty'
  BY UnloadedStep
<1>3. TypeOK /\ UnloadedIsEmpty /\ [Next]_vars => [Stays]_vars
  <2> SUFFICES ASSUME TypeOK, UnloadedIsEmpty, Next,
                      NEW s \in live, s \in live',
                      NEW e \in InForce(s), e \notin InForce(s)'
               PROVE  \/ \E writeOk \in BOOLEAN : Lift(s, e, writeOk)
                      \/ /\ ledger[s][e] = "session"
                         /\ UNCHANGED <<disk, store, promised>>
    BY DEF vars
  <2>1. store'[s] # store[s] \/ ledger'[s] # ledger[s]
    BY DEF InForce
  <2>2. ASSUME NEW t \in Sessions, t # s PROVE ~SessionStep(t)
    <3>1. SessionStep(t) => store'[s] = store[s] /\ ledger'[s] = ledger[s]
      BY <2>2 DEF TypeOK, SessionStep, Start, Exit, TornWrite, Resume,
                  RecordForSession, Load, RecordAlways, Add, Remember, Lift
    <3>2. QED
      BY <2>1, <3>1
  <2>3. SessionStep(s)
    BY <2>1, <2>2 DEF Next, HandEdit
  <2>4. QED
    BY <2>3, LossesAreLifts
<1>4. QED
  BY <1>1, <1>2, <1>3, TypeCorrect, PTL DEF Spec, StaysInForce
=============================================================================
