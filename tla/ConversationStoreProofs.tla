---------------------- MODULE ConversationStoreProofs ----------------------
(* What stored conversations promise, for any number of processes,          *)
(* conversations and threads: SharedInv however living processes share      *)
(* conversations, StoreInv when no two of them share one.                   *)
EXTENDS ConversationStore, TLAPS, FiniteSetTheorems

\* The threads a session is on or has touched.
Mine(s) == written[s] \cup {thread[s]}

\* A process that is not running keeps nothing.
Placed ==
    \A s \in Sessions :
        /\ Up(s) => thread[s] \in Threads
        /\ ~Up(s) => /\ conv[s] = NoConversation /\ ~cut[s] /\ doomed[s] = {}
                     /\ written[s] = {} /\ thread[s] = NoThread
        /\ stage[s] = "asking" => conv[s] = NoConversation
        /\ conv[s] # NoConversation => index[conv[s]] # NoRow

\* The mirror holds a checkpoint of exactly the threads written or read.
Mirrored ==
    \A s \in Sessions, t \in Threads :
        /\ held[s][t] # {} <=> t \in written[s]
        /\ held[s][t] \subseteq told[t]

\* No checkpoint carries a step that was not taken, and only a checkpoint ages.
Dated ==
    \A t \in Threads : disk[t] \subseteq told[t] /\ (t \in old => disk[t] # {})

\* The index says what the record files say, or that there is no thread.
Linked ==
    /\ \A c \in Conversations :
        /\ index[c] \in Threads => records[c] = index[c]
        /\ index[c] = NoRow <=> records[c] = NoRow
    /\ \A c, d \in Conversations :
        records[c] \in Threads /\ records[c] = records[d] => c = d

\* The row that names a session's thread is the one it is bound to.
OwnRow ==
    \A s \in Sessions, c \in Conversations :
        Up(s) /\ records[c] = thread[s] => conv[s] = c

\* Nobody else is on the thread of a single run.
Solitary ==
    \A s, u \in Sessions :
        stage[s] = "asking" /\ Up(u) /\ u # s => thread[u] # thread[s]

\* No row names the thread of a session that has stopped saving.
Degraded ==
    \A s \in Sessions, c \in Conversations :
        Up(s) /\ cut[s] /\ records[c] = thread[s] => thread[s] \in unmarked

\* What holds however living processes share conversations.
SharedInv ==
    /\ TypeOK /\ Placed /\ Mirrored /\ Dated /\ Linked /\ OwnRow /\ Solitary /\ Degraded

-----------------------------------------------------------------------------
\* No two living processes have touched the same thread or record under the
\* same conversation.
Apart ==
    \A s, u \in Sessions :
        Up(s) /\ Up(u) /\ s # u =>
            /\ Mine(s) \cap Mine(u) = {}
            /\ conv[s] = conv[u] => conv[s] = NoConversation

\* A session has read or written the thread it is on, or nobody has.
Untouched ==
    \A s \in Sessions :
        Up(s) /\ thread[s] \notin written[s] => told[thread[s]] = {}

\* A session has touched the thread of the row it is bound to, if anybody has.
Bound ==
    \A s \in Sessions, c \in Conversations :
        Up(s) /\ conv[s] = c /\ records[c] \in Threads /\ told[records[c]] # {} =>
            records[c] \in written[s]

\* The stored part of a conversation that a row names is the whole of it.
Whole ==
    \A c \in Conversations, t \in Threads \ unmarked :
        records[c] = t => disk[t] \in {{}, told[t]}

\* So is what a session that saves has saved of the thread it is on.
Saving ==
    \A s \in Sessions, t \in Threads \ unmarked :
        Up(s) /\ ~cut[s] /\ thread[s] = t => disk[t] \in {{}, told[t]}

\* A session remembers all of every thread it has touched.
Remembered ==
    \A s \in Sessions, t \in Threads \ unmarked :
        Up(s) /\ t \in Mine(s) => held[s][t] = told[t]

\* The old thread a session is on has a name, or the session does not save.
Aged ==
    Attended => \A s \in Sessions :
        Up(s) /\ thread[s] \in old =>
            Named(thread[s]) \/ (cut[s] /\ stage[s] # "asking")

\* What a sweep has selected stays out of reach until it is removed.
Swept ==
    Attended => \A s \in Sessions, t \in Threads :
        t \in doomed[s] =>
            /\ Up(s) /\ told[t] # {} /\ ~Named(t)
            /\ \A u \in Sessions :
                Up(u) /\ thread[u] = t => cut[u] /\ stage[u] # "asking"

\* And what holds besides when no two of them share one.
StoreInv ==
    /\ SharedInv /\ Apart /\ Untouched /\ Bound /\ Whole /\ Saving /\ Remembered
    /\ Aged /\ Swept

-----------------------------------------------------------------------------
\* Nothing is stored and nobody runs at first.
LEMMA InitHolds == Init => StoreInv
<1> SUFFICES ASSUME Init PROVE StoreInv
  OBVIOUS
<1>0. Cardinality({}) = 0
  BY FS_EmptySet
<1>1. /\ \A c \in Conversations : index[c] = NoRow /\ records[c] = NoRow
      /\ \A t \in Threads : disk[t] = {} /\ told[t] = {}
      /\ \A s \in Sessions :
            /\ stage[s] = "off" /\ thread[s] = NoThread /\ conv[s] = NoConversation
            /\ cut[s] = FALSE /\ written[s] = {} /\ open[s] = {} /\ lost[s] = {}
            /\ doomed[s] = {}
            /\ \A t \in Threads : held[s][t] = {}
  BY DEF Init
<1>2. TypeOK
  <2>1. index \in [Conversations -> Links] /\ records \in [Conversations -> Links]
    BY DEF Init, Links
  <2>2. /\ files \subseteq Threads /\ disk \in [Threads -> SUBSET Nat] /\ old \subseteq Threads
        /\ steps \in Nat /\ told \in [Threads -> SUBSET Nat] /\ unmarked \subseteq Threads
    BY DEF Init
  <2>3. /\ stage \in [Sessions -> {"off", "asking", "live", "done", "closing"}]
        /\ thread \in [Sessions -> Threads \cup {NoThread}]
        /\ conv \in [Sessions -> Conversations \cup {NoConversation}]
        /\ cut \in [Sessions -> BOOLEAN]
    BY DEF Init
  <2>4. /\ held \in [Sessions -> [Threads -> SUBSET Nat]]
        /\ written \in [Sessions -> SUBSET Threads]
        /\ open \in [Sessions -> SUBSET Threads] /\ lost \in [Sessions -> SUBSET Threads]
        /\ doomed \in [Sessions \cup {Person} -> SUBSET Threads]
    BY DEF Init
  <2>5. \A s \in Sessions :
            lost[s] \subseteq open[s] /\ Cardinality(open[s]) <= MAX_OPEN_THREAD_FILES
    <3>0. MAX_OPEN_THREAD_FILES \in Nat
      BY StoreAssumption
    <3>1. 0 <= MAX_OPEN_THREAD_FILES
      BY <3>0
    <3>2. \A s \in Sessions : open[s] = {} /\ lost[s] = {}
      BY <1>1
    <3> SUFFICES ASSUME NEW s \in Sessions PROVE Cardinality(open[s]) = 0
      BY <3>1, <3>2
    <3>3. open[s] = {}
      BY <3>2
    <3> QED BY <3>3, <1>0, Zenon
  <2> QED BY <2>1, <2>2, <2>3, <2>4, <2>5 DEF TypeOK
<1>3. Placed /\ Dated
  BY <1>1 DEF Placed, Dated, Up, Init
<1>4. Mirrored
  BY <1>1 DEF Mirrored
<1>5. Linked
  BY <1>1, StoreAssumption DEF Linked
<1>6. OwnRow /\ Solitary /\ Degraded
  BY <1>1 DEF OwnRow, Solitary, Degraded, Up
<1>9. Apart /\ Untouched /\ Bound /\ Saving /\ Remembered /\ Aged
  BY <1>1 DEF Apart, Untouched, Bound, Saving, Remembered, Aged, Up
<1>7. Whole
  BY <1>1 DEF Whole
<1>8. Swept
  BY <1>1 DEF Swept
<1> QED BY <1>2, <1>3, <1>4, <1>5, <1>6, <1>7, <1>8, <1>9 DEF StoreInv, SharedInv

\* A session that starts on a fresh thread, with a row that names it.
LEMMA NamedStartHolds ==
    ASSUME SharedInv, NEW s \in Sessions, NEW t \in Threads, NEW c \in Conversations,
           stage[s] = "off", stage' = [stage EXCEPT ![s] = "live"],
           Fresh(t), thread' = [thread EXCEPT ![s] = t],
           index[c] = NoRow,
           index' = [index EXCEPT ![c] = t],
           records' = [records EXCEPT ![c] = t],
           conv' = [conv EXCEPT ![s] = c],
           files' = files \cup {t},
           UNCHANGED <<unmarked, disk, old, steps, told, cut, held, written, open, lost, doomed>>
    PROVE  SharedInv' /\ (StoreInv => StoreInv')
<1>1. TypeOK
  BY DEF SharedInv
<1>2. /\ unmarked' = unmarked /\ disk' = disk /\ old' = old /\ steps' = steps /\ told' = told
      /\ cut' = cut /\ held' = held /\ written' = written /\ open' = open /\ lost' = lost
      /\ doomed' = doomed
  OBVIOUS
<1>3. /\ \A u \in Sessions : /\ stage'[u] = IF u = s THEN "live" ELSE stage[u]
                             /\ thread'[u] = IF u = s THEN t ELSE thread[u]
                             /\ conv'[u] = IF u = s THEN c ELSE conv[u]
      /\ \A d \in Conversations : /\ index'[d] = IF d = c THEN t ELSE index[d]
                                  /\ records'[d] = IF d = c THEN t ELSE records[d]
  BY <1>1 DEF TypeOK
<1>4. t # NoRow /\ t # NoThread /\ c # NoConversation
  BY StoreAssumption
<1>5. /\ told[t] = {} /\ disk[t] = {}
      /\ \A d \in Conversations : index[d] # t /\ records[d] # t
      /\ \A u \in Sessions : stage[u] # "off" => thread[u] # t /\ t \notin written[u]
  BY DEF Fresh, Up
<1>6. /\ ~cut[s] /\ doomed[s] = {} /\ written[s] = {}
      /\ \A u \in Sessions : conv[u] # c
      /\ records[c] = NoRow
  BY <1>4 DEF SharedInv, Placed, Linked, Up
<1>10. TypeOK'
  <2>1. index' \in [Conversations -> Links] /\ records' \in [Conversations -> Links]
    BY <1>1 DEF TypeOK, Links
  <2>2. /\ stage' \in [Sessions -> {"off", "asking", "live", "done", "closing"}]
        /\ thread' \in [Sessions -> Threads \cup {NoThread}]
        /\ conv' \in [Sessions -> Conversations \cup {NoConversation}]
    BY <1>1 DEF TypeOK
  <2>3. files' \subseteq Threads
    BY <1>1 DEF TypeOK
  <2>4. \A u \in Sessions : /\ lost'[u] \subseteq open'[u] 
                           /\ Cardinality(open'[u]) <= MAX_OPEN_THREAD_FILES
    BY <1>1, <1>2 DEF TypeOK
  <2> QED BY <1>1, <1>2, <2>1, <2>2, <2>3, <2>4 DEF TypeOK
<1>11. Placed'
  BY <1>2, <1>3, <1>4, <1>6 DEF SharedInv, Placed, Up
<1>12. Mirrored'
  BY <1>2 DEF SharedInv, Mirrored
<1>13. Dated'
  BY <1>2 DEF SharedInv, Dated
<1>14. Linked'
  BY <1>3, <1>4, <1>5 DEF SharedInv, Linked
<1>15. OwnRow'
  BY <1>2, <1>3, <1>4, <1>5, <1>6 DEF SharedInv, OwnRow, Up
<1>16. Solitary'
  BY <1>3, <1>5 DEF SharedInv, Solitary, Up
<1>17. Degraded'
  BY <1>2, <1>3, <1>5, <1>6 DEF SharedInv, Degraded, Up
<1>18. SharedInv'
  BY <1>10, <1>11, <1>12, <1>13, <1>14, <1>15, <1>16, <1>17 DEF SharedInv
<1>19. ASSUME StoreInv PROVE StoreInv'
  <2>15. Apart'
    BY <1>19, <1>2, <1>3, <1>5, <1>6 DEF StoreInv, Apart, Up, Mine
  <2>16. Untouched'
    BY <1>19, <1>2, <1>3, <1>5 DEF StoreInv, Untouched, Up
  <2>17. Bound'
    BY <1>19, <1>2, <1>3, <1>5, <1>6 DEF StoreInv, Bound, Up
  <2>18. Whole'
    BY <1>19, <1>2, <1>3, <1>5 DEF StoreInv, Whole
  <2>19. Saving'
    BY <1>19, <1>2, <1>3, <1>5 DEF StoreInv, Saving, Up
  <2>20. Remembered'
    <3> SUFFICES ASSUME NEW u \in Sessions, NEW k \in Threads, k \notin unmarked',
                        Up(u)', k \in Mine(u)'
                 PROVE  held'[u][k] = told'[k]
      BY DEF Remembered
    <3>1. CASE u = s
      <4>1. k = t
        BY <3>1, <1>2, <1>3, <1>6 DEF Mine
      <4>2. held[s][t] = {}
        BY <1>19, <1>6 DEF StoreInv, SharedInv, Mirrored
      <4> QED BY <3>1, <4>1, <4>2, <1>2, <1>5
    <3>2. CASE u # s
      BY <1>19, <3>2, <1>2, <1>3 DEF StoreInv, Remembered, Mine, Up
    <3> QED BY <3>1, <3>2
  <2>22. Aged'
    <3>1. old \subseteq Threads /\ NoRow \notin Threads
      BY <1>1, StoreAssumption DEF TypeOK
    <3>2. \A u \in Sessions : Named(thread[u]) /\ thread[u] \in Threads => Named(thread[u])'
      BY <3>1, <1>3, <1>5 DEF Named
    <3>3. Named(t)'
      BY <1>3 DEF Named
    <3> QED BY <1>19, <1>2, <1>3, <1>6, <3>1, <3>2, <3>3 DEF StoreInv, Aged, Up
  <2>23. Swept'
    BY <1>19, <1>2, <1>3, <1>5, <1>6 DEF StoreInv, Swept, Up, Named
  <2> QED BY <1>18, <2>15, <2>16, <2>17, <2>18, <2>19, <2>20, <2>22, <2>23 DEF StoreInv
<1> QED BY <1>18, <1>19

\* A session that starts on a fresh thread nobody names: a chat whose row could
\* not be opened, or a single run.
LEMMA UnnamedStartHolds ==
    ASSUME SharedInv, NEW s \in Sessions, NEW t \in Threads, NEW to \in {"live", "asking"},
           stage[s] = "off", stage' = [stage EXCEPT ![s] = to],
           Fresh(t), thread' = [thread EXCEPT ![s] = t],
           UNCHANGED <<index, records, files, conv, unmarked, disk, old, steps, told,
                       cut, held, written, open, lost, doomed>>
    PROVE  SharedInv' /\ (StoreInv => StoreInv')
<1>1. TypeOK
  BY DEF SharedInv
<1>2. /\ unmarked' = unmarked /\ disk' = disk /\ old' = old /\ steps' = steps /\ told' = told
      /\ cut' = cut /\ held' = held /\ written' = written /\ open' = open /\ lost' = lost
      /\ doomed' = doomed /\ index' = index /\ records' = records /\ files' = files
      /\ conv' = conv
  OBVIOUS
<1>3. \A u \in Sessions : /\ stage'[u] = IF u = s THEN to ELSE stage[u]
                          /\ thread'[u] = IF u = s THEN t ELSE thread[u]
  BY <1>1 DEF TypeOK
<1>5. /\ told[t] = {} /\ disk[t] = {}
      /\ \A d \in Conversations : index[d] # t /\ records[d] # t
      /\ \A u \in Sessions : stage[u] # "off" => thread[u] # t /\ t \notin written[u]
  BY DEF Fresh, Up
<1>6. /\ ~cut[s] /\ doomed[s] = {} /\ written[s] = {} /\ conv[s] = NoConversation
      /\ NoConversation \notin Conversations
  BY StoreAssumption DEF SharedInv, Placed, Up
<1>7. t \notin old
  BY <1>5 DEF SharedInv, Dated
<1>8. held[s][t] = {}
  BY <1>6 DEF SharedInv, Mirrored
<1>9. to # "off" /\ to # "done"
  OBVIOUS
<1>10. TypeOK'
  <2>1. /\ stage' \in [Sessions -> {"off", "asking", "live", "done", "closing"}]
        /\ thread' \in [Sessions -> Threads \cup {NoThread}]
    BY <1>1 DEF TypeOK
  <2> QED BY <1>1, <1>2, <2>1 DEF TypeOK
<1>11. Placed'
  BY <1>2, <1>3, <1>6, <1>9 DEF SharedInv, Placed, Up
<1>12. Mirrored'
  BY <1>2 DEF SharedInv, Mirrored
<1>13. Dated'
  BY <1>2 DEF SharedInv, Dated
<1>14. Linked'
  BY <1>2 DEF SharedInv, Linked
<1>15. OwnRow'
  BY <1>2, <1>3, <1>5 DEF SharedInv, OwnRow, Up
<1>16. Solitary'
  BY <1>3, <1>5 DEF SharedInv, Solitary, Up
<1>17. Degraded'
  BY <1>2, <1>3, <1>5, <1>6 DEF SharedInv, Degraded, Up
<1>18. SharedInv'
  BY <1>10, <1>11, <1>12, <1>13, <1>14, <1>15, <1>16, <1>17 DEF SharedInv
<1>19. ASSUME StoreInv PROVE StoreInv'
  <2>15. Apart'
    BY <1>19, <1>2, <1>3, <1>5, <1>6 DEF StoreInv, SharedInv, Apart, Placed, Up, Mine
  <2>16. Untouched'
    BY <1>19, <1>2, <1>3, <1>5 DEF StoreInv, Untouched, Up
  <2>17. Bound'
    BY <1>19, <1>2, <1>3, <1>5, <1>6 DEF StoreInv, Bound, Up
  <2>18. Whole'
    BY <1>19, <1>2 DEF StoreInv, Whole
  <2>19. Saving'
    BY <1>19, <1>2, <1>3, <1>5 DEF StoreInv, Saving, Up
  <2>20. Remembered'
    <3> SUFFICES ASSUME NEW u \in Sessions, NEW k \in Threads, k \notin unmarked',
                        Up(u)', k \in Mine(u)'
                 PROVE  held'[u][k] = told'[k]
      BY DEF Remembered
    <3>1. CASE u = s
      <4>1. k = t
        BY <3>1, <1>2, <1>3, <1>6 DEF Mine
      <4> QED BY <3>1, <4>1, <1>8, <1>2, <1>5
    <3>2. CASE u # s
      BY <1>19, <3>2, <1>2, <1>3 DEF StoreInv, Remembered, Mine, Up
    <3> QED BY <3>1, <3>2
  <2>22. Aged'
    BY <1>19, <1>2, <1>3, <1>7 DEF StoreInv, Aged, Up, Named
  <2>23. Swept'
    BY <1>19, <1>2, <1>3, <1>5, <1>6, <1>9 DEF StoreInv, Swept, Up, Named
  <2> QED BY <1>18, <2>15, <2>16, <2>17, <2>18, <2>19, <2>20, <2>22, <2>23 DEF StoreInv
<1> QED BY <1>18, <1>19

\* `/clear`.
LEMMA ClearHolds ==
    ASSUME SharedInv, NEW s \in Sessions, Clear(s)
    PROVE  SharedInv' /\ (StoreInv => StoreInv')
<1>0. PICK t \in Threads : Fresh(t) /\ thread' = [thread EXCEPT ![s] = t]
  BY DEF Clear
<1>1. TypeOK
  BY DEF SharedInv
<1>2. /\ unmarked' = unmarked /\ disk' = disk /\ old' = old /\ steps' = steps /\ told' = told
      /\ cut' = cut /\ held' = held /\ written' = written /\ open' = open /\ lost' = lost
      /\ doomed' = doomed /\ index' = index /\ records' = records /\ files' = files
      /\ conv' = conv /\ stage' = stage /\ stage[s] = "live"
  BY DEF Clear, shelf, rows, life, saver, handles
<1>3. \A u \in Sessions : thread'[u] = IF u = s THEN t ELSE thread[u]
  BY <1>0, <1>1 DEF TypeOK
<1>5. /\ told[t] = {} /\ disk[t] = {}
      /\ \A d \in Conversations : index[d] # t /\ records[d] # t
      /\ \A u \in Sessions : stage[u] # "off" => thread[u] # t /\ t \notin written[u]
  BY <1>0 DEF Fresh, Up
<1>7. t \notin old
  BY <1>5 DEF SharedInv, Dated
<1>8. held[s][t] = {}
  BY <1>2, <1>5 DEF SharedInv, Mirrored
<1>10. TypeOK'
  <2>1. thread' \in [Sessions -> Threads \cup {NoThread}]
    BY <1>0, <1>1 DEF TypeOK
  <2> QED BY <1>1, <1>2, <2>1 DEF TypeOK
<1>11. Placed'
  BY <1>2, <1>3 DEF SharedInv, Placed, Up
<1>12. Mirrored'
  BY <1>2 DEF SharedInv, Mirrored
<1>13. Dated'
  BY <1>2 DEF SharedInv, Dated
<1>14. Linked'
  BY <1>2 DEF SharedInv, Linked
<1>15. OwnRow'
  BY <1>2, <1>3, <1>5 DEF SharedInv, OwnRow, Up
<1>16. Solitary'
  BY <1>2, <1>3, <1>5 DEF SharedInv, Solitary, Up
<1>17. Degraded'
  BY <1>2, <1>3, <1>5 DEF SharedInv, Degraded, Up
<1>18. SharedInv'
  BY <1>10, <1>11, <1>12, <1>13, <1>14, <1>15, <1>16, <1>17 DEF SharedInv
<1>19. ASSUME StoreInv PROVE StoreInv'
  <2>15. Apart'
    BY <1>19, <1>2, <1>3, <1>5 DEF StoreInv, Apart, Up, Mine
  <2>16. Untouched'
    BY <1>19, <1>2, <1>3, <1>5 DEF StoreInv, Untouched, Up
  <2>17. Bound'
    BY <1>19, <1>2, <1>3, <1>5 DEF StoreInv, Bound, Up
  <2>18. Whole'
    BY <1>19, <1>2 DEF StoreInv, Whole
  <2>19. Saving'
    BY <1>19, <1>2, <1>3, <1>5 DEF StoreInv, Saving, Up
  <2>20. Remembered'
    <3> SUFFICES ASSUME NEW u \in Sessions, NEW k \in Threads, k \notin unmarked',
                        Up(u)', k \in Mine(u)'
                 PROVE  held'[u][k] = told'[k]
      BY DEF Remembered
    <3>1. CASE u = s /\ k = t
      BY <3>1, <1>2, <1>5, <1>8
    <3>2. CASE u # s \/ k # t
      BY <1>19, <3>2, <1>2, <1>3 DEF StoreInv, Remembered, Mine, Up
    <3> QED BY <3>1, <3>2
  <2>22. Aged'
    BY <1>19, <1>2, <1>3, <1>7 DEF StoreInv, Aged, Up, Named
  <2>23. Swept'
    BY <1>19, <1>2, <1>3, <1>5 DEF StoreInv, Swept, Up, Named
  <2> QED BY <1>18, <2>15, <2>16, <2>17, <2>18, <2>19, <2>20, <2>22, <2>23 DEF StoreInv
<1> QED BY <1>18, <1>19

\* Using a connection keeps the handles within their types and bound.
LEMMA UsesKeepsHandles ==
    ASSUME TypeOK, NEW s \in Sessions, NEW t \in Threads, Uses(s, t)
    PROVE  /\ open' \in [Sessions -> SUBSET Threads] /\ lost' \in [Sessions -> SUBSET Threads]
           /\ \A u \in Sessions : /\ lost'[u] \subseteq open'[u]
                                 /\ Cardinality(open'[u]) <= MAX_OPEN_THREAD_FILES
<1>0. MAX_OPEN_THREAD_FILES \in Nat
  BY StoreAssumption
<1>1. PICK kept \in SUBSET (open[s] \cup {t}) :
        /\ IF Cardinality(open[s] \cup {t}) <= MAX_OPEN_THREAD_FILES
           THEN kept = open[s] \cup {t}
           ELSE Cardinality(kept) = MAX_OPEN_THREAD_FILES
        /\ open' = [open EXCEPT ![s] = kept]
        /\ lost' = [lost EXCEPT ![s] = @ \cap kept]
  BY DEF Uses
<1>2. Cardinality(kept) <= MAX_OPEN_THREAD_FILES
  BY <1>0, <1>1
<1>3. /\ open \in [Sessions -> SUBSET Threads] /\ lost \in [Sessions -> SUBSET Threads]
      /\ \A u \in Sessions : /\ lost[u] \subseteq open[u]
                            /\ Cardinality(open[u]) <= MAX_OPEN_THREAD_FILES
  BY DEF TypeOK
<1>4. kept \subseteq Threads
  BY <1>3
<1>5. /\ open' \in [Sessions -> SUBSET Threads] /\ lost' \in [Sessions -> SUBSET Threads]
  BY <1>1, <1>3, <1>4
<1>6. /\ \A u \in Sessions \ {s} : open'[u] = open[u] /\ lost'[u] = lost[u]
      /\ open'[s] = kept /\ lost'[s] = lost[s] \cap kept
  BY <1>1, <1>3
<1> QED BY <1>2, <1>3, <1>5, <1>6

\* What a session that may resume conversation c knows of its thread.
LEMMA ReadingFacts ==
    ASSUME SharedInv, NEW s \in Sessions, NEW c \in Conversations,
           NEW t, t = index[c], CanResume(s, c)
    PROVE  /\ t \in Threads /\ records[c] = t /\ told[t] # {}
           /\ Latest(s, t) \subseteq told[t] /\ Latest(s, t) # {}
<1>1. TypeOK
  BY DEF SharedInv
<1>2. t \in Threads /\ Latest(s, t) # {}
  BY <1>1 DEF TypeOK, CanResume
<1>3. records[c] = t
  BY <1>2 DEF SharedInv, Linked
<1>4. held[s][t] \subseteq told[t] /\ disk[t] \subseteq told[t]
  BY <1>2 DEF SharedInv, Mirrored, Dated
<1>5. Latest(s, t) \subseteq told[t] /\ told[t] # {}
  BY <1>2, <1>4 DEF Latest
<1> QED BY <1>2, <1>3, <1>5

\* And when nobody shares: nobody else is on it or has touched it, and the copy it
\* reads is whole.
LEMMA ReadingAlone ==
    ASSUME StoreInv, Sharing = "never", NEW s \in Sessions, NEW c \in Conversations,
           NEW t, t = index[c], CanResume(s, c), Alone(s, t)
    PROVE  /\ \A u \in Sessions : Up(u) /\ u # s => t \notin Mine(u) /\ conv[u] # c
           /\ t \notin unmarked => Latest(s, t) = told[t]
<1>1. /\ t \in Threads /\ records[c] = t /\ told[t] # {}
      /\ Latest(s, t) \subseteq told[t] /\ Latest(s, t) # {}
  BY ReadingFacts DEF StoreInv
<1>2. \A u \in Sessions : Up(u) /\ u # s => t \notin written[u]
  BY DEF Alone
<1>3. \A u \in Sessions : Up(u) /\ u # s => t \notin Mine(u)
  BY <1>1, <1>2 DEF StoreInv, Untouched, Mine
<1>4. \A u \in Sessions : Up(u) /\ u # s => conv[u] # c
  BY <1>1, <1>2 DEF StoreInv, Bound
<1>5. ASSUME t \notin unmarked PROVE Latest(s, t) = told[t]
  <2>1. CASE held[s][t] # {}
    <3>1. t \in written[s] /\ Up(s)
      BY <2>1, <1>1 DEF StoreInv, SharedInv, Mirrored, Placed
    <3>2. held[s][t] = told[t]
      BY <3>1, <1>1, <1>5 DEF StoreInv, Remembered, Mine
    <3> QED BY <2>1, <3>2 DEF Latest
  <2>2. CASE held[s][t] = {}
    <3>1. Latest(s, t) = disk[t]
      BY <2>2 DEF Latest
    <3>2. disk[t] = {} \/ disk[t] = told[t]
      BY <1>1, <1>5 DEF StoreInv, Whole
    <3> QED BY <1>1, <3>1, <3>2
  <2> QED BY <2>1, <2>2
<1> QED BY <1>3, <1>4, <1>5

\* What a read of thread t changes.
LEMMA ReadingKeepsTypes ==
    ASSUME TypeOK, NEW s \in Sessions, NEW t \in Threads, Reads(s, t)
    PROVE  /\ held' \in [Sessions -> [Threads -> SUBSET Nat]]
           /\ written' \in [Sessions -> SUBSET Threads]
           /\ open' \in [Sessions -> SUBSET Threads] /\ lost' \in [Sessions -> SUBSET Threads]
           /\ \A u \in Sessions : /\ lost'[u] \subseteq open'[u]
                                 /\ Cardinality(open'[u]) <= MAX_OPEN_THREAD_FILES
           /\ \A u \in Sessions : written'[u] = IF u = s THEN written[u] \cup {t} ELSE written[u]
           /\ \A u \in Sessions, k \in Threads :
                held'[u][k] = IF u = s /\ k = t THEN Latest(s, t) ELSE held[u][k]
<1>1. /\ held \in [Sessions -> [Threads -> SUBSET Nat]] /\ disk \in [Threads -> SUBSET Nat]
      /\ written \in [Sessions -> SUBSET Threads]
  BY DEF TypeOK
<1>2. Latest(s, t) \in SUBSET Nat
  BY <1>1 DEF Latest
<1>3. held' = [held EXCEPT ![s][t] = Latest(s, t)] /\ written' = [written EXCEPT ![s] = @ \cup {t}]
  BY DEF Reads
<1>4. held' \in [Sessions -> [Threads -> SUBSET Nat]] /\ written' \in [Sessions -> SUBSET Threads]
  BY <1>1, <1>2, <1>3
<1>5. /\ \A u \in Sessions : written'[u] = IF u = s THEN written[u] \cup {t} ELSE written[u]
      /\ \A u \in Sessions, k \in Threads :
            held'[u][k] = IF u = s /\ k = t THEN Latest(s, t) ELSE held[u][k]
  BY <1>1, <1>2, <1>3
<1>6. /\ open' \in [Sessions -> SUBSET Threads] /\ lost' \in [Sessions -> SUBSET Threads]
      /\ \A u \in Sessions : /\ lost'[u] \subseteq open'[u]
                            /\ Cardinality(open'[u]) <= MAX_OPEN_THREAD_FILES
  <2>1. CASE held[s][t] # {}
    <3>1. open' = open /\ lost' = lost
      BY <2>1 DEF Reads, handles
    <3> QED BY <3>1 DEF TypeOK
  <2>2. CASE held[s][t] = {}
    <3>1. Uses(s, t)
      BY <2>2 DEF Reads
    <3> QED BY <3>1, UsesKeepsHandles
  <2> QED BY <2>1, <2>2
<1> QED BY <1>4, <1>5, <1>6

\* A session moves onto the thread of a stored conversation, from nothing
\* (--resume) or from another thread (`/resume`).
LEMMA MoveHolds ==
    ASSUME SharedInv, NEW s \in Sessions, NEW c \in Conversations,
           stage[s] \in {"off", "live"}, stage' = [stage EXCEPT ![s] = "live"],
           NEW t \in Threads, index[c] = t, CanResume(s, c), Alone(s, t), Reads(s, t),
           thread' = [thread EXCEPT ![s] = t], conv' = [conv EXCEPT ![s] = c],
           AppliesMark(cut[s], c, t),
           UNCHANGED <<files, disk, old, steps, told, cut, doomed>>
    PROVE  SharedInv' /\ (Sharing = "never" /\ StoreInv => StoreInv')
<1>1. TypeOK
  BY DEF SharedInv
<1>2. /\ disk' = disk /\ old' = old /\ steps' = steps /\ told' = told
      /\ cut' = cut /\ doomed' = doomed /\ files' = files
  OBVIOUS
<1>3. /\ t \in Threads /\ records[c] = t /\ told[t] # {}
      /\ Latest(s, t) \subseteq told[t] /\ Latest(s, t) # {}
  BY ReadingFacts
<1>4. /\ NoThread \notin Threads /\ NoRow \notin Threads /\ NoThread # NoRow
      /\ NoConversation \notin Conversations
  BY StoreAssumption
<1>5. /\ stage'[s] = "live" /\ thread'[s] = t /\ conv'[s] = c
      /\ \A u \in Sessions \ {s} : /\ stage'[u] = stage[u] /\ thread'[u] = thread[u]
                                 /\ conv'[u] = conv[u]
  BY <1>1 DEF TypeOK
<1>51. /\ \A k : k \in written'[s] <=> k \in written[s] \/ k = t
       /\ \A u \in Sessions \ {s} : written'[u] = written[u]
  <2>1. written' = [written EXCEPT ![s] = @ \cup {t}]
    BY DEF Reads
  <2> QED BY <2>1, <1>1 DEF TypeOK
<1>52. /\ held'[s][t] = Latest(s, t)
       /\ \A k \in Threads \ {t} : held'[s][k] = held[s][k]
       /\ \A u \in Sessions \ {s} : held'[u] = held[u]
  <2>1. held' = [held EXCEPT ![s][t] = Latest(s, t)]
    BY DEF Reads
  <2> QED BY <2>1, <1>1 DEF TypeOK
<1>6. /\ index' \in [Conversations -> Links] /\ records' \in [Conversations -> Links]
      /\ unmarked' \in SUBSET Threads /\ unmarked \subseteq unmarked'
      /\ \A d \in Conversations :
            /\ d # c => index'[d] = index[d] /\ records'[d] = records[d]
            /\ index'[c] \in {t, NoThread} /\ records'[c] \in {t, NoThread}
            /\ index'[c] = t => records'[c] = t
      /\ ~cut[s] => index' = index
      /\ cut[s] /\ records'[c] = t => t \in unmarked'
  <2>1. CASE ~cut[s]
    <3>1. index' = index /\ records' = records /\ unmarked' = unmarked
      BY <2>1 DEF AppliesMark, shelf
    <3> QED BY <2>1, <3>1, <1>1, <1>3 DEF TypeOK
  <2>2. CASE cut[s]
    <3>1. Marks(c, t)
      BY <2>2, <1>4 DEF AppliesMark
    <3>2. PICK where \in {"both", "index", "nowhere"} :
            /\ index' = IF where = "nowhere" THEN index ELSE [index EXCEPT ![c] = NoThread]
            /\ records' = IF where = "both" THEN [records EXCEPT ![c] = NoThread] ELSE records
            /\ unmarked' = IF where = "both" THEN unmarked ELSE unmarked \cup {t}
      BY <3>1 DEF Marks
    <3>3. /\ index \in [Conversations -> Links] /\ records \in [Conversations -> Links]
          /\ unmarked \subseteq Threads /\ NoThread \in Links
      BY <1>1 DEF TypeOK, Links
    <3>4. /\ index' \in [Conversations -> Links] /\ records' \in [Conversations -> Links]
          /\ unmarked' \in SUBSET Threads /\ unmarked \subseteq unmarked'
      BY <3>2, <3>3, <1>3
    <3> QED BY <2>2, <3>2, <3>3, <3>4, <1>3, <1>4
  <2> QED BY <2>1, <2>2
<1>7. \A d \in Conversations, k \in Threads :
        /\ index'[d] = k => index[d] = k
        /\ records'[d] = k => records[d] = k
        /\ index[d] = k /\ k # t => index'[d] = k
  BY <1>3, <1>4, <1>6
<1>8. \A d \in Conversations : records[d] = t => d = c
  BY <1>3 DEF SharedInv, Linked
<1>9. /\ ~Up(s) => written[s] = {} /\ ~cut[s]
      /\ \A u \in Sessions : Up(u) => thread[u] \in Threads
      /\ \A u \in Sessions : Up(u)' => u = s \/ Up(u)
      /\ \A u \in Sessions : Up(u) => Up(u)'
  BY <1>5 DEF SharedInv, Placed, Up
<1>10. TypeOK'
  <2>1. /\ stage' \in [Sessions -> {"off", "asking", "live", "done", "closing"}]
        /\ thread' \in [Sessions -> Threads \cup {NoThread}]
        /\ conv' \in [Sessions -> Conversations \cup {NoConversation}]
    BY <1>1, <1>3 DEF TypeOK
  <2>2. /\ held' \in [Sessions -> [Threads -> SUBSET Nat]]
        /\ written' \in [Sessions -> SUBSET Threads]
        /\ open' \in [Sessions -> SUBSET Threads] /\ lost' \in [Sessions -> SUBSET Threads]
        /\ \A u \in Sessions : /\ lost'[u] \subseteq open'[u]
                              /\ Cardinality(open'[u]) <= MAX_OPEN_THREAD_FILES
    BY <1>1, <1>3, ReadingKeepsTypes
  <2> QED BY <1>1, <1>2, <1>6, <2>1, <2>2 DEF TypeOK
<1>11. Placed'
  <2>1. \A d \in Conversations : index[d] # NoRow => index'[d] # NoRow
    BY <1>3, <1>4, <1>6
  <2>2. index'[c] # NoRow
    BY <1>3, <1>4, <1>6
  <2>3. \A u \in Sessions : conv[u] # NoConversation => conv[u] \in Conversations
    BY <1>1 DEF TypeOK
  <2> QED BY <1>2, <1>3, <1>5, <1>51, <2>1, <2>2, <2>3 DEF SharedInv, Placed, Up
<1>12. Mirrored'
  BY <1>2, <1>3, <1>5, <1>51, <1>52 DEF SharedInv, Mirrored
<1>13. Dated'
  BY <1>2 DEF SharedInv, Dated
<1>14. Linked'
  <2>1. \A d \in Conversations : index'[d] \in Threads => records'[d] = index'[d]
    BY <1>3, <1>4, <1>6 DEF SharedInv, Linked
  <2>2. \A d \in Conversations : index'[d] = NoRow <=> records'[d] = NoRow
    BY <1>3, <1>4, <1>6 DEF SharedInv, Linked
  <2>3. \A d, e \in Conversations : records'[d] \in Threads /\ records'[d] = records'[e] => d = e
    BY <1>7 DEF SharedInv, Linked
  <2> QED BY <2>1, <2>2, <2>3 DEF Linked
<1>15. OwnRow'
  <2>1. \A d \in Conversations : records'[d] = t => d = c
    BY <1>3, <1>7, <1>8
  <2> QED BY <2>1, <1>5, <1>7, <1>9 DEF SharedInv, OwnRow
<1>16. Solitary'
  <2>1. \A u \in Sessions : stage[u] = "asking" => thread[u] # t
    BY <1>3, <1>4 DEF SharedInv, Placed, OwnRow, Up
  <2> QED BY <2>1, <1>5, <1>9 DEF SharedInv, Solitary
<1>17. Degraded'
  <2>1. ASSUME NEW d \in Conversations, cut'[s], records'[d] = thread'[s]
        PROVE  thread'[s] \in unmarked'
    BY <2>1, <1>2, <1>3, <1>5, <1>6, <1>7, <1>8
  <2>2. ASSUME NEW u \in Sessions, u # s, Up(u)', NEW d \in Conversations, cut'[u],
               records'[d] = thread'[u]
        PROVE  thread'[u] \in unmarked'
    BY <2>2, <1>2, <1>5, <1>6, <1>7, <1>9 DEF SharedInv, Degraded
  <2> QED BY <2>1, <2>2 DEF Degraded
<1>18. SharedInv'
  BY <1>10, <1>11, <1>12, <1>13, <1>14, <1>15, <1>16, <1>17 DEF SharedInv
<1>19. ASSUME Sharing = "never", StoreInv PROVE StoreInv'
  <2>1. /\ \A u \in Sessions : Up(u) /\ u # s => t \notin Mine(u) /\ conv[u] # c
        /\ t \notin unmarked => Latest(s, t) = told[t]
    BY <1>19, ReadingAlone
  <2>15. Apart'
    BY <1>19, <2>1, <1>4, <1>5, <1>51, <1>9 DEF StoreInv, Apart, Mine
  <2>16. Untouched'
    BY <1>19, <1>2, <1>5, <1>51, <1>9 DEF StoreInv, Untouched
  <2>17. Bound'
    <3>1. ASSUME NEW d \in Conversations
          PROVE  conv'[s] = d /\ records'[d] \in Threads /\ told'[records'[d]] # {} =>
                    records'[d] \in written'[s]
      BY <1>2, <1>3, <1>4, <1>5, <1>51, <1>6, <1>7, <1>8
    <3>2. ASSUME NEW u \in Sessions, u # s, Up(u)', NEW d \in Conversations
          PROVE  conv'[u] = d /\ records'[d] \in Threads /\ told'[records'[d]] # {} =>
                    records'[d] \in written'[u]
      BY <1>19, <3>2, <1>2, <1>5, <1>51, <1>7, <1>9 DEF StoreInv, Bound
    <3> QED BY <3>1, <3>2 DEF Bound
  <2>18. Whole'
    BY <1>19, <1>2, <1>6, <1>7 DEF StoreInv, Whole
  <2>19. Saving'
    <3>1. \A d \in Conversations : records[d] = t /\ t \notin unmarked => disk[t] \in {{}, told[t]}
      BY <1>19, <1>3 DEF StoreInv, Whole
    <3> QED BY <1>19, <3>1, <1>2, <1>3, <1>5, <1>6, <1>9 DEF StoreInv, Saving
  <2>20. Remembered'
    <3> SUFFICES ASSUME NEW u \in Sessions, NEW k \in Threads, k \notin unmarked',
                        Up(u)', k \in Mine(u)'
                 PROVE  held'[u][k] = told'[k]
      BY DEF Remembered
    <3>1. CASE u = s /\ k = t
      BY <2>1, <3>1, <1>2, <1>3, <1>5, <1>51, <1>52, <1>6
    <3>2. CASE u # s
      BY <1>19, <3>2, <1>2, <1>5, <1>51, <1>52, <1>6, <1>9 DEF StoreInv, Remembered, Mine
    <3>3. CASE u = s /\ k # t
      <4>1. k \in written[s] /\ Up(s)
        BY <3>3, <1>5, <1>51, <1>52, <1>9 DEF Mine
      <4> QED BY <1>19, <3>3, <4>1, <1>2, <1>5, <1>51, <1>52, <1>6 DEF StoreInv, Remembered, Mine
    <3> QED BY <3>1, <3>2, <3>3
  <2>22. Aged'
    <3>1. Named(t)' \/ cut'[s]
      BY <1>2, <1>6 DEF Named
    <3>2. ASSUME NEW u \in Sessions, u # s, Up(u), Named(thread[u]) PROVE Named(thread[u])'
      <4>1. thread[u] \in Threads /\ thread[u] # t
        BY <2>1, <3>2, <1>3, <1>9 DEF Mine
      <4> QED BY <3>2, <4>1, <1>2, <1>5, <1>7 DEF Named
    <3> QED BY <1>19, <3>1, <3>2, <1>2, <1>5, <1>9 DEF StoreInv, Aged
  <2>23. Swept'
    <3>1. \A k \in Threads : ~Named(k) => ~Named(k)' /\ k # t
      BY <1>7 DEF Named
    <3> QED BY <1>19, <3>1, <1>2, <1>5, <1>9 DEF StoreInv, Swept
  <2> QED BY <1>18, <2>15, <2>16, <2>17, <2>18, <2>19, <2>20, <2>22, <2>23 DEF StoreInv
<1> QED BY <1>18, <1>19

\* `/resume` that the runner refuses: the thread was read all the same.
LEMMA RefusedHolds ==
    ASSUME SharedInv, NEW s \in Sessions, NEW c \in Conversations,
           RefusedByTheRunner(s, c)
    PROVE  SharedInv' /\ (Sharing = "never" /\ StoreInv => StoreInv')
<1>0. PICK t \in Threads : t = index[c]
  BY DEF SharedInv, TypeOK, RefusedByTheRunner, CanResume
<1>1. TypeOK
  BY DEF SharedInv
<1>2. /\ disk' = disk /\ old' = old /\ steps' = steps /\ told' = told
      /\ cut' = cut /\ doomed' = doomed /\ files' = files /\ index' = index
      /\ records' = records /\ unmarked' = unmarked /\ stage' = stage /\ thread' = thread
      /\ conv' = conv /\ stage[s] = "live"
  BY DEF RefusedByTheRunner, shelf, rows, life, place
<1>3. CanResume(s, c) /\ Alone(s, t) /\ Reads(s, t)
  BY <1>0 DEF RefusedByTheRunner
<1>4. /\ told[t] # {} /\ Latest(s, t) \subseteq told[t] /\ Latest(s, t) # {}
  BY <1>0, <1>3, ReadingFacts
<1>51. /\ \A k : k \in written'[s] <=> k \in written[s] \/ k = t
       /\ \A u \in Sessions \ {s} : written'[u] = written[u]
  <2>1. written' = [written EXCEPT ![s] = @ \cup {t}]
    BY <1>3 DEF Reads
  <2> QED BY <2>1, <1>1 DEF TypeOK
<1>52. /\ held'[s][t] = Latest(s, t)
       /\ \A k \in Threads \ {t} : held'[s][k] = held[s][k]
       /\ \A u \in Sessions \ {s} : held'[u] = held[u]
  <2>1. held' = [held EXCEPT ![s][t] = Latest(s, t)]
    BY <1>3 DEF Reads
  <2> QED BY <2>1, <1>1 DEF TypeOK
<1>10. TypeOK'
  <2>1. /\ held' \in [Sessions -> [Threads -> SUBSET Nat]]
        /\ written' \in [Sessions -> SUBSET Threads]
        /\ open' \in [Sessions -> SUBSET Threads] /\ lost' \in [Sessions -> SUBSET Threads]
        /\ \A u \in Sessions : /\ lost'[u] \subseteq open'[u]
                              /\ Cardinality(open'[u]) <= MAX_OPEN_THREAD_FILES
    BY <1>1, <1>3, ReadingKeepsTypes
  <2> QED BY <1>1, <1>2, <2>1 DEF TypeOK
<1>11. Placed'
  BY <1>2, <1>51 DEF SharedInv, Placed, Up
<1>12. Mirrored'
  BY <1>2, <1>4, <1>51, <1>52 DEF SharedInv, Mirrored
<1>13. Dated'
  BY <1>2 DEF SharedInv, Dated
<1>14. Linked'
  BY <1>2 DEF SharedInv, Linked
<1>15. OwnRow'
  BY <1>2 DEF SharedInv, OwnRow, Up
<1>16. Solitary'
  BY <1>2 DEF SharedInv, Solitary, Up
<1>17. Degraded'
  BY <1>2 DEF SharedInv, Degraded, Up
<1>18. SharedInv'
  BY <1>10, <1>11, <1>12, <1>13, <1>14, <1>15, <1>16, <1>17 DEF SharedInv
<1>19. ASSUME Sharing = "never", StoreInv PROVE StoreInv'
  <2>1. /\ \A u \in Sessions : Up(u) /\ u # s => t \notin Mine(u)
        /\ t \notin unmarked => Latest(s, t) = told[t]
    BY <1>19, <1>0, <1>3, ReadingAlone
  <2>15. Apart'
    BY <1>19, <2>1, <1>2, <1>51 DEF StoreInv, Apart, Mine, Up
  <2>16. Untouched'
    BY <1>19, <1>2, <1>51 DEF StoreInv, Untouched, Up
  <2>17. Bound'
    BY <1>19, <1>2, <1>51 DEF StoreInv, Bound, Up
  <2>18. Whole'
    BY <1>19, <1>2 DEF StoreInv, Whole
  <2>19. Saving'
    BY <1>19, <1>2 DEF StoreInv, Saving, Up
  <2>20. Remembered'
    <3> SUFFICES ASSUME NEW u \in Sessions, NEW k \in Threads, k \notin unmarked',
                        Up(u)', k \in Mine(u)'
                 PROVE  held'[u][k] = told'[k]
      BY DEF Remembered
    <3>1. CASE u = s /\ k = t
      BY <2>1, <3>1, <1>2, <1>52
    <3>2. CASE u # s \/ k # t
      BY <1>19, <3>2, <1>2, <1>51, <1>52 DEF StoreInv, Remembered, Mine, Up
    <3> QED BY <3>1, <3>2
  <2>22. Aged'
    BY <1>19, <1>2 DEF StoreInv, Aged, Up, Named
  <2>23. Swept'
    BY <1>19, <1>2 DEF StoreInv, Swept, Up, Named
  <2> QED BY <1>18, <2>15, <2>16, <2>17, <2>18, <2>19, <2>20, <2>22, <2>23 DEF StoreInv
<1> QED BY <1>18, <1>19

-----------------------------------------------------------------------------
\* What a session knows of the thread it is on.
LEMMA SteppingFacts ==
    ASSUME SharedInv, NEW s \in Sessions, NEW t, t = thread[s], Up(s)
    PROVE  t \in Threads /\ Latest(s, t) \subseteq told[t]
<1>1. t \in Threads
  BY DEF SharedInv, Placed
<1>2. held[s][t] \subseteq told[t] /\ disk[t] \subseteq told[t]
  BY <1>1 DEF SharedInv, Mirrored, Dated
<1> QED BY <1>1, <1>2 DEF Latest

LEMMA SteppingAlone ==
    ASSUME StoreInv, NEW s \in Sessions, NEW t, t = thread[s], Up(s)
    PROVE  /\ \A u \in Sessions : Up(u) /\ u # s => t \notin Mine(u)
           /\ t \notin unmarked => Latest(s, t) = told[t]
<1>1. t \in Threads /\ disk[t] \subseteq told[t]
  BY DEF StoreInv, SharedInv, Placed, Dated
<1>2. \A u \in Sessions : Up(u) /\ u # s => t \notin Mine(u)
  BY DEF StoreInv, Apart, Mine
<1>3. ASSUME t \notin unmarked PROVE Latest(s, t) = told[t]
  <2>1. held[s][t] = told[t]
    BY <1>1, <1>3 DEF StoreInv, Remembered, Mine
  <2>2. CASE held[s][t] # {}
    BY <2>1, <2>2 DEF Latest
  <2>3. CASE held[s][t] = {}
    BY <2>1, <2>3, <1>1 DEF Latest
  <2> QED BY <2>2, <2>3
<1> QED BY <1>2, <1>3

\* A step whose checkpoint is written to the disk.
LEMMA SavedStepHolds ==
    ASSUME SharedInv, NEW s \in Sessions, NEW t, t = thread[s], NEW n, n = steps + 1,
           NEW after, after = Latest(s, t) \cup {n},
           stage[s] \in {"asking", "live"},
           steps' = n, told' = [told EXCEPT ![t] = @ \cup {n}],
           held' = [held EXCEPT ![s][t] = after],
           written' = [written EXCEPT ![s] = @ \cup {t}],
           ~cut[s], Uses(s, t),
           disk' = [disk EXCEPT ![t] = after], files' = files \cup {t}, old' = old \ {t},
           UNCHANGED <<cut, index, records, unmarked, stage, thread, conv, doomed>>
    PROVE  SharedInv' /\ (StoreInv => StoreInv')
<1>1. TypeOK
  BY DEF SharedInv
<1>2. /\ cut' = cut /\ index' = index /\ records' = records /\ unmarked' = unmarked
      /\ stage' = stage /\ thread' = thread /\ conv' = conv /\ doomed' = doomed
  OBVIOUS
<1>3. /\ t \in Threads /\ Up(s)
      /\ Latest(s, t) \subseteq told[t]
  <2>1. Up(s)
    BY DEF Up
  <2> QED BY <2>1, SteppingFacts
<1>4. after \subseteq Nat /\ after # {} /\ n \in Nat
  BY <1>1, <1>3 DEF TypeOK
<1>5. /\ \A k : k \in written'[s] <=> k \in written[s] \/ k = t
      /\ \A u \in Sessions \ {s} : written'[u] = written[u]
  BY <1>1 DEF TypeOK
<1>6. /\ held'[s][t] = after
      /\ \A k \in Threads \ {t} : held'[s][k] = held[s][k]
      /\ \A u \in Sessions \ {s} : held'[u] = held[u]
  BY <1>1, <1>3 DEF TypeOK
<1>7. /\ told'[t] = told[t] \cup {n} /\ told'[t] # {}
      /\ \A k \in Threads \ {t} : told'[k] = told[k]
  BY <1>1, <1>3 DEF TypeOK
<1>8. after \subseteq told'[t]
  BY <1>3, <1>7
<1>9. disk'[t] = after /\ \A k \in Threads \ {t} : disk'[k] = disk[k]
  BY <1>1, <1>3 DEF TypeOK
<1>10. TypeOK'
  <2>1. held' \in [Sessions -> [Threads -> SUBSET Nat]]
    BY <1>1, <1>3, <1>4 DEF TypeOK
  <2>2. written' \in [Sessions -> SUBSET Threads]
    BY <1>1, <1>3 DEF TypeOK
  <2>3. told' \in [Threads -> SUBSET Nat] /\ steps' \in Nat
    BY <1>1, <1>3, <1>4 DEF TypeOK
  <2>4. /\ disk' \in [Threads -> SUBSET Nat] /\ files' \subseteq Threads /\ old' \subseteq Threads
    BY <1>1, <1>3, <1>4 DEF TypeOK
  <2>5. /\ open' \in [Sessions -> SUBSET Threads] /\ lost' \in [Sessions -> SUBSET Threads]
        /\ \A u \in Sessions : /\ lost'[u] \subseteq open'[u]
                              /\ Cardinality(open'[u]) <= MAX_OPEN_THREAD_FILES
    BY <1>1, <1>3, UsesKeepsHandles
  <2> QED BY <1>1, <1>2, <2>1, <2>2, <2>3, <2>4, <2>5 DEF TypeOK
<1>11. Placed'
  BY <1>2, <1>3, <1>5 DEF SharedInv, Placed, Up
<1>12. Mirrored'
  BY <1>4, <1>5, <1>6, <1>7, <1>8 DEF SharedInv, Mirrored
<1>13. Dated'
  BY <1>4, <1>7, <1>8, <1>9 DEF SharedInv, Dated
<1>14. Linked'
  BY <1>2 DEF SharedInv, Linked
<1>15. OwnRow'
  BY <1>2 DEF SharedInv, OwnRow, Up
<1>16. Solitary'
  BY <1>2 DEF SharedInv, Solitary, Up
<1>17. Degraded'
  BY <1>2 DEF SharedInv, Degraded, Up
<1>18. SharedInv'
  BY <1>10, <1>11, <1>12, <1>13, <1>14, <1>15, <1>16, <1>17 DEF SharedInv
<1>19. ASSUME StoreInv PROVE StoreInv'
  <2>1. \A u \in Sessions : Up(u) /\ u # s => t \notin Mine(u)
    BY <1>19, <1>3, SteppingAlone
  <2>2. t \notin unmarked => after = told'[t]
    BY <1>19, <1>3, <1>7, SteppingAlone
  <2>15. Apart'
    BY <1>19, <1>2, <1>5 DEF StoreInv, Apart, Mine, Up
  <2>16. Untouched'
    <3>1. \A u \in Sessions : Up(u) /\ u # s => thread[u] # t /\ thread[u] \in Threads
      BY <1>19, <2>1 DEF StoreInv, SharedInv, Placed, Mine
    <3> QED BY <1>19, <3>1, <1>2, <1>5, <1>7 DEF StoreInv, Untouched, Up
  <2>17. Bound'
    <3>1. ASSUME NEW d \in Conversations, records[d] = t, NEW u \in Sessions, Up(u), u # s
          PROVE  conv[u] # d
      BY <3>1, <1>19, <1>3, StoreAssumption DEF StoreInv, SharedInv, OwnRow, Apart
    <3> QED BY <1>19, <3>1, <1>2, <1>5, <1>7 DEF StoreInv, Bound, Up
  <2>18. Whole'
    BY <1>19, <2>2, <1>2, <1>7, <1>9 DEF StoreInv, Whole
  <2>19. Saving'
    <3>1. \A u \in Sessions : Up(u) /\ u # s => thread[u] # t
      BY <2>1 DEF Mine
    <3> QED BY <1>19, <2>2, <3>1, <1>2, <1>7, <1>9 DEF StoreInv, Saving, Up
  <2>20. Remembered'
    <3> SUFFICES ASSUME NEW u \in Sessions, NEW k \in Threads, k \notin unmarked',
                        Up(u)', k \in Mine(u)'
                 PROVE  held'[u][k] = told'[k]
      BY DEF Remembered
    <3>1. CASE u = s /\ k = t
      BY <2>2, <3>1, <1>2, <1>6
    <3>2. CASE u = s /\ k # t
      BY <1>19, <3>2, <1>2, <1>5, <1>6, <1>7 DEF StoreInv, Remembered, Mine, Up
    <3>3. CASE u # s
      <4>1. Up(u) /\ k \in Mine(u)
        BY <3>3, <1>2, <1>5 DEF Mine, Up
      <4>2. k # t
        BY <3>3, <4>1, <2>1
      <4> QED BY <1>19, <3>3, <4>1, <4>2, <1>2, <1>6, <1>7 DEF StoreInv, Remembered
    <3> QED BY <3>1, <3>2, <3>3
  <2>22. Aged'
    BY <1>19, <1>2 DEF StoreInv, Aged, Up, Named
  <2>23. Swept'
    <3>1. \A k \in Threads : told[k] # {} => told'[k] # {}
      BY <1>7
    <3> QED BY <1>19, <3>1, <1>2 DEF StoreInv, Swept, Up, Named
  <2> QED BY <1>18, <2>15, <2>16, <2>17, <2>18, <2>19, <2>20, <2>22, <2>23 DEF StoreInv
<1> QED BY <1>18, <1>19

\* A step whose checkpoint stays in memory, because the write fails or an
\* earlier one has.
LEMMA UnsavedStepHolds ==
    ASSUME SharedInv, NEW s \in Sessions, NEW t, t = thread[s], NEW n, n = steps + 1,
           NEW after, after = Latest(s, t) \cup {n},
           stage[s] \in {"asking", "live"},
           steps' = n, told' = [told EXCEPT ![t] = @ \cup {n}],
           held' = [held EXCEPT ![s][t] = after],
           written' = [written EXCEPT ![s] = @ \cup {t}],
           cut' = [cut EXCEPT ![s] = TRUE],
           IF cut[s] THEN UNCHANGED shelf ELSE AppliesMark(TRUE, conv[s], t),
           UNCHANGED <<disk, files, old, open, lost, stage, thread, conv, doomed>>
    PROVE  SharedInv' /\ (StoreInv => StoreInv')
<1>1. TypeOK
  BY DEF SharedInv
<1>2. /\ disk' = disk /\ files' = files /\ old' = old /\ open' = open /\ lost' = lost
      /\ stage' = stage /\ thread' = thread /\ conv' = conv /\ doomed' = doomed
  OBVIOUS
<1>3. /\ t \in Threads /\ Up(s)
      /\ Latest(s, t) \subseteq told[t]
  <2>1. Up(s)
    BY DEF Up
  <2> QED BY <2>1, SteppingFacts
<1>4. after \subseteq Nat /\ after # {} /\ n \in Nat
  BY <1>1, <1>3 DEF TypeOK
<1>5. /\ \A k : k \in written'[s] <=> k \in written[s] \/ k = t
      /\ \A u \in Sessions \ {s} : written'[u] = written[u]
  BY <1>1 DEF TypeOK
<1>6. /\ held'[s][t] = after
      /\ \A k \in Threads \ {t} : held'[s][k] = held[s][k]
      /\ \A u \in Sessions \ {s} : held'[u] = held[u]
  BY <1>1, <1>3 DEF TypeOK
<1>7. /\ told'[t] = told[t] \cup {n} /\ told'[t] # {}
      /\ \A k \in Threads \ {t} : told'[k] = told[k]
  BY <1>1, <1>3 DEF TypeOK
<1>8. after \subseteq told'[t]
  BY <1>3, <1>7
<1>9. cut'[s] /\ \A u \in Sessions : (u # s => cut'[u] = cut[u]) /\ (cut[u] => cut'[u])
  BY <1>1 DEF TypeOK
<1>30. /\ NoThread \notin Threads /\ NoRow \notin Threads /\ NoThread # NoRow
       /\ NoConversation \notin Conversations
  BY StoreAssumption
<1>31. /\ index' \in [Conversations -> Links] /\ records' \in [Conversations -> Links]
       /\ unmarked' \in SUBSET Threads /\ unmarked \subseteq unmarked'
       /\ \A d \in Conversations :
            /\ index'[d] = index[d] \/ (d = conv[s] /\ index'[d] = NoThread)
            /\ records'[d] = records[d] \/
                    (d = conv[s] /\ records'[d] = NoThread /\ index'[d] = NoThread)
            /\ records'[d] = t => t \in unmarked'
       /\ conv[s] = NoConversation => index' = index
  <2>1. \A d \in Conversations : records[d] = t => conv[s] = d
    BY <1>3 DEF SharedInv, OwnRow
  <2>2. CASE cut[s]
    <3>1. index' = index /\ records' = records /\ unmarked' = unmarked
      BY <2>2 DEF shelf
    <3>2. \A d \in Conversations : records[d] = t => t \in unmarked
      BY <2>2, <1>3 DEF SharedInv, Degraded
    <3> QED BY <3>1, <3>2, <1>1 DEF TypeOK
  <2>3. CASE ~cut[s] /\ conv[s] = NoConversation
    <3>1. index' = index /\ records' = records /\ unmarked' = unmarked
      BY <2>3 DEF shelf, AppliesMark
    <3> QED BY <2>1, <2>3, <3>1, <1>1, <1>30 DEF TypeOK
  <2>4. CASE ~cut[s] /\ conv[s] # NoConversation
    <3>1. PICK where \in {"both", "index", "nowhere"} :
            /\ index' = IF where = "nowhere" THEN index ELSE [index EXCEPT ![conv[s]] = NoThread]
            /\ records' = IF where = "both" THEN [records EXCEPT ![conv[s]] = NoThread]
                          ELSE records
            /\ unmarked' = IF where = "both" THEN unmarked ELSE unmarked \cup {t}
      BY <2>4 DEF AppliesMark, Marks
    <3>2. /\ index \in [Conversations -> Links] /\ records \in [Conversations -> Links]
          /\ unmarked \subseteq Threads /\ NoThread \in Links
      BY <1>1 DEF TypeOK, Links
    <3>3. /\ index' \in [Conversations -> Links] /\ records' \in [Conversations -> Links]
          /\ unmarked' \in SUBSET Threads /\ unmarked \subseteq unmarked'
      BY <3>1, <3>2, <1>3
    <3>4. \A d \in Conversations :
            /\ index'[d] = index[d] \/ (d = conv[s] /\ index'[d] = NoThread)
            /\ records'[d] = records[d] \/
                    (d = conv[s] /\ records'[d] = NoThread /\ index'[d] = NoThread)
      BY <3>1, <3>2
    <3>5. \A d \in Conversations : records'[d] = t => t \in unmarked'
      BY <2>1, <3>1, <3>2, <1>3, <1>30
    <3> QED BY <2>4, <3>3, <3>4, <3>5
  <2> QED BY <2>2, <2>3, <2>4
<1>32. \A d \in Conversations : /\ index'[d] \in Threads => index'[d] = index[d]
                                /\ records'[d] \in Threads => records'[d] = records[d]
  BY <1>30, <1>31
<1>33. \A u \in Sessions : Up(u) => thread[u] \in Threads
  BY DEF SharedInv, Placed
<1>10. TypeOK'
  <2>1. held' \in [Sessions -> [Threads -> SUBSET Nat]]
    BY <1>1, <1>3, <1>4 DEF TypeOK
  <2>2. written' \in [Sessions -> SUBSET Threads]
    BY <1>1, <1>3 DEF TypeOK
  <2>3. told' \in [Threads -> SUBSET Nat] /\ steps' \in Nat
    BY <1>1, <1>3, <1>4 DEF TypeOK
  <2>4. cut' \in [Sessions -> BOOLEAN]
    BY <1>1 DEF TypeOK
  <2> QED BY <1>1, <1>2, <1>31, <2>1, <2>2, <2>3, <2>4 DEF TypeOK
<1>11. Placed'
  <2>1. \A d \in Conversations : index[d] # NoRow => index'[d] # NoRow
    BY <1>30, <1>31
  <2>2. \A u \in Sessions : conv[u] # NoConversation => conv[u] \in Conversations
    BY <1>1 DEF TypeOK
  <2> QED BY <2>1, <2>2, <1>2, <1>3, <1>5, <1>9 DEF SharedInv, Placed, Up
<1>12. Mirrored'
  BY <1>4, <1>5, <1>6, <1>7, <1>8 DEF SharedInv, Mirrored
<1>13. Dated'
  <2>1. \A k \in Threads : told[k] \subseteq told'[k]
    BY <1>7
  <2> QED BY <2>1, <1>2 DEF SharedInv, Dated
<1>14. Linked'
  <2>1. \A d \in Conversations : index'[d] \in Threads => records'[d] = index'[d]
    BY <1>30, <1>31 DEF SharedInv, Linked
  <2>2. \A d \in Conversations : index'[d] = NoRow <=> records'[d] = NoRow
    <3>1. conv[s] \in Conversations => index[conv[s]] # NoRow
      BY <1>30 DEF SharedInv, Placed
    <3> QED BY <3>1, <1>30, <1>31 DEF SharedInv, Linked
  <2>3. \A d, e \in Conversations : records'[d] \in Threads /\ records'[d] = records'[e] => d = e
    BY <1>32, <1>33 DEF SharedInv, Linked
  <2> QED BY <2>1, <2>2, <2>3 DEF Linked
<1>15. OwnRow'
  BY <1>2, <1>32, <1>33 DEF SharedInv, OwnRow, Up
<1>16. Solitary'
  BY <1>2 DEF SharedInv, Solitary, Up
<1>17. Degraded'
  BY <1>2, <1>9, <1>31, <1>32, <1>33 DEF SharedInv, Degraded, Up
<1>18. SharedInv'
  BY <1>10, <1>11, <1>12, <1>13, <1>14, <1>15, <1>16, <1>17 DEF SharedInv
<1>19. ASSUME StoreInv PROVE StoreInv'
  <2>1. \A u \in Sessions : Up(u) /\ u # s => t \notin Mine(u)
    BY <1>19, <1>3, SteppingAlone
  <2>2. t \notin unmarked => after = told'[t]
    BY <1>19, <1>3, <1>7, SteppingAlone
  <2>15. Apart'
    BY <1>19, <1>2, <1>5 DEF StoreInv, Apart, Mine, Up
  <2>16. Untouched'
    <3>1. \A u \in Sessions : Up(u) /\ u # s => thread[u] # t /\ thread[u] \in Threads
      BY <1>19, <2>1 DEF StoreInv, SharedInv, Placed, Mine
    <3> QED BY <1>19, <3>1, <1>2, <1>5, <1>7 DEF StoreInv, Untouched, Up
  <2>17. Bound'
    <3>1. ASSUME NEW d \in Conversations, records[d] = t, NEW u \in Sessions, Up(u), u # s
          PROVE  conv[u] # d
      BY <3>1, <1>19, <1>3, StoreAssumption DEF StoreInv, SharedInv, OwnRow, Apart
    <3> QED BY <1>19, <3>1, <1>2, <1>5, <1>7, <1>32, <1>33 DEF StoreInv, Bound, Up
  <2>18. Whole'
    BY <1>19, <1>2, <1>7, <1>31, <1>32, <1>33 DEF StoreInv, Whole
  <2>19. Saving'
    <3>1. \A u \in Sessions : Up(u) /\ u # s => thread[u] # t
      BY <2>1 DEF Mine
    <3> QED BY <1>19, <3>1, <1>2, <1>7, <1>9, <1>31, <1>32, <1>33 DEF StoreInv, Saving, Up
  <2>20. Remembered'
    <3> SUFFICES ASSUME NEW u \in Sessions, NEW k \in Threads, k \notin unmarked',
                        Up(u)', k \in Mine(u)'
                 PROVE  held'[u][k] = told'[k]
      BY DEF Remembered
    <3>0. k \notin unmarked
      BY <1>31
    <3>1. CASE u = s /\ k = t
      BY <2>2, <3>0, <3>1, <1>2, <1>6
    <3>2. CASE u = s /\ k # t
      BY <1>19, <3>0, <3>2, <1>2, <1>5, <1>6, <1>7 DEF StoreInv, Remembered, Mine, Up
    <3>3. CASE u # s
      <4>1. Up(u) /\ k \in Mine(u)
        BY <3>3, <1>2, <1>5 DEF Mine, Up
      <4>2. k # t
        BY <3>3, <4>1, <2>1
      <4> QED BY <1>19, <3>0, <3>3, <4>1, <4>2, <1>2, <1>6, <1>7 DEF StoreInv, Remembered
    <3> QED BY <3>1, <3>2, <3>3
  <2>22. Aged'
    <3>1. ASSUME NEW u \in Sessions, u # s, Up(u), Named(thread[u]) PROVE Named(thread[u])'
      <4>1. PICK d \in Conversations : index[d] = thread[u]
        BY <3>1 DEF Named
      <4>2. conv[u] = d
        BY <1>19, <3>1, <4>1, <1>32, <1>33 DEF StoreInv, SharedInv, Linked, OwnRow
      <4>3. conv[s] # d
        BY <1>19, <3>1, <4>2, <1>3, <1>30 DEF StoreInv, Apart
      <4> QED BY <4>1, <4>3, <1>2, <1>31 DEF Named
    <3>2. ASSUME stage[s] = "asking", Named(t) PROVE Named(t)'
      <4>1. conv[s] = NoConversation
        BY <1>19, <3>2 DEF StoreInv, SharedInv, Placed
      <4> QED BY <3>2, <4>1, <1>31 DEF Named
    <3> QED BY <1>19, <3>1, <3>2, <1>2, <1>3, <1>9, <1>32, <1>33 DEF StoreInv, Aged, Up
  <2>23. Swept'
    <3>1. \A k \in Threads : told[k] # {} => told'[k] # {}
      BY <1>7
    <3>2. \A k \in Threads : ~Named(k) => ~Named(k)'
      BY <1>32, <1>33 DEF Named
    <3> QED BY <1>19, <3>1, <3>2, <1>2, <1>9, <1>32, <1>33 DEF StoreInv, Swept, Up
  <2> QED BY <1>18, <2>15, <2>16, <2>17, <2>18, <2>19, <2>20, <2>22, <2>23 DEF StoreInv
<1> QED BY <1>18, <1>19

\* The row of a single run is inserted when it ends, cut already if the run
\* has stopped saving.
LEMMA NamedRecordHolds ==
    ASSUME SharedInv, NEW s \in Sessions, NEW t, t = thread[s], NEW c \in Conversations,
           stage[s] = "asking", stage' = [stage EXCEPT ![s] = "done"],
           index[c] = NoRow, conv' = [conv EXCEPT ![s] = c], files' = files \cup {t},
           NEW i \in {t, NoThread}, NEW r \in {t, NoThread}, i = t => r = t,
           index' = [index EXCEPT ![c] = i], records' = [records EXCEPT ![c] = r],
           unmarked' \in {unmarked, unmarked \cup {t}},
           ~cut[s] => i = t, cut[s] /\ r = t => t \in unmarked',
           UNCHANGED <<disk, old, steps, told, thread, cut, held, written, open, lost, doomed>>
    PROVE  SharedInv' /\ (StoreInv => StoreInv')
<1>1. TypeOK
  BY DEF SharedInv
<1>2. /\ disk' = disk /\ old' = old /\ steps' = steps /\ told' = told /\ thread' = thread
      /\ cut' = cut /\ held' = held /\ written' = written /\ open' = open /\ lost' = lost
      /\ doomed' = doomed
  OBVIOUS
<1>3. /\ NoThread \notin Threads /\ NoRow \notin Threads /\ NoThread # NoRow
      /\ NoConversation \notin Conversations
  BY StoreAssumption
<1>4. Up(s) /\ t \in Threads /\ conv[s] = NoConversation
  BY DEF SharedInv, Placed, Up
<1>5. /\ stage'[s] = "done" /\ conv'[s] = c
      /\ \A u \in Sessions \ {s} : stage'[u] = stage[u] /\ conv'[u] = conv[u]
      /\ index'[c] = i /\ records'[c] = r
      /\ \A d \in Conversations \ {c} : index'[d] = index[d] /\ records'[d] = records[d]
  BY <1>1 DEF TypeOK
<1>6. i # NoRow /\ r # NoRow /\ unmarked \subseteq unmarked' /\ unmarked' \subseteq Threads
  BY <1>1, <1>3, <1>4 DEF TypeOK
<1>7. \A d \in Conversations : records[d] # t /\ index[d] # t
  BY <1>3, <1>4 DEF SharedInv, OwnRow, Linked
<1>8. /\ \A u \in Sessions : conv[u] # c
      /\ \A u \in Sessions : Up(u) /\ u # s => thread[u] # t
  <2>1. c # NoConversation
    BY <1>3
  <2> QED BY <2>1, <1>4 DEF SharedInv, Placed, Solitary
<1>9. records[c] = NoRow
  BY DEF SharedInv, Linked
<1>10. TypeOK'
  <2>1. i \in Links /\ r \in Links
    BY <1>4 DEF Links
  <2>2. index' \in [Conversations -> Links] /\ records' \in [Conversations -> Links]
    BY <1>1, <2>1 DEF TypeOK
  <2>3. /\ stage' \in [Sessions -> {"off", "asking", "live", "done", "closing"}]
        /\ conv' \in [Sessions -> Conversations \cup {NoConversation}]
        /\ files' \subseteq Threads
    BY <1>1, <1>4 DEF TypeOK
  <2> QED BY <1>1, <1>2, <1>6, <2>2, <2>3 DEF TypeOK
<1>11. Placed'
  <2>1. \A u \in Sessions : conv[u] # NoConversation => conv[u] \in Conversations
    BY <1>1 DEF TypeOK
  <2> QED BY <2>1, <1>2, <1>4, <1>5, <1>6, <1>8 DEF SharedInv, Placed, Up
<1>12. Mirrored'
  BY <1>2 DEF SharedInv, Mirrored
<1>13. Dated'
  BY <1>2 DEF SharedInv, Dated
<1>14. Linked'
  BY <1>3, <1>5, <1>6, <1>7 DEF SharedInv, Linked
<1>15. OwnRow'
  <2>1. \A u \in Sessions : Up(u)' => Up(u) /\ thread[u] \in Threads
    BY <1>4, <1>5 DEF SharedInv, Placed, Up
  <2> QED BY <2>1, <1>2, <1>3, <1>4, <1>5, <1>7, <1>8 DEF SharedInv, OwnRow
<1>16. Solitary'
  BY <1>2, <1>4, <1>5 DEF SharedInv, Solitary, Up
<1>17. Degraded'
  <2>1. \A u \in Sessions : Up(u) => thread[u] \in Threads
    BY DEF SharedInv, Placed
  <2> QED BY <2>1, <1>2, <1>3, <1>4, <1>5, <1>6, <1>7, <1>8 DEF SharedInv, Degraded, Up
<1>18. SharedInv'
  BY <1>10, <1>11, <1>12, <1>13, <1>14, <1>15, <1>16, <1>17 DEF SharedInv
<1>19. ASSUME StoreInv PROVE StoreInv'
  <2>15. Apart'
    BY <1>19, <1>2, <1>4, <1>5, <1>8 DEF StoreInv, Apart, Mine, Up
  <2>16. Untouched'
    BY <1>19, <1>2, <1>4, <1>5 DEF StoreInv, Untouched, Up
  <2>17. Bound'
    <3>1. ASSUME NEW d \in Conversations
          PROVE  conv'[s] = d /\ records'[d] \in Threads /\ told'[records'[d]] # {} =>
                    records'[d] \in written'[s]
      BY <1>19, <1>2, <1>3, <1>4, <1>5, <1>7 DEF StoreInv, Untouched
    <3>2. ASSUME NEW u \in Sessions, u # s, Up(u), NEW d \in Conversations
          PROVE  conv'[u] = d /\ records'[d] \in Threads /\ told'[records'[d]] # {} =>
                    records'[d] \in written'[u]
      <4>1. thread[u] \in Threads
        BY <1>19, <3>2 DEF StoreInv, SharedInv, Placed
      <4> QED BY <1>19, <3>2, <4>1, <1>2, <1>3, <1>5, <1>8 DEF StoreInv, Bound
    <3>3. \A u \in Sessions : u # s /\ Up(u)' => Up(u)
      BY <1>5 DEF Up
    <3> QED BY <3>1, <3>2, <3>3 DEF Bound
  <2>18. Whole'
    <3>1. t \notin unmarked' /\ r = t => disk[t] \in {{}, told[t]}
      <4>1. t \notin unmarked' /\ r = t => ~cut[s] /\ t \notin unmarked
        BY <1>6
      <4> QED BY <1>19, <4>1, <1>4 DEF StoreInv, Saving
    <3> QED BY <1>19, <3>1, <1>2, <1>3, <1>5, <1>6 DEF StoreInv, Whole
  <2>19. Saving'
    BY <1>19, <1>2, <1>4, <1>5, <1>6 DEF StoreInv, Saving, Up
  <2>20. Remembered'
    BY <1>19, <1>2, <1>4, <1>5, <1>6 DEF StoreInv, Remembered, Mine, Up
  <2>22. Aged'
    <3>1. Named(t)' \/ cut[s]
      BY <1>5 DEF Named
    <3>2. ASSUME NEW u \in Sessions, Named(thread[u]), Up(u) PROVE Named(thread[u])'
      <4>1. PICK d \in Conversations : index[d] = thread[u]
        BY <3>2 DEF Named
      <4>2. d # c
        BY <1>19, <3>2, <4>1, <1>3 DEF StoreInv, SharedInv, Placed
      <4> QED BY <4>1, <4>2, <1>2, <1>5 DEF Named
    <3> QED BY <1>19, <3>1, <3>2, <1>2, <1>5 DEF StoreInv, Aged, Up
  <2>23. Swept'
    <3>1. \A k \in Threads : ~Named(k) /\ k # t => ~Named(k)'
      BY <1>3, <1>5 DEF Named
    <3>2. Attended => \A u \in Sessions : t \notin doomed[u]
      BY <1>19, <1>4 DEF StoreInv, Swept
    <3> QED BY <1>19, <3>1, <3>2, <1>2, <1>4, <1>5 DEF StoreInv, Swept, Up
  <2> QED BY <1>18, <2>15, <2>16, <2>17, <2>18, <2>19, <2>20, <2>22, <2>23 DEF StoreInv
<1> QED BY <1>18, <1>19

\* The end of a session's work, with what it selects to sweep.
LEMMA EndHolds ==
    ASSUME SharedInv, NEW s \in Sessions, NEW to \in {"done", "closing"},
           stage[s] \in {"asking", "live", "done"}, stage' = [stage EXCEPT ![s] = to],
           NEW chosen \in {doomed[s], {}, Unaddressable(written[s])},
           doomed' = [doomed EXCEPT ![s] = chosen],
           stage[s] = "asking" => chosen = doomed[s],
           UNCHANGED <<index, records, files, conv, unmarked, disk, old, steps, told, thread,
                       cut, held, written, open, lost>>
    PROVE  SharedInv' /\ (StoreInv => StoreInv')
<1>1. TypeOK
  BY DEF SharedInv
<1>2. /\ disk' = disk /\ old' = old /\ steps' = steps /\ told' = told /\ thread' = thread
      /\ cut' = cut /\ held' = held /\ written' = written /\ open' = open /\ lost' = lost
      /\ index' = index /\ records' = records /\ unmarked' = unmarked /\ conv' = conv
      /\ files' = files
  OBVIOUS
<1>3. stage'[s] = to /\ \A u \in Sessions \ {s} : stage'[u] = stage[u]
  BY <1>1 DEF TypeOK
<1>4. doomed'[s] = chosen /\ \A u \in Sessions \ {s} : doomed'[u] = doomed[u]
  BY <1>1 DEF TypeOK
<1>5. stage[s] # "off" /\ to \notin {"off", "asking"}
  OBVIOUS
<1>10. TypeOK'
  <2>1. chosen \subseteq Threads
    BY <1>1 DEF TypeOK, Unaddressable
  <2>2. /\ stage' \in [Sessions -> {"off", "asking", "live", "done", "closing"}]
        /\ doomed' \in [Sessions \cup {Person} -> SUBSET Threads]
    BY <1>1, <2>1 DEF TypeOK
  <2> QED BY <1>1, <1>2, <2>2 DEF TypeOK
<1>11. Placed'
  BY <1>2, <1>3, <1>4, <1>5 DEF SharedInv, Placed, Up
<1>12. Mirrored'
  BY <1>2 DEF SharedInv, Mirrored
<1>13. Dated'
  BY <1>2 DEF SharedInv, Dated
<1>14. Linked'
  BY <1>2 DEF SharedInv, Linked
<1>15. OwnRow'
  BY <1>2, <1>3, <1>5 DEF SharedInv, OwnRow, Up
<1>16. Solitary'
  BY <1>2, <1>3, <1>5 DEF SharedInv, Solitary, Up
<1>17. Degraded'
  BY <1>2, <1>3, <1>5 DEF SharedInv, Degraded, Up
<1>18. SharedInv'
  BY <1>10, <1>11, <1>12, <1>13, <1>14, <1>15, <1>16, <1>17 DEF SharedInv
<1>19. ASSUME StoreInv PROVE StoreInv'
  <2>15. Apart'
    BY <1>19, <1>2, <1>3, <1>5 DEF StoreInv, Apart, Mine, Up
  <2>16. Untouched'
    BY <1>19, <1>2, <1>3, <1>5 DEF StoreInv, Untouched, Up
  <2>17. Bound'
    BY <1>19, <1>2, <1>3, <1>5 DEF StoreInv, Bound, Up
  <2>18. Whole'
    BY <1>19, <1>2 DEF StoreInv, Whole
  <2>19. Saving'
    BY <1>19, <1>2, <1>3, <1>5 DEF StoreInv, Saving, Up
  <2>20. Remembered'
    BY <1>19, <1>2, <1>3, <1>5 DEF StoreInv, Remembered, Mine, Up
  <2>22. Aged'
    BY <1>19, <1>2, <1>3, <1>5 DEF StoreInv, Aged, Up, Named
  <2>23. Swept'
    <3> SUFFICES ASSUME Attended, NEW v \in Sessions, NEW k \in Threads, k \in doomed'[v]
                 PROVE  /\ Up(v)' /\ told'[k] # {} /\ ~Named(k)'
                        /\ \A u \in Sessions :
                              Up(u)' /\ thread'[u] = k => cut'[u] /\ stage'[u] # "asking"
      BY DEF Swept
    <3>1. CASE k \in doomed[v]
      BY <1>19, <3>1, <1>2, <1>3, <1>5 DEF StoreInv, Swept, Up, Named
    <3>2. CASE k \notin doomed[v]
      <4>1. v = s /\ k \in Unaddressable(written[s])
        BY <3>2, <1>4
      <4>2. told[k] # {} /\ ~Named(k) /\ k \in old
        BY <4>1 DEF Unaddressable, SharedInv, Dated
      <4>3. \A u \in Sessions : Up(u) /\ thread[u] = k => cut[u] /\ stage[u] # "asking"
        BY <1>19, <4>2 DEF StoreInv, Aged
      <4> QED BY <4>1, <4>2, <4>3, <1>2, <1>3, <1>5 DEF Up, Named
    <3> QED BY <3>1, <3>2
  <2> QED BY <1>18, <2>15, <2>16, <2>17, <2>18, <2>19, <2>20, <2>22, <2>23 DEF StoreInv
<1> QED BY <1>18, <1>19

\* A person selects what to prune; the sweeps of the sessions are not affected.
LEMMA PruneHolds ==
    ASSUME SharedInv, Prune
    PROVE  SharedInv' /\ (StoreInv => StoreInv')
<1>1. TypeOK
  BY DEF SharedInv
<1>2. /\ disk' = disk /\ old' = old /\ steps' = steps /\ told' = told /\ thread' = thread
      /\ cut' = cut /\ held' = held /\ written' = written /\ open' = open /\ lost' = lost
      /\ index' = index /\ records' = records /\ unmarked' = unmarked /\ conv' = conv
      /\ files' = files /\ stage' = stage
  BY DEF Prune, shelf, rows, life, place, saver, handles
<1>3. PICK bounds \in SUBSET {t \in Threads : Named(t) /\ disk[t] # {}} :
            doomed' = [doomed EXCEPT ![Person] = bounds \cup Unaddressable({})]
  BY DEF Prune
<1>4. \A u \in Sessions : doomed'[u] = doomed[u]
  BY <1>1, <1>3, StoreAssumption DEF TypeOK
<1>10. TypeOK'
  <2>1. bounds \cup Unaddressable({}) \subseteq Threads
    BY DEF Unaddressable
  <2>2. doomed' \in [Sessions \cup {Person} -> SUBSET Threads]
    BY <1>1, <1>3, <2>1 DEF TypeOK
  <2> QED BY <1>1, <1>2, <2>2 DEF TypeOK
<1>11. Placed'
  BY <1>2, <1>4 DEF SharedInv, Placed, Up
<1>12. Mirrored' /\ Dated' /\ Linked'
  BY <1>2 DEF SharedInv, Mirrored, Dated, Linked
<1>13. OwnRow' /\ Solitary' /\ Degraded'
  BY <1>2 DEF SharedInv, OwnRow, Solitary, Degraded, Up
<1>18. SharedInv'
  BY <1>10, <1>11, <1>12, <1>13 DEF SharedInv
<1>19. ASSUME StoreInv PROVE StoreInv'
  <2>1. Apart' /\ Untouched' /\ Bound'
    BY <1>19, <1>2 DEF StoreInv, Apart, Mine, Untouched, Bound, Up
  <2>2. Whole' /\ Saving' /\ Remembered'
    BY <1>19, <1>2 DEF StoreInv, Whole, Saving, Remembered, Mine, Up
  <2>3. Aged'
    BY <1>19, <1>2 DEF StoreInv, Aged, Up, Named
  <2>4. Swept'
    BY <1>19, <1>2, <1>4 DEF StoreInv, Swept, Up, Named
  <2> QED BY <1>18, <2>1, <2>2, <2>3, <2>4 DEF StoreInv
<1> QED BY <1>18, <1>19

\* A selected thread is removed, whoever selected it and whoever is on it.
LEMMA RemoveHolds ==
    ASSUME SharedInv, NEW a \in Sessions \cup {Person}, NEW t \in Threads, Remove(a, t)
    PROVE  SharedInv' /\ (StoreInv => StoreInv')
<1>1. TypeOK
  BY DEF SharedInv
<1>2. /\ steps' = steps /\ told' = told /\ thread' = thread /\ cut' = cut /\ held' = held
      /\ written' = written /\ open' = open /\ index' = index /\ records' = records
      /\ unmarked' = unmarked /\ conv' = conv /\ stage' = stage
  BY DEF Remove, shelf, life, place, saver
<1>3. doomed' = [doomed EXCEPT ![a] = @ \ {t}]
  BY DEF Remove
<1>4. /\ doomed' \in [Sessions \cup {Person} -> SUBSET Threads]
      /\ \A v \in Sessions \cup {Person} : doomed'[v] \subseteq doomed[v]
  BY <1>1, <1>3 DEF TypeOK
<1>5. /\ disk' \in [Threads -> SUBSET Nat] /\ old' \subseteq old
      /\ \A k \in Threads : disk'[k] = disk[k] \/ (k = t /\ disk'[k] = {})
      /\ \A k \in old' : disk'[k] = disk[k]
  <2>1. CASE disk' = [disk EXCEPT ![t] = {}] /\ old' = old \ {t}
    BY <2>1, <1>1 DEF TypeOK
  <2>2. CASE UNCHANGED <<rows, lost>>
    BY <2>2, <1>1 DEF TypeOK, rows
  <2> QED BY <2>1, <2>2 DEF Remove
<1>6. /\ files' \subseteq Threads /\ lost' \in [Sessions -> SUBSET Threads]
      /\ \A u \in Sessions : lost'[u] \subseteq open[u]
  <2>1. CASE UNCHANGED <<files, lost>>
    BY <2>1, <1>1 DEF TypeOK
  <2>2. CASE /\ files' = files \ {t}
             /\ lost' = [u \in Sessions |->
                                IF t \in open[u] THEN lost[u] \cup {t} ELSE lost[u]]
    BY <2>2, <1>1 DEF TypeOK
  <2> QED BY <2>1, <2>2 DEF Remove, rows
<1>10. TypeOK'
  <2>1. old' \subseteq Threads
    BY <1>1, <1>5 DEF TypeOK
  <2> QED BY <1>1, <1>2, <1>4, <1>5, <1>6, <2>1 DEF TypeOK
<1>11. Placed'
  <2>1. \A u \in Sessions : doomed[u] = {} => doomed'[u] = {}
    BY <1>4
  <2> QED BY <1>2, <2>1 DEF SharedInv, Placed, Up
<1>12. Mirrored' /\ Linked'
  BY <1>2 DEF SharedInv, Mirrored, Linked
<1>13. Dated'
  BY <1>1, <1>2, <1>5 DEF SharedInv, Dated
<1>14. OwnRow' /\ Solitary' /\ Degraded'
  BY <1>2 DEF SharedInv, OwnRow, Solitary, Degraded, Up
<1>18. SharedInv'
  BY <1>10, <1>11, <1>12, <1>13, <1>14 DEF SharedInv
<1>19. ASSUME StoreInv PROVE StoreInv'
  <2>1. Apart' /\ Untouched' /\ Bound'
    BY <1>19, <1>2 DEF StoreInv, Apart, Mine, Untouched, Bound, Up
  <2>2. Whole'
    BY <1>19, <1>2, <1>5 DEF StoreInv, Whole
  <2>3. Saving'
    BY <1>19, <1>2, <1>5 DEF StoreInv, Saving, Up
  <2>4. Remembered'
    BY <1>19, <1>2 DEF StoreInv, Remembered, Mine, Up
  <2>5. Aged'
    BY <1>19, <1>2, <1>5 DEF StoreInv, Aged, Up, Named
  <2>6. Swept'
    BY <1>19, <1>2, <1>4 DEF StoreInv, Swept, Up, Named
  <2> QED BY <1>18, <2>1, <2>2, <2>3, <2>4, <2>5, <2>6 DEF StoreInv
<1> QED BY <1>18, <1>19

\* A process ends, in whatever way.
LEMMA GoneHolds ==
    ASSUME SharedInv, NEW s \in Sessions, Gone(s)
    PROVE  SharedInv' /\ (StoreInv => StoreInv')
<1>1. TypeOK
  BY DEF SharedInv
<1>2. /\ disk' = disk /\ old' = old /\ steps' = steps /\ told' = told /\ files' = files
      /\ index' = index /\ records' = records /\ unmarked' = unmarked
  BY DEF Gone, shelf, rows, life
<1>3. /\ stage'[s] = "off" /\ thread'[s] = NoThread /\ conv'[s] = NoConversation
      /\ cut'[s] = FALSE /\ written'[s] = {} /\ open'[s] = {} /\ lost'[s] = {}
      /\ doomed'[s] = {} /\ \A t \in Threads : held'[s][t] = {}
  BY <1>1 DEF Gone, TypeOK
<1>4. \A u \in Sessions \ {s} :
            /\ stage'[u] = stage[u] /\ thread'[u] = thread[u] /\ conv'[u] = conv[u]
            /\ cut'[u] = cut[u] /\ written'[u] = written[u] /\ held'[u] = held[u]
            /\ open'[u] = open[u] /\ lost'[u] = lost[u] /\ doomed'[u] = doomed[u]
  BY <1>1 DEF Gone, TypeOK
<1>10. TypeOK'
  <2>0. Cardinality({}) = 0
    BY FS_EmptySet
  <2>01. MAX_OPEN_THREAD_FILES \in Nat
    BY StoreAssumption
  <2>02. 0 <= MAX_OPEN_THREAD_FILES
    BY <2>01
  <2>1. /\ stage' \in [Sessions -> {"off", "asking", "live", "done", "closing"}]
        /\ thread' \in [Sessions -> Threads \cup {NoThread}]
        /\ conv' \in [Sessions -> Conversations \cup {NoConversation}]
        /\ cut' \in [Sessions -> BOOLEAN]
    BY <1>1 DEF Gone, TypeOK
  <2>2. held' \in [Sessions -> [Threads -> SUBSET Nat]]
    BY <1>1 DEF Gone, TypeOK
  <2>3. /\ written' \in [Sessions -> SUBSET Threads]
        /\ open' \in [Sessions -> SUBSET Threads] /\ lost' \in [Sessions -> SUBSET Threads]
        /\ doomed' \in [Sessions \cup {Person} -> SUBSET Threads]
    BY <1>1 DEF Gone, TypeOK
  <2>4. \A u \in Sessions : lost'[u] \subseteq open'[u]
    BY <1>1, <1>3, <1>4 DEF TypeOK
  <2>5. Cardinality(open'[s]) <= MAX_OPEN_THREAD_FILES
    BY <1>3, <2>0, <2>02, Zenon
  <2>6. \A u \in Sessions : Cardinality(open'[u]) <= MAX_OPEN_THREAD_FILES
    BY <1>1, <1>4, <2>5 DEF TypeOK
  <2> QED BY <1>1, <1>2, <2>1, <2>2, <2>3, <2>4, <2>6 DEF TypeOK
<1>11. Placed'
  BY <1>2, <1>3, <1>4 DEF SharedInv, Placed, Up
<1>12. Mirrored'
  BY <1>2, <1>3, <1>4 DEF SharedInv, Mirrored
<1>13. Dated' /\ Linked'
  BY <1>2 DEF SharedInv, Dated, Linked
<1>14. OwnRow' /\ Solitary' /\ Degraded'
  BY <1>2, <1>3, <1>4 DEF SharedInv, OwnRow, Solitary, Degraded, Up
<1>18. SharedInv'
  BY <1>10, <1>11, <1>12, <1>13, <1>14 DEF SharedInv
<1>19. ASSUME StoreInv PROVE StoreInv'
  <2>1. Apart'
    BY <1>19, <1>3, <1>4 DEF StoreInv, Apart, Mine, Up
  <2>2. Untouched' /\ Bound'
    BY <1>19, <1>2, <1>3, <1>4 DEF StoreInv, Untouched, Bound, Up
  <2>3. Whole'
    BY <1>19, <1>2 DEF StoreInv, Whole
  <2>4. Saving' /\ Remembered'
    BY <1>19, <1>2, <1>3, <1>4 DEF StoreInv, Saving, Remembered, Mine, Up
  <2>5. Aged'
    BY <1>19, <1>2, <1>3, <1>4 DEF StoreInv, Aged, Up, Named
  <2>6. Swept'
    BY <1>19, <1>2, <1>3, <1>4 DEF StoreInv, Swept, Up, Named
  <2> QED BY <1>18, <2>1, <2>2, <2>3, <2>4, <2>5, <2>6 DEF StoreInv
<1> QED BY <1>18, <1>19

\* The index is made again from the record files.
LEMMA RebuildHolds ==
    ASSUME SharedInv, Rebuild
    PROVE  SharedInv' /\ (StoreInv => StoreInv')
<1>1. TypeOK
  BY DEF SharedInv
<1>2. /\ disk' = disk /\ old' = old /\ steps' = steps /\ told' = told /\ thread' = thread
      /\ cut' = cut /\ held' = held /\ written' = written /\ open' = open /\ lost' = lost
      /\ records' = records /\ unmarked' = unmarked /\ conv' = conv
      /\ files' = files /\ stage' = stage /\ doomed' = doomed
  BY DEF Rebuild, rows, life, place, saver, handles
<1>3. index' = records /\ \A u \in Sessions : ~Up(u)
  BY DEF Rebuild
<1>4. \A u \in Sessions : ~Up(u)'
  BY <1>2, <1>3 DEF Up
<1>10. TypeOK'
  BY <1>1, <1>2, <1>3 DEF TypeOK
<1>11. Placed'
  <2>1. \A u \in Sessions : conv[u] = NoConversation
    BY <1>3 DEF SharedInv, Placed
  <2> QED BY <2>1, <1>2, <1>4 DEF SharedInv, Placed, Up
<1>12. Mirrored' /\ Dated'
  BY <1>2 DEF SharedInv, Mirrored, Dated
<1>13. Linked'
  BY <1>2, <1>3 DEF SharedInv, Linked
<1>14. OwnRow' /\ Solitary' /\ Degraded'
  BY <1>4 DEF OwnRow, Solitary, Degraded
<1>18. SharedInv'
  BY <1>10, <1>11, <1>12, <1>13, <1>14 DEF SharedInv
<1>19. ASSUME StoreInv PROVE StoreInv'
  <2>1. Whole'
    BY <1>19, <1>2 DEF StoreInv, Whole
  <2>2. Apart' /\ Untouched' /\ Bound' /\ Saving' /\ Remembered' /\ Aged'
    BY <1>4 DEF Apart, Untouched, Bound, Saving, Remembered, Aged
  <2>3. Swept'
    BY <1>2, <1>3 DEF SharedInv, Placed, Swept
  <2> QED BY <1>18, <2>1, <2>2, <2>3 DEF StoreInv
<1> QED BY <1>18, <1>19

\* A day passes.
LEMMA DayPassesHolds ==
    ASSUME SharedInv, DayPasses
    PROVE  SharedInv' /\ (StoreInv => StoreInv')
<1>1. TypeOK
  BY DEF SharedInv
<1>2. /\ disk' = disk /\ steps' = steps /\ told' = told /\ thread' = thread
      /\ cut' = cut /\ held' = held /\ written' = written /\ open' = open /\ lost' = lost
      /\ index' = index /\ records' = records /\ unmarked' = unmarked /\ conv' = conv
      /\ files' = files /\ stage' = stage /\ doomed' = doomed
  BY DEF DayPasses, shelf, life, place, saver, handles
<1>3. /\ old' \subseteq Threads
      /\ \A t \in old' : t \in old \/
            (disk[t] # {} /\ ~(Attended /\ \E s \in Sessions : Up(s) /\ thread[s] = t))
  BY <1>1 DEF DayPasses, TypeOK
<1>10. TypeOK'
  BY <1>1, <1>2, <1>3 DEF TypeOK
<1>11. Placed' /\ Mirrored' /\ Linked'
  BY <1>2 DEF SharedInv, Placed, Mirrored, Linked, Up
<1>12. Dated'
  BY <1>2, <1>3 DEF SharedInv, Dated
<1>13. OwnRow' /\ Solitary' /\ Degraded'
  BY <1>2 DEF SharedInv, OwnRow, Solitary, Degraded, Up
<1>18. SharedInv'
  BY <1>10, <1>11, <1>12, <1>13 DEF SharedInv
<1>19. ASSUME StoreInv PROVE StoreInv'
  <2>1. Apart' /\ Untouched' /\ Bound'
    BY <1>19, <1>2 DEF StoreInv, Apart, Mine, Untouched, Bound, Up
  <2>2. Whole' /\ Saving' /\ Remembered'
    BY <1>19, <1>2 DEF StoreInv, Whole, Saving, Remembered, Mine, Up
  <2>3. Aged'
    BY <1>19, <1>2, <1>3 DEF StoreInv, Aged, Up, Named
  <2>4. Swept'
    BY <1>19, <1>2 DEF StoreInv, Swept, Up, Named
  <2> QED BY <1>18, <2>1, <2>2, <2>3, <2>4 DEF StoreInv
<1> QED BY <1>18, <1>19

-----------------------------------------------------------------------------
\* A step of a session's graph, saved or not.
LEMMA StepHolds ==
    ASSUME SharedInv, NEW s \in Sessions, Step(s)
    PROVE  SharedInv' /\ (StoreInv => StoreInv')
<1> DEFINE t == thread[s]
           n == steps + 1
           after == Latest(s, t) \cup {n}
<1>1. /\ stage[s] \in {"asking", "live"} /\ steps' = n /\ told' = [told EXCEPT ![t] = @ \cup {n}]
      /\ held' = [held EXCEPT ![s][t] = after] /\ written' = [written EXCEPT ![s] = @ \cup {t}]
      /\ stage' = stage /\ thread' = thread /\ conv' = conv /\ doomed' = doomed
  BY DEF Step, place
<1>2. CASE /\ ~cut[s] /\ Uses(s, t)
           /\ disk' = [disk EXCEPT ![t] = after] /\ files' = files \cup {t} /\ old' = old \ {t}
           /\ UNCHANGED <<cut, shelf>>
  <2>1. cut' = cut /\ index' = index /\ records' = records /\ unmarked' = unmarked
    BY <1>2 DEF shelf
  <2> HIDE DEF t, n, after
  <2> QED BY <1>1, <1>2, <2>1, SavedStepHolds DEF t, n, after
<1>3. CASE /\ ~cut[s] /\ cut' = [cut EXCEPT ![s] = TRUE] /\ AppliesMark(TRUE, conv[s], t)
           /\ UNCHANGED <<rows, handles>>
  <2>1. /\ disk' = disk /\ files' = files /\ old' = old /\ open' = open /\ lost' = lost
        /\ IF cut[s] THEN UNCHANGED shelf ELSE AppliesMark(TRUE, conv[s], t)
    BY <1>3 DEF rows, handles
  <2> QED BY <1>1, <1>3, <2>1, UnsavedStepHolds
<1>4. CASE cut[s] /\ UNCHANGED <<cut, shelf, rows, handles>>
  <2>1. /\ disk' = disk /\ files' = files /\ old' = old /\ open' = open /\ lost' = lost
        /\ IF cut[s] THEN UNCHANGED shelf ELSE AppliesMark(TRUE, conv[s], t)
    BY <1>4 DEF rows, handles
  <2>2. cut' = [cut EXCEPT ![s] = TRUE]
    <3>1. cut \in [Sessions -> BOOLEAN] /\ cut[s] = TRUE /\ cut' = cut
      BY <1>4 DEF SharedInv, TypeOK
    <3> QED BY <3>1
  <2> QED BY <1>1, <2>1, <2>2, UnsavedStepHolds
<1> QED BY <1>2, <1>3, <1>4 DEF Step

\* Every way a session starts or moves, and every way its work ends.
LEMMA StartChatHolds ==
    ASSUME SharedInv, NEW s \in Sessions, StartChat(s)
    PROVE  SharedInv' /\ (StoreInv => StoreInv')
<1>1. PICK t \in Threads :
        /\ Fresh(t) /\ thread' = [thread EXCEPT ![s] = t]
        /\ \/ \E c \in Conversations :
                /\ index[c] = NoRow
                /\ index' = [index EXCEPT ![c] = t] /\ records' = [records EXCEPT ![c] = t]
                /\ conv' = [conv EXCEPT ![s] = c] /\ files' = files \cup {t}
           \/ UNCHANGED <<index, records, conv, files>>
  BY DEF StartChat
<1>2. /\ stage[s] = "off" /\ stage' = [stage EXCEPT ![s] = "live"]
      /\ unmarked' = unmarked /\ disk' = disk /\ old' = old /\ steps' = steps /\ told' = told
      /\ cut' = cut /\ held' = held /\ written' = written /\ open' = open /\ lost' = lost
      /\ doomed' = doomed
  BY DEF StartChat, life, saver, handles
<1>3. CASE \E c \in Conversations :
                /\ index[c] = NoRow
                /\ index' = [index EXCEPT ![c] = t] /\ records' = [records EXCEPT ![c] = t]
                /\ conv' = [conv EXCEPT ![s] = c] /\ files' = files \cup {t}
  BY <1>1, <1>2, <1>3, NamedStartHolds
<1>4. CASE UNCHANGED <<index, records, conv, files>>
  BY <1>1, <1>2, <1>4, UnnamedStartHolds
<1> QED BY <1>1, <1>3, <1>4

\* A single run starts.
LEMMA StartAskHolds ==
    ASSUME SharedInv, NEW s \in Sessions, StartAsk(s)
    PROVE  SharedInv' /\ (StoreInv => StoreInv')
<1>1. PICK t \in Threads : Fresh(t) /\ thread' = [thread EXCEPT ![s] = t]
  BY DEF StartAsk
<1>2. /\ stage[s] = "off" /\ stage' = [stage EXCEPT ![s] = "asking"]
      /\ index' = index /\ records' = records /\ files' = files /\ conv' = conv
      /\ unmarked' = unmarked /\ disk' = disk /\ old' = old /\ steps' = steps /\ told' = told
      /\ cut' = cut /\ held' = held /\ written' = written /\ open' = open /\ lost' = lost
      /\ doomed' = doomed
  BY DEF StartAsk, shelf, rows, life, saver, handles
<1> QED BY <1>1, <1>2, UnnamedStartHolds

\* A session boots inside a stored conversation.
LEMMA BootResumeHolds ==
    ASSUME SharedInv, NEW s \in Sessions, NEW c \in Conversations,
           BootResume(s, c)
    PROVE  SharedInv' /\ (Sharing = "never" /\ StoreInv => StoreInv')
<1>1. stage[s] = "off" /\ CanResume(s, c) /\ Alone(s, index[c]) /\ Reads(s, index[c])
  BY DEF BootResume
<1>2. PICK t \in Threads : t = index[c]
  BY <1>1 DEF CanResume, SharedInv, TypeOK
<1>3. /\ stage' = [stage EXCEPT ![s] = "live"] /\ thread' = [thread EXCEPT ![s] = t]
      /\ conv' = [conv EXCEPT ![s] = c]
      /\ files' = files /\ disk' = disk /\ old' = old /\ steps' = steps /\ told' = told
      /\ cut' = cut /\ doomed' = doomed /\ UNCHANGED shelf
  BY <1>2 DEF BootResume, rows, life
<1>4. AppliesMark(cut[s], c, t)
  <2>1. ~cut[s]
    BY <1>1 DEF SharedInv, Placed, Up
  <2> QED BY <2>1, <1>3 DEF AppliesMark
<1> QED BY <1>1, <1>2, <1>3, <1>4, MoveHolds

\* `/resume`.
LEMMA ResumeHolds ==
    ASSUME SharedInv, NEW s \in Sessions, NEW c \in Conversations,
           Resume(s, c)
    PROVE  SharedInv' /\ (Sharing = "never" /\ StoreInv => StoreInv')
<1>1. stage[s] = "live" /\ CanResume(s, c) /\ Alone(s, index[c]) /\ Reads(s, index[c])
  BY DEF Resume
<1>2. PICK t \in Threads : t = index[c]
  BY <1>1 DEF CanResume, SharedInv, TypeOK
<1>3. /\ thread' = [thread EXCEPT ![s] = t] /\ conv' = [conv EXCEPT ![s] = c]
      /\ files' = files /\ disk' = disk /\ old' = old /\ steps' = steps /\ told' = told
      /\ cut' = cut /\ doomed' = doomed /\ stage' = stage /\ AppliesMark(cut[s], c, t)
  BY <1>2 DEF Resume, rows, life
<1>4. stage' = [stage EXCEPT ![s] = "live"]
  BY <1>1, <1>3 DEF SharedInv, TypeOK
<1> QED BY <1>1, <1>2, <1>3, <1>4, MoveHolds

\* The end of a single run.
LEMMA RecordHolds ==
    ASSUME SharedInv, NEW s \in Sessions, Record(s)
    PROVE  SharedInv' /\ (StoreInv => StoreInv')
<1> DEFINE t == thread[s]
<1>1. /\ stage[s] = "asking" /\ stage' = [stage EXCEPT ![s] = "done"]
      /\ disk' = disk /\ old' = old /\ steps' = steps /\ told' = told /\ thread' = thread
      /\ cut' = cut /\ held' = held /\ written' = written /\ open' = open /\ lost' = lost
      /\ doomed' = doomed
  BY DEF Record, life, saver, handles
<1>2. CASE UNCHANGED <<conv, files, shelf>>
  <2>1. doomed' = [doomed EXCEPT ![s] = doomed[s]]
    BY <1>1 DEF SharedInv, TypeOK
  <2>2. index' = index /\ records' = records /\ unmarked' = unmarked
    BY <1>2 DEF shelf
  <2> QED BY <1>1, <1>2, <2>1, <2>2, EndHolds
<1>3. ASSUME NEW c \in Conversations, index[c] = NoRow, conv' = [conv EXCEPT ![s] = c],
             files' = files \cup {t},
             IF ~cut[s]
               THEN /\ index' = [index EXCEPT ![c] = t] /\ records' = [records EXCEPT ![c] = t]
                    /\ UNCHANGED unmarked
               ELSE \E where \in {"both", "index", "nowhere"} :
                    /\ index' = [index EXCEPT ![c] = IF where = "nowhere" THEN t ELSE NoThread]
                    /\ records' = [records EXCEPT ![c] = IF where = "both" THEN NoThread ELSE t]
                    /\ unmarked' = IF where = "both" THEN unmarked ELSE unmarked \cup {t}
      PROVE  SharedInv' /\ (StoreInv => StoreInv')
  <2>1. CASE ~cut[s]
    <3>1. /\ index' = [index EXCEPT ![c] = t] /\ records' = [records EXCEPT ![c] = t]
          /\ unmarked' = unmarked
      BY <1>3, <2>1
    <3> QED BY <1>1, <1>3, <2>1, <3>1, NamedRecordHolds
  <2>2. CASE cut[s]
    <3>1. PICK where \in {"both", "index", "nowhere"} :
            /\ index' = [index EXCEPT ![c] = IF where = "nowhere" THEN t ELSE NoThread]
            /\ records' = [records EXCEPT ![c] = IF where = "both" THEN NoThread ELSE t]
            /\ unmarked' = IF where = "both" THEN unmarked ELSE unmarked \cup {t}
      BY <1>3, <2>2
    <3>2. CASE where = "both"
      <4>1. /\ index' = [index EXCEPT ![c] = NoThread]
            /\ records' = [records EXCEPT ![c] = NoThread] /\ unmarked' = unmarked
        BY <3>1, <3>2
      <4>2. t # NoThread
        BY <1>1, StoreAssumption DEF SharedInv, Placed, Up
      <4> QED BY <1>1, <1>3, <2>2, <4>1, <4>2, NamedRecordHolds
    <3>3. CASE where = "index"
      <4>1. /\ index' = [index EXCEPT ![c] = NoThread]
            /\ records' = [records EXCEPT ![c] = t] /\ unmarked' = unmarked \cup {t}
        BY <3>1, <3>3
      <4> QED BY <1>1, <1>3, <2>2, <4>1, NamedRecordHolds
    <3>4. CASE where = "nowhere"
      <4>1. /\ index' = [index EXCEPT ![c] = t]
            /\ records' = [records EXCEPT ![c] = t] /\ unmarked' = unmarked \cup {t}
        BY <3>1, <3>4
      <4> QED BY <1>1, <1>3, <2>2, <4>1, NamedRecordHolds
    <3> QED BY <3>1, <3>2, <3>3, <3>4
  <2> QED BY <2>1, <2>2
<1> QED BY <1>2, <1>3 DEF Record

\* The orderly close.
LEMMA CloseHolds ==
    ASSUME SharedInv, NEW s \in Sessions, Close(s)
    PROVE  SharedInv' /\ (StoreInv => StoreInv')
<1>1. /\ stage[s] \in {"live", "done"} /\ stage' = [stage EXCEPT ![s] = "closing"]
      /\ index' = index /\ records' = records /\ files' = files /\ conv' = conv
      /\ unmarked' = unmarked /\ disk' = disk /\ old' = old /\ steps' = steps /\ told' = told
      /\ thread' = thread /\ cut' = cut /\ held' = held /\ written' = written
      /\ open' = open /\ lost' = lost
  BY DEF Close, shelf, rows, life, saver, handles
<1>2. PICK chosen \in {{}, Unaddressable(written[s])} : doomed' = [doomed EXCEPT ![s] = chosen]
  BY DEF Close
<1> QED BY <1>1, <1>2, EndHolds

\* Every step keeps the invariant.
LEMMA NextHolds ==
    ASSUME SharedInv, [Next]_vars
    PROVE  SharedInv' /\ (Sharing = "never" /\ StoreInv => StoreInv')
<1> DEFINE Kept == SharedInv' /\ (Sharing = "never" /\ StoreInv => StoreInv')
<1>1. ASSUME NEW s \in Sessions, StartChat(s) PROVE Kept
  BY <1>1, StartChatHolds
<1>2. ASSUME NEW s \in Sessions, StartAsk(s) PROVE Kept
  BY <1>2, StartAskHolds
<1>3. ASSUME NEW s \in Sessions, Step(s) PROVE Kept
  BY <1>3, StepHolds
<1>4. ASSUME NEW s \in Sessions, Clear(s) PROVE Kept
  BY <1>4, ClearHolds
<1>5. ASSUME NEW s \in Sessions, Record(s) PROVE Kept
  BY <1>5, RecordHolds
<1>6. ASSUME NEW s \in Sessions, Close(s) PROVE Kept
  BY <1>6, CloseHolds
<1>7. ASSUME NEW s \in Sessions, Gone(s) PROVE Kept
  BY <1>7, GoneHolds
<1>8. ASSUME NEW s \in Sessions, NEW c \in Conversations, BootResume(s, c) PROVE Kept
  BY <1>8, BootResumeHolds
<1>9. ASSUME NEW s \in Sessions, NEW c \in Conversations, Resume(s, c) PROVE Kept
  BY <1>9, ResumeHolds
<1>10. ASSUME NEW s \in Sessions, NEW c \in Conversations, RefusedByTheRunner(s, c)
       PROVE  Kept
  BY <1>10, RefusedHolds
<1>11. ASSUME NEW a \in Sessions \cup {Person}, NEW t \in Threads, Remove(a, t) PROVE Kept
  BY <1>11, RemoveHolds
<1>12. CASE Prune
  BY <1>12, PruneHolds
<1>13. CASE Rebuild
  BY <1>13, RebuildHolds
<1>14. CASE DayPasses
  BY <1>14, DayPassesHolds
<1>15. CASE UNCHANGED vars
  <2>1. /\ index' = index /\ records' = records /\ files' = files /\ conv' = conv
        /\ unmarked' = unmarked /\ disk' = disk /\ old' = old /\ steps' = steps /\ told' = told
        /\ thread' = thread /\ cut' = cut /\ held' = held /\ written' = written
        /\ open' = open /\ lost' = lost /\ stage' = stage /\ doomed' = doomed
    BY <1>15 DEF vars, shelf, rows, life, place, saver, handles
  <2>2. SharedInv'
    <3>1. TypeOK' /\ Placed' /\ Mirrored' /\ Dated' /\ Linked'
      BY <2>1 DEF SharedInv, TypeOK, Placed, Mirrored, Dated, Linked, Up
    <3>2. OwnRow' /\ Solitary' /\ Degraded'
      BY <2>1 DEF SharedInv, OwnRow, Solitary, Degraded, Up
    <3> QED BY <3>1, <3>2 DEF SharedInv
  <2>3. ASSUME StoreInv PROVE StoreInv'
    <3>1. Apart' /\ Untouched' /\ Bound' /\ Whole'
      BY <2>1, <2>3 DEF StoreInv, Apart, Mine, Untouched, Bound, Whole, Up
    <3>2. Saving' /\ Remembered' /\ Aged' /\ Swept'
      BY <2>1, <2>3 DEF StoreInv, Saving, Remembered, Mine, Aged, Swept, Up, Named
    <3> QED BY <2>2, <3>1, <3>2 DEF StoreInv
  <2> QED BY <2>2, <2>3
<1> QED
  BY <1>1, <1>2, <1>3, <1>4, <1>5, <1>6, <1>7, <1>8, <1>9, <1>10, <1>11, <1>12, <1>13,
     <1>14, <1>15 DEF Next

\* What conversations promise however living processes share them.
LEMMA SharedInvariant == Spec => []SharedInv
<1>1. Init => SharedInv
  BY InitHolds DEF StoreInv
<1>2. SharedInv /\ [Next]_vars => SharedInv'
  BY NextHolds
<1> QED BY <1>1, <1>2, PTL DEF Spec

\* And as long as no two of them share one.
LEMMA StoreInvariant == ASSUME Sharing = "never" PROVE Spec => []StoreInv
<1>1. Init => StoreInv
  BY InitHolds
<1>2. StoreInv /\ [Next]_vars => StoreInv'
  BY NextHolds DEF StoreInv
<1> QED BY <1>1, <1>2, PTL DEF Spec

\* The variables of the store stay in range: no process holds more files open
\* than its limit (touchConnection, evictToCap).
THEOREM StoreTypeCorrect == Spec => []TypeOK
<1>1. SharedInv => TypeOK
  BY DEF SharedInv
<1> QED BY <1>1, SharedInvariant, PTL

\* What a resume would load is the whole conversation (resolveResumeTarget,
\* getTuple), after any writes that failed, processes that died, files that
\* were pruned and indexes that were rebuilt.
THEOREM ResumesAreWhole == ASSUME Sharing = "never" PROVE Spec => []ResumeIsWhole
<1>1. StoreInv => ResumeIsWhole
  <2> SUFFICES ASSUME StoreInv, NEW s \in Sessions, NEW c \in Conversations,
                      CanResume(s, c), Alone(s, index[c]), index[c] \notin unmarked
               PROVE  Latest(s, index[c]) = told[index[c]]
    BY DEF ResumeIsWhole
  <2> QED BY ReadingAlone
<1> QED BY <1>1, StoreInvariant, PTL

\* A running session reads back its whole conversation, even when the file of
\* its thread has been removed under it (getTuple reads the mirror first).
THEOREM ConversationsAreRemembered ==
    ASSUME Sharing = "never" PROVE Spec => []RunningConversationIsRemembered
<1>1. StoreInv => RunningConversationIsRemembered
  <2> SUFFICES ASSUME StoreInv, NEW s \in Sessions, Up(s), thread[s] \notin unmarked
               PROVE  Latest(s, thread[s]) = told[thread[s]]
    BY DEF RunningConversationIsRemembered
  <2> QED BY SteppingAlone
<1> QED BY <1>1, StoreInvariant, PTL

\* No row names the thread of a session that has stopped writing (applyMark),
\* even when other processes are on the conversation.
THEOREM DegradedAreUnlinked == Spec => []DegradedSessionsAreUnlinked
<1>1. SharedInv => DegradedSessionsAreUnlinked
  <2> SUFFICES ASSUME SharedInv, NEW s \in Sessions, NEW c \in Conversations,
                      Up(s), cut[s], index[c] = thread[s]
               PROVE  thread[s] \in unmarked
    BY DEF DegradedSessionsAreUnlinked
  <2>1. records[c] = thread[s]
    BY DEF SharedInv, Placed, Linked
  <2> QED BY <2>1 DEF SharedInv, Degraded
<1> QED BY <1>1, SharedInvariant, PTL

\* What a sweep removes was out of reach when it was removed and not only when
\* it was selected (sweepUnaddressable, removeThreadState), as long as no
\* session idles for a day.
THEOREM SweepsAreSafe ==
    ASSUME Sharing = "never", Attended PROVE Spec => SweepsTakeOnlyTheUnreachable
<1>1. ASSUME StoreInv PROVE
        \A s \in Sessions, t \in Threads :
            t \in doomed[s] =>
                ~Named(t) /\ \A u \in Sessions : Up(u) /\ ~cut[u] => thread[u] # t
  BY <1>1 DEF StoreInv, Swept
<1>2. StoreInv /\ [Next]_vars =>
        [\A s \in Sessions, t \in Threads :
            /\ t \in doomed[s] /\ t \notin doomed'[s] /\ disk[t] # {} /\ disk'[t] = {}
            => /\ ~Named(t)
               /\ \A u \in Sessions : Up(u) /\ ~cut[u] => thread[u] # t]_vars
  BY <1>1
<1> QED BY <1>2, StoreInvariant, PTL DEF Spec, SweepsTakeOnlyTheUnreachable
=============================================================================
