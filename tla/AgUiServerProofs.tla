-------------------------- MODULE AgUiServerProofs --------------------------
(***************************************************************************)
(* What the AG-UI server guarantees for every number of conversations,     *)
(* requests, calls and restarts.  That no call gets two results rests on   *)
(* where a result may come from: a call is made once, a thread is blank    *)
(* until its conversation is replayed into it, and a request that is heard *)
(* was sent with the conversation its client still holds.  That an answer  *)
(* reaches its call rests on who else may be on a thread: while a client   *)
(* waits, nobody.                                                          *)
(***************************************************************************)
EXTENDS AgUiServer, TLAPS

Active(r) == run[r].phase \in {"started", "running"}

\* A thread minted for a request that began, and not with an answer.
Minted(t) ==
    /\ t \in Runs
    /\ run[t].phase \in {"started", "running", "ended"}
    /\ ~IsResume(run[t])

\* Nothing is known of a call before it is made.
Fresh ==
    /\ \A k \in Calls : k > made =>
        /\ \A c \in Clients : history[c][k] = 0
        /\ \A r \in Runs : run[r].sent[k] = 0
        /\ \A t \in Threads : thread[t].results[k] = 0
    /\ \A c \in Clients : pending[c] <= made
    /\ \A t \in Threads : thread[t].asks <= made

\* Requests are numbered as they come.
Numbered == \A r \in Runs : r > served => run[r] = Idle

\* A client hears of its own request only, waits for nothing else, and until the
\* stream is open holds what it sent.
Listening ==
    \A c \in Clients :
        LET r == current[c] IN
        r # NoRun =>
            /\ run[r].client = c /\ run[r].phase \in {"binding", "started", "running"}
            /\ pending[c] = NoCall
            /\ run[r].phase # "running" => run[r].sent = history[c]

SentOnce == \A r \in Runs, k \in Calls : run[r].sent[k] <= 1

\* What is waited for has no result yet.
Unanswered ==
    /\ \A c \in Clients : pending[c] # NoCall => history[c][pending[c]] = 0
    /\ \A t \in Threads :
        thread[t].asks # NoCall => thread[t].results[thread[t].asks] = 0

\* Where a request may be.
Placed ==
    \A r \in Runs :
        /\ Active(r) => \/ Minted(run[r].thread)
                        \/ /\ run[r].thread = run[r].client
                           /\ run[r].phase = "started" /\ IsResume(run[r])
        /\ run[r].phase = "started" /\ ~IsResume(run[r]) => run[r].thread = r
        /\ run[r].phase = "running" =>
              run[run[r].thread].phase \in {"running", "ended"}

\* The threads nothing was put into yet.
Unused(t) ==
    \/ t \in Clients
    \/ run[t].phase \in {"new", "binding"}
    \/ run[t].phase = "started" /\ ~IsResume(run[t])

Blanks == \A t \in Threads : Unused(t) => thread[t] = Blank

Known ==
    /\ \A c \in Clients : mapped[c] # NoThread => Minted(mapped[c])
    /\ \A t \in doomed : Minted(t)

UniqueInv ==
    /\ TypeOK /\ Fresh /\ Numbered /\ Listening /\ SentOnce /\ Unanswered
    /\ Placed /\ Blanks /\ Known /\ ResultsAreUnique

-----------------------------------------------------------------------------
(* What the steps write. *)

Requests ==
    [phase : {"new", "binding", "started", "running", "ended"},
     client : Clients, answer : Calls \cup {NoCall}, sent : [Calls -> Nat],
     thread : Threads \cup {NoThread}, attempt : 0 .. 1, aborted : BOOLEAN]

LEMMA BoundsAreNumbers ==
    /\ MaxRuns \in Nat /\ MaxCalls \in Nat /\ MaxRestarts \in Nat
    /\ Runs \subseteq Nat /\ 0 \notin Runs /\ Runs \subseteq Threads
    /\ Calls \subseteq Nat /\ 0 \notin Calls
    /\ Clients \subseteq Threads /\ 0 \notin Clients /\ 0 \notin Threads
    /\ \A c \in Clients : c \notin Runs
BY BoundsAssumption, ClientsAssumption DEF Runs, Calls, Threads

LEMMA IdleIsARequest ==
    /\ Idle \in Requests /\ Idle.phase = "new" /\ Idle.answer = NoCall
    /\ Idle.sent = None /\ Idle.thread = NoThread
<1>1. (CHOOSE c \in Clients : TRUE) \in Clients
  BY ClientsAssumption
<1>2. QED
  BY <1>1 DEF Idle, Requests, None, NoCall, NoThread

LEMMA OverIsARequest ==
    /\ Over \in Requests /\ Over.phase = "ended" /\ Over.answer = NoCall
    /\ Over.sent = None /\ Over.thread = NoThread
BY IdleIsARequest DEF Over, Requests

LEMMA RunsAreRequests ==
    ASSUME TypeOK
    PROVE  run \in [Runs -> Requests]
BY DEF TypeOK, Requests

\* Every call named anywhere has been made.
LEMMA CallsAreMade ==
    ASSUME TypeOK, Fresh
    PROVE  /\ \A c \in Clients : pending[c] \in Nat /\ pending[c] <= made
           /\ \A t \in Threads : thread[t].asks \in Nat /\ thread[t].asks <= made
<1>1. Calls \cup {NoCall} \subseteq Nat
  BY BoundsAreNumbers DEF NoCall
<1>2. /\ \A c \in Clients : pending[c] \in Calls \cup {NoCall}
      /\ \A t \in Threads : thread[t].asks \in Calls \cup {NoCall}
  BY DEF TypeOK
<1>3. QED
  BY <1>1, <1>2 DEF Fresh

LEMMA NothingIsMade ==
    ASSUME TypeOK
    PROVE  made \in Nat /\ NoCall <= made
BY BoundsAreNumbers DEF TypeOK, NoCall

LEMMA BlankAsksNothing == Blank.asks = NoCall /\ Blank.results = None
BY DEF Blank

LEMMA EndsWrites ==
    ASSUME TypeOK, NEW r \in Runs, Ends(r)
    PROVE  /\ run' \in [Runs -> Requests] /\ run'[r] = Over
           /\ \A s \in Runs \ {r} : run'[s] = run[s]
BY RunsAreRequests, OverIsARequest DEF Ends

LEMMA HangUpWrites ==
    ASSUME TypeOK, NEW r \in Runs, HangUp(r)
    PROVE  /\ current' \in [Clients -> Runs \cup {NoRun}]
           /\ \A c \in Clients :
                 current'[c] = IF current[c] = r THEN NoRun ELSE current[c]
BY DEF HangUp, TypeOK

LEMMA BeginWrites ==
    ASSUME TypeOK, NEW r \in Runs, NEW q \in Requests, Begin(r, q)
    PROVE  /\ run' \in [Runs -> Requests]
           /\ run'[r].phase = "started" /\ run'[r].client = q.client
           /\ run'[r].answer = q.answer /\ run'[r].sent = q.sent
           /\ run'[r].thread = CheckpointThread(r, q)
           /\ \A s \in Runs \ {r} : run'[s] = run[s]
<1>1. CheckpointThread(r, q) \in Threads
  BY BoundsAreNumbers DEF CheckpointThread, TypeOK, Requests, Threads
<1>2. QED
  BY <1>1, RunsAreRequests DEF Begin, Requests

LEMMA RetireWrites ==
    ASSUME TypeOK, NEW r \in Runs, NEW q \in Requests, Retire(r, q)
    PROVE  /\ mapped' \in [Clients -> Threads \cup {NoThread}]
           /\ doomed' \subseteq Threads
           /\ mapped'[q.client] = IF IsResume(q) THEN mapped[q.client] ELSE r
           /\ \A c \in Clients \ {q.client} : mapped'[c] = mapped[c]
           /\ \A t \in doomed' : t \in doomed \/ (~IsResume(q) /\ t = mapped[q.client])
<1>1. q.client \in Clients /\ r \in Threads
  BY BoundsAreNumbers DEF Requests
<1>2. mapped \in [Clients -> Threads \cup {NoThread}] /\ doomed \subseteq Threads
  BY DEF TypeOK
<1>3. CASE IsResume(q)
  BY <1>2, <1>3 DEF Retire
<1>4. CASE ~IsResume(q)
  BY <1>1, <1>2, <1>4 DEF Retire
<1>5. QED
  BY <1>3, <1>4

LEMMA EchoWrites ==
    ASSUME TypeOK, NEW r \in Runs, NEW k \in Calls, Echo(r, k)
    PROVE  /\ history' \in [Clients -> [Calls -> Nat]]
           /\ \A c \in Clients, j \in Calls :
                 history'[c][j] = IF c = run[r].client /\ j = k /\ Hears(r) /\ run[r].sent[k] = 0
                                  THEN history[c][j] + 1 ELSE history[c][j]
BY RunsAreRequests DEF Echo, TypeOK, Requests

-----------------------------------------------------------------------------
(* A request begins, or waits for its agent. *)

LEMMA BeginPlaces ==
    ASSUME UniqueInv, NEW r \in Runs, run[r].phase \in {"new", "binding"},
           NEW q \in Requests, Begin(r, q), UNCHANGED thread
    PROVE  Placed' /\ Blanks' /\ Known'
<1> USE DEF UniqueInv
<1>1. /\ run' \in [Runs -> Requests]
      /\ run'[r].phase = "started" /\ run'[r].client = q.client
      /\ run'[r].answer = q.answer
      /\ run'[r].thread = CheckpointThread(r, q)
      /\ \A s \in Runs \ {r} : run'[s] = run[s]
  BY BeginWrites
<1>2. /\ mapped'[q.client] = IF IsResume(q) THEN mapped[q.client] ELSE r
      /\ \A c \in Clients \ {q.client} : mapped'[c] = mapped[c]
      /\ \A t \in doomed' : t \in doomed \/ (~IsResume(q) /\ t = mapped[q.client] /\ t # NoThread)
  BY RetireWrites DEF Begin, Retire, TypeOK, Requests
<1>3. \A t : Minted(t) => Minted(t)' /\ t # r
  BY <1>1 DEF Minted, IsResume
<1>4. ~IsResume(q) => Minted(r)'
  BY <1>1 DEF Minted, IsResume
<1>5. q.client \in Clients
  BY DEF Requests
<1>6. Known'
  BY <1>2, <1>3, <1>4, <1>5 DEF Known
<1>7. Blanks'
  BY <1>1, BoundsAreNumbers DEF Blanks, Unused, Threads, IsResume
<1>8. Placed'
  <2> SUFFICES ASSUME NEW s \in Runs
               PROVE  /\ Active(s)' => \/ Minted(run[s].thread)'
                                       \/ /\ run'[s].thread = run'[s].client
                                          /\ run'[s].phase = "started" /\ IsResume(run'[s])
                      /\ run'[s].phase = "started" /\ ~IsResume(run'[s]) => run'[s].thread = s
                      /\ run'[s].phase = "running" =>
                            run'[run'[s].thread].phase \in {"running", "ended"}
    BY DEF Placed
  <2>1. CASE s = r
    BY <1>1, <1>3, <1>4, <1>5, <2>1 DEF CheckpointThread, IsResume, Known, Active
  <2>2. CASE s # r
    <3>1. Active(s) /\ ~Minted(run[s].thread) => run[s].phase = "started"
      BY DEF Placed
    <3>2. run[s].phase = "running" => run[s].thread # r /\ run[s].thread \in Runs
      BY <1>3, <3>1 DEF Active, Minted
    <3>3. QED
      BY <1>1, <1>3, <2>2, <3>2 DEF Placed, Active, IsResume
  <2>3. QED
    BY <2>1, <2>2
<1>9. QED
  BY <1>6, <1>7, <1>8

LEMMA WaitPlaces ==
    ASSUME UniqueInv, NEW r \in Runs, run[r].phase = "new",
           NEW q \in Requests, q.phase = "binding",
           run' = [run EXCEPT ![r] = q], UNCHANGED <<mapped, doomed, thread>>
    PROVE  Placed' /\ Blanks' /\ Known'
<1> USE DEF UniqueInv
<1>1. /\ run' \in [Runs -> Requests] /\ run'[r] = q
      /\ \A s \in Runs \ {r} : run'[s] = run[s]
  BY RunsAreRequests
<1>2. \A t : Minted(t) => Minted(t)' /\ t # r
  BY <1>1 DEF Minted
<1>3. Known'
  BY <1>2 DEF Known
<1>4. Blanks'
  BY <1>1, BoundsAreNumbers DEF Blanks, Unused, Threads
<1>5. Placed'
  <2> SUFFICES ASSUME NEW s \in Runs
               PROVE  /\ Active(s)' => \/ Minted(run[s].thread)'
                                       \/ /\ run'[s].thread = run'[s].client
                                          /\ run'[s].phase = "started" /\ IsResume(run'[s])
                      /\ run'[s].phase = "started" /\ ~IsResume(run'[s]) => run'[s].thread = s
                      /\ run'[s].phase = "running" =>
                            run'[run'[s].thread].phase \in {"running", "ended"}
    BY DEF Placed
  <2>1. CASE s = r
    BY <1>1, <2>1 DEF Active
  <2>2. CASE s # r
    <3>1. run[s].phase = "running" => run[s].thread # r /\ run[s].thread \in Runs
      BY <1>2 DEF Active, Minted, Placed
    <3>2. QED
      BY <1>1, <1>2, <2>2, <3>1 DEF Placed, Active
  <2>3. QED
    BY <2>1, <2>2
<1>6. QED
  BY <1>3, <1>4, <1>5

\* What a client may send: its conversation, with the result it has just put in.
LEMMA ArriveStep ==
    ASSUME UniqueInv, NEW c \in Clients, current[c] = NoRun,
           NEW answer \in Calls \cup {NoCall}, Arrive(c, answer, history'[c]),
           history' \in [Clients -> [Calls -> Nat]],
           \A d \in Clients \ {c} : history'[d] = history[d],
           \A k \in Calls : history'[c][k] <= 1 /\ (k > made => history'[c][k] = 0)
    PROVE  UniqueInv'
<1> USE DEF UniqueInv
<1> DEFINE r == served + 1
           q == [Idle EXCEPT !.phase = "binding", !.client = c, !.answer = answer,
                             !.sent = history'[c]]
<1>1. /\ served < MaxRuns /\ served' = r
      /\ current' = [current EXCEPT ![c] = r] /\ pending' = [pending EXCEPT ![c] = NoCall]
      /\ IF bound THEN Begin(r, q)
         ELSE run' = [run EXCEPT ![r] = q] /\ UNCHANGED <<mapped, doomed>>
      /\ UNCHANGED <<bound, thread, made, restarts, unheard, missed>>
  BY DEF Arrive, remarks
<1>2. r \in Runs /\ served \in Nat /\ r > served /\ r # NoRun
  BY <1>1, BoundsAssumption DEF TypeOK, Runs, NoRun
<1>3. /\ q \in Requests /\ q.phase = "binding" /\ q.client = c /\ q.answer = answer
      /\ q.sent = history'[c]
  BY IdleIsARequest DEF Requests
<1>4. run[r] = Idle /\ run[r].phase = "new"
  BY <1>2, IdleIsARequest DEF Numbered
<1>5. /\ run' \in [Runs -> Requests]
      /\ run'[r].phase \in {"binding", "started"} /\ run'[r].client = c
      /\ run'[r].sent = history'[c]
      /\ \A s \in Runs \ {r} : run'[s] = run[s]
  <2>1. CASE bound
    BY <1>1, <1>2, <1>3, <2>1, BeginWrites
  <2>2. CASE ~bound
    BY <1>1, <1>2, <1>3, <2>2, RunsAreRequests
  <2>3. QED
    BY <2>1, <2>2
<1>6. TypeOK'
  <2>1. mapped' \in [Clients -> Threads \cup {NoThread}] /\ doomed' \subseteq Threads
    BY <1>1, <1>2, <1>3, RetireWrites DEF Begin, TypeOK
  <2>2. served' \in 0 .. MaxRuns
    BY <1>1, <1>2, BoundsAssumption
  <2>3. /\ current' \in [Clients -> Runs \cup {NoRun}]
        /\ pending' \in [Clients -> Calls \cup {NoCall}]
    BY <1>1, <1>2 DEF TypeOK
  <2>4. QED
    BY <1>1, <1>5, <2>1, <2>2, <2>3 DEF TypeOK, Requests
<1>7. Placed' /\ Blanks' /\ Known'
  BY <1>1, <1>2, <1>3, <1>4, BeginPlaces, WaitPlaces
<1>8. Fresh'
  <2>1. \A d \in Clients : pending'[d] \in {pending[d], 0}
    BY <1>1 DEF TypeOK, NoCall
  <2>2. made \in Nat /\ made' = made /\ thread' = thread
    BY <1>1, BoundsAreNumbers DEF TypeOK
  <2>3. \A d \in Clients, k \in Calls : k > made => history'[d][k] = 0
    BY DEF Fresh
  <2>4. \A s \in Runs, k \in Calls : k > made => run'[s].sent[k] = 0
    BY <1>5, <2>3 DEF Fresh
  <2>5. \A d \in Clients : pending'[d] <= made
    BY <2>1, <2>2 DEF Fresh
  <2>6. QED
    BY <2>2, <2>3, <2>4, <2>5 DEF Fresh
<1>9. Numbered'
  <2> SUFFICES ASSUME NEW s \in Runs, s > served'
               PROVE  run'[s] = Idle
    BY DEF Numbered
  <2>1. s # r /\ s > served
    BY <1>1, <1>2, BoundsAreNumbers
  <2>2. QED
    BY <1>5, <2>1 DEF Numbered
<1>10. SentOnce'
  BY <1>5 DEF SentOnce
<1>11. Listening'
  <2> SUFFICES ASSUME NEW d \in Clients, current'[d] # NoRun
               PROVE  LET s == current'[d] IN
                      /\ run'[s].client = d /\ run'[s].phase \in {"binding", "started", "running"}
                      /\ pending'[d] = NoCall
                      /\ run'[s].phase # "running" => run'[s].sent = history'[d]
    BY DEF Listening
  <2>1. CASE d = c
    BY <1>1, <1>5, <2>1 DEF TypeOK
  <2>2. CASE d # c
    <3>1. current'[d] = current[d] /\ pending'[d] = pending[d] /\ current[d] \in Runs
      BY <1>1, <2>2 DEF TypeOK
    <3>2. current[d] # r
      BY <1>4, <3>1 DEF Listening
    <3>3. QED
      BY <1>5, <2>2, <3>1, <3>2 DEF Listening
  <2>3. QED
    BY <2>1, <2>2
<1>12. Unanswered'
  BY <1>1 DEF Unanswered, TypeOK
<1>13. ResultsAreUnique'
  BY <1>1 DEF ResultsAreUnique
<1>14. QED
  BY <1>6, <1>7, <1>8, <1>9, <1>10, <1>11, <1>12, <1>13

LEMMA SendStep ==
    ASSUME UniqueInv, NEW c \in Clients, Send(c)
    PROVE  UniqueInv'
<1>1. /\ current[c] = NoRun /\ history' = history /\ Arrive(c, NoCall, history'[c])
  BY DEF Send
<1>2. \A k \in Calls : history'[c][k] <= 1 /\ (k > made => history'[c][k] = 0)
  BY <1>1 DEF UniqueInv, ResultsAreUnique, Fresh
<1>3. history' \in [Clients -> [Calls -> Nat]]
  BY <1>1 DEF UniqueInv, TypeOK
<1>4. QED
  BY <1>1, <1>2, <1>3, ArriveStep

LEMMA AnswerStep ==
    ASSUME UniqueInv, NEW c \in Clients, Answer(c)
    PROVE  UniqueInv'
<1> USE DEF UniqueInv
<1>1. /\ current[c] = NoRun /\ pending[c] \in Calls /\ Arrive(c, pending[c], history'[c])
      /\ history' = [history EXCEPT ![c][pending[c]] = @ + 1] \/ history' = history
  BY DEF Answer, TypeOK
<1>2. /\ history' \in [Clients -> [Calls -> Nat]]
      /\ \A d \in Clients \ {c} : history'[d] = history[d]
      /\ \A k \in Calls \ {pending[c]} : history'[c][k] = history[c][k]
      /\ history'[c][pending[c]] \in {history[c][pending[c]], history[c][pending[c]] + 1}
  BY <1>1 DEF TypeOK
<1>3. history[c][pending[c]] = 0 /\ pending[c] <= made
  BY <1>1, BoundsAreNumbers DEF Unanswered, Fresh, NoCall
<1>4. made \in Nat /\ Calls \subseteq Nat
  BY BoundsAreNumbers DEF TypeOK
<1>5. \A k \in Calls : history'[c][k] <= 1 /\ (k > made => history'[c][k] = 0)
  BY <1>2, <1>3, <1>4 DEF ResultsAreUnique, Fresh
<1>6. QED
  BY <1>1, <1>2, <1>5, ArriveStep

LEMMA BoundStep ==
    ASSUME UniqueInv, NEW r \in Runs, Bound(r)
    PROVE  UniqueInv'
<1> USE DEF UniqueInv
<1>1. /\ run[r].phase = "binding" /\ bound' = TRUE /\ Begin(r, run[r])
      /\ unheard' = (IF Hears(r) THEN unheard ELSE unheard \cup {run[r].client})
      /\ UNCHANGED <<history, pending, current, thread, served, made, restarts, missed>>
  BY DEF Bound, browser
<1>2. run[r] \in Requests
  BY RunsAreRequests
<1>3. /\ run' \in [Runs -> Requests]
      /\ run'[r].phase = "started" /\ run'[r].client = run[r].client
      /\ run'[r].sent = run[r].sent
      /\ \A s \in Runs \ {r} : run'[s] = run[s]
  BY <1>1, <1>2, BeginWrites
<1>4. TypeOK'
  <2>1. mapped' \in [Clients -> Threads \cup {NoThread}] /\ doomed' \subseteq Threads
    BY <1>1, <1>2, RetireWrites DEF Begin
  <2>2. unheard' \subseteq Clients
    BY <1>1, <1>2 DEF TypeOK, Requests
  <2>3. QED
    BY <1>1, <1>3, <2>1, <2>2 DEF TypeOK, Requests
<1>5. Placed' /\ Blanks' /\ Known'
  BY <1>1, <1>2, BeginPlaces
<1>6. Fresh' /\ SentOnce'
  BY <1>1, <1>3 DEF Fresh, SentOnce
<1>7. Numbered'
  <2>1. ~(r > served)
    BY <1>1, IdleIsARequest DEF Numbered
  <2>2. QED
    BY <1>1, <1>3, <2>1 DEF Numbered
<1>8. Listening'
  BY <1>1, <1>3 DEF Listening, TypeOK, NoRun
<1>9. Unanswered' /\ ResultsAreUnique'
  BY <1>1 DEF Unanswered, ResultsAreUnique
<1>10. QED
  BY <1>4, <1>5, <1>6, <1>7, <1>8, <1>9

-----------------------------------------------------------------------------
(* A request ends. *)

LEMMA EndPlaces ==
    ASSUME UniqueInv, NEW r \in Runs, Ends(r), UNCHANGED <<mapped, doomed>>
    PROVE  Placed' /\ Known'
<1> USE DEF UniqueInv
<1>1. /\ run'[r] = Over /\ Over.phase = "ended" /\ Over.answer = NoCall
      /\ \A s \in Runs \ {r} : run'[s] = run[s]
  BY EndsWrites, OverIsARequest
<1>2. \A t : Minted(t) => Minted(t)'
  BY <1>1 DEF Minted, IsResume
<1>3. Known'
  BY <1>2 DEF Known
<1>4. ASSUME NEW s \in Runs, s # r
      PROVE  run[s].phase = "running" => run[s].thread \in Runs
  BY <1>4 DEF Placed, Minted, Active
<1>5. Placed'
  BY <1>1, <1>2, <1>4 DEF Placed, Active
<1>6. QED
  BY <1>3, <1>5

\* HangUp, or a client that has left: what is listened to after it.
LEMMA EndListening ==
    ASSUME UniqueInv, NEW r \in Runs, Ends(r), HangUp(r), UNCHANGED history,
           \A c \in Clients : pending'[c] = pending[c] \/ current[c] = r
    PROVE  Listening'
<1> USE DEF UniqueInv
<1>1. \A c \in Clients : current'[c] = IF current[c] = r THEN NoRun ELSE current[c]
  BY HangUpWrites
<1>2. \A s \in Runs \ {r} : run'[s] = run[s]
  BY EndsWrites
<1>3. \A c \in Clients : current[c] # NoRun => current[c] \in Runs
  BY DEF TypeOK
<1>4. QED
  BY <1>1, <1>2, <1>3 DEF Listening

LEMMA EndStep ==
    ASSUME UniqueInv, NEW r \in Runs, run[r].phase \in {"binding", "started", "running"},
           Ends(r), HangUp(r), missed' \subseteq Clients,
           UNCHANGED <<history, pending, bound, mapped, doomed, thread, served, made,
                       restarts, unheard>>
    PROVE  UniqueInv'
<1> USE DEF UniqueInv
<1>1. /\ run' \in [Runs -> Requests] /\ run'[r] = Over /\ Over.sent = None
      /\ Over.phase = "ended"
      /\ \A s \in Runs \ {r} : run'[s] = run[s]
  BY EndsWrites, OverIsARequest
<1>2. TypeOK'
  BY <1>1, HangUpWrites DEF TypeOK, Requests
<1>3. Fresh' /\ SentOnce'
  BY <1>1 DEF Fresh, SentOnce, None
<1>4. Numbered'
  <2>1. ~(r > served)
    BY IdleIsARequest DEF Numbered
  <2>2. QED
    BY <1>1, <2>1 DEF Numbered
<1>5. Unanswered' /\ ResultsAreUnique'
  BY DEF Unanswered, ResultsAreUnique
<1>6. Blanks'
  BY <1>1, BoundsAreNumbers DEF Blanks, Unused, Threads
<1>7. QED
  BY <1>2, <1>3, <1>4, <1>5, <1>6, EndPlaces, EndListening

LEMMA CallClientToolStep ==
    ASSUME UniqueInv, NEW r \in Runs, CallClientTool(r)
    PROVE  UniqueInv'
<1> USE DEF UniqueInv
<1> DEFINE c == run[r].client
           t == run[r].thread
           k == made + 1
<1>1. /\ run[r].phase = "running" /\ made < MaxCalls /\ made' = k
      /\ thread' = [thread EXCEPT ![t].asks = k]
      /\ pending' = (IF Hears(r) THEN [pending EXCEPT ![c] = k] ELSE pending)
      /\ Ends(r) /\ HangUp(r)
      /\ UNCHANGED <<history, bound, mapped, doomed, served, restarts, unheard, missed>>
  BY DEF CallClientTool, remarks
<1>2. /\ c \in Clients /\ made \in Nat /\ k \in Calls /\ k # NoCall /\ k > made
      /\ Calls \subseteq Nat
  BY <1>1, RunsAreRequests, BoundsAssumption DEF TypeOK, Requests, Calls, NoCall
<1>3. t \in Runs /\ Minted(t) /\ run[t].phase \in {"running", "ended"} /\ t \in Threads
  BY <1>1, BoundsAreNumbers DEF Placed, Active, Minted
<1>4. /\ run' \in [Runs -> Requests] /\ run'[r] = Over /\ Over.sent = None
      /\ Over.phase = "ended"
      /\ \A s \in Runs \ {r} : run'[s] = run[s]
  BY EndsWrites, OverIsARequest, <1>1
<1>5. /\ \A u \in Threads : thread'[u].results = thread[u].results
      /\ \A u \in Threads \ {t} : thread'[u] = thread[u]
      /\ thread'[t].asks = k
      /\ thread' \in [Threads -> [results : [Calls -> Nat], asks : Calls \cup {NoCall}]]
  BY <1>1, <1>2, <1>3 DEF TypeOK
<1>6. /\ pending' \in [Clients -> Calls \cup {NoCall}]
      /\ \A d \in Clients : pending'[d] = pending[d] \/ (pending'[d] = k /\ d = c /\ Hears(r))
  BY <1>1, <1>2 DEF TypeOK
<1>7. TypeOK'
  <2>1. made' \in 0 .. MaxCalls
    BY <1>1, <1>2, BoundsAssumption
  <2>2. current' \in [Clients -> Runs \cup {NoRun}]
    BY <1>1, HangUpWrites
  <2>3. QED
    BY <1>1, <1>4, <1>5, <1>6, <2>1, <2>2 DEF TypeOK, Requests
<1>8. Fresh' /\ SentOnce'
  <2>1. \A j \in Calls : j > made' => j > made
    BY <1>1, <1>2
  <2>2. \A d \in Clients : pending'[d] <= made'
    <3> SUFFICES ASSUME NEW d \in Clients
                 PROVE  pending'[d] <= made'
      OBVIOUS
    <3>1. pending[d] <= made /\ pending[d] \in Nat
      BY CallsAreMade
    <3>2. QED
      BY <1>1, <1>2, <1>6, <3>1
  <2>3. \A u \in Threads : thread'[u].asks <= made'
    <3> SUFFICES ASSUME NEW u \in Threads
                 PROVE  thread'[u].asks <= made'
      OBVIOUS
    <3>1. thread[u].asks <= made /\ thread[u].asks \in Nat
      BY CallsAreMade
    <3>2. QED
      BY <1>1, <1>2, <1>5, <3>1
  <2>4. \A s \in Runs, j \in Calls : run'[s].sent[j] \in {run[s].sent[j], 0}
    BY <1>4 DEF None
  <2>5. SentOnce'
    BY <2>4 DEF SentOnce
  <2>6. \A j \in Calls : j > made' =>
            /\ \A d \in Clients : history'[d][j] = 0
            /\ \A s \in Runs : run'[s].sent[j] = 0
            /\ \A u \in Threads : thread'[u].results[j] = 0
    BY <1>1, <1>5, <2>1, <2>4 DEF Fresh
  <2>7. QED
    BY <2>2, <2>3, <2>5, <2>6 DEF Fresh
<1>9. Numbered'
  <2>1. ~(r > served)
    BY <1>1, IdleIsARequest DEF Numbered
  <2>2. QED
    BY <1>1, <1>4, <2>1 DEF Numbered
<1>10. Unanswered' /\ ResultsAreUnique'
  BY <1>1, <1>2, <1>5, <1>6 DEF Unanswered, ResultsAreUnique, Fresh
<1>11. Blanks'
  BY <1>3, <1>4, <1>5, BoundsAreNumbers DEF Blanks, Unused, Threads
<1>12. Listening'
  BY <1>1, <1>6, EndListening DEF Hears
<1>13. QED
  BY <1>1, <1>7, <1>8, <1>9, <1>10, <1>11, <1>12, EndPlaces

-----------------------------------------------------------------------------
(* A request runs. *)

\* Steps that move no request but one that goes from started to running.
LEMMA RunPlaces ==
    ASSUME UniqueInv, NEW r \in Runs, run' \in [Runs -> Requests],
           \A s \in Runs \ {r} : run'[s] = run[s],
           run[r].phase \in {"started", "running"}, run'[r].phase = "running",
           run'[r].client = run[r].client, run'[r].thread = run[r].thread,
           run'[r].answer = run[r].answer, run'[r].sent = run[r].sent,
           \/ run[r].phase = "running"
           \/ ~IsResume(run[r])
           \/ thread[run[r].thread].asks # NoCall,
           UNCHANGED <<mapped, doomed, served>>
    PROVE  Placed' /\ Known' /\ Numbered' /\ SentOnce' /\ Minted(run[r].thread)
<1> USE DEF UniqueInv
<1>1. \A t : Minted(t) => Minted(t)'
  BY DEF Minted, IsResume
<1>2. Known'
  BY <1>1 DEF Known
<1>3. Numbered' /\ SentOnce'
  BY IdleIsARequest DEF Numbered, SentOnce
<1>4. Minted(run[r].thread)
  <2>1. run[r].thread \in Clients => thread[run[r].thread].asks = NoCall
    <3>1. ASSUME NEW d \in Clients PROVE thread[d] = Blank
      BY BoundsAreNumbers DEF Blanks, Unused
    <3>2. QED
      BY <3>1, BlankAsksNothing
  <2>2. run[r].client \in Clients
    BY RunsAreRequests DEF Requests
  <2>3. CASE run[r].phase = "running"
    BY <2>3 DEF Placed, Active
  <2>4. CASE run[r].phase = "started" /\ ~IsResume(run[r])
    BY <2>4 DEF Placed, Active
  <2>5. CASE run[r].phase = "started" /\ thread[run[r].thread].asks # NoCall
    BY <2>1, <2>2, <2>5 DEF Placed, Active
  <2>6. QED
    BY <2>3, <2>4, <2>5
<1>5. run[run[r].thread].phase \in {"running", "ended"} \/ run[r].thread = r
  <2>1. CASE run[r].phase = "started" /\ thread[run[r].thread].asks # NoCall
    <3>1. thread[run[r].thread] # Blank
      BY <2>1, BlankAsksNothing
    <3>2. run[r].thread \in Threads /\ ~Unused(run[r].thread)
      BY <1>4, <3>1, BoundsAreNumbers DEF Blanks, Minted
    <3>3. QED
      BY <1>4, <3>2 DEF Unused, Minted
  <2>2. QED
    BY <2>1 DEF Placed
<1>6. Placed'
  <2> SUFFICES ASSUME NEW s \in Runs
               PROVE  /\ Active(s)' => \/ Minted(run[s].thread)'
                                       \/ /\ run'[s].thread = run'[s].client
                                          /\ run'[s].phase = "started" /\ IsResume(run'[s])
                      /\ run'[s].phase = "started" /\ ~IsResume(run'[s]) => run'[s].thread = s
                      /\ run'[s].phase = "running" =>
                            run'[run'[s].thread].phase \in {"running", "ended"}
    BY DEF Placed
  <2>1. CASE s = r
    BY <1>1, <1>4, <1>5, <2>1 DEF Active, Minted
  <2>2. CASE s # r
    <3>1. run[s].phase = "running" => run[s].thread \in Runs
      BY DEF Placed, Active, Minted
    <3>2. QED
      BY <1>1, <2>2, <3>1 DEF Placed, Active
  <2>3. QED
    BY <2>1, <2>2
<1>7. QED
  BY <1>2, <1>3, <1>4, <1>6

\* And write no thread but the request's own, and no conversation but that of the
\* client that hears it.
LEMMA RunListening ==
    ASSUME UniqueInv, NEW r \in Runs, run' \in [Runs -> Requests],
           \A s \in Runs \ {r} : run'[s] = run[s],
           run[r].phase \in {"started", "running"}, run'[r].phase = "running",
           run'[r].client = run[r].client, run'[r].sent = run[r].sent,
           \A t \in Threads \ {run[r].thread} : thread'[t] = thread[t],
           Minted(run[r].thread) \/ run[r].thread = r,
           run'[run[r].thread].phase \in {"running", "ended"},
           \A d \in Clients : current[d] # r => history'[d] = history[d],
           UNCHANGED <<pending, current>>
    PROVE  Listening' /\ Blanks'
<1> USE DEF UniqueInv
<1>1. Listening'
  <2> SUFFICES ASSUME NEW d \in Clients, current'[d] # NoRun
               PROVE  LET s == current'[d] IN
                      /\ run'[s].client = d /\ run'[s].phase \in {"binding", "started", "running"}
                      /\ pending'[d] = NoCall
                      /\ run'[s].phase # "running" => run'[s].sent = history'[d]
    BY DEF Listening
  <2>1. current'[d] = current[d] /\ current[d] \in Runs
    BY DEF TypeOK
  <2>2. CASE current[d] = r
    BY <2>1, <2>2 DEF Listening
  <2>3. CASE current[d] # r
    BY <2>1, <2>3 DEF Listening
  <2>4. QED
    BY <2>2, <2>3
<1>2. Blanks'
  <2> SUFFICES ASSUME NEW t \in Threads, Unused(t)'
               PROVE  thread'[t] = Blank
    BY DEF Blanks
  <2>1. run[r].thread \in Runs
    BY DEF Minted
  <2>2. t # run[r].thread
    BY <2>1, BoundsAreNumbers DEF Unused
  <2>3. Unused(t)
    BY BoundsAreNumbers DEF Unused, Threads, IsResume
  <2>4. QED
    BY <2>2, <2>3 DEF Blanks
<1>3. QED
  BY <1>1, <1>2

LEMMA ReplayStep ==
    ASSUME UniqueInv, NEW r \in Runs, Replay(r)
    PROVE  UniqueInv'
<1> USE DEF UniqueInv
<1>1. /\ run[r].phase = "started" /\ ~IsResume(run[r])
      /\ thread' = [thread EXCEPT ![run[r].thread].results =
                        [k \in Calls |-> @[k] + run[r].sent[k]]]
      /\ run' = [run EXCEPT ![r].phase = "running"]
      /\ UNCHANGED <<history, pending, current, bound, mapped, doomed, served, made,
                     restarts, unheard, missed>>
  BY DEF Replay, browser, remarks
<1>2. run[r].thread = r /\ r \in Threads /\ thread[r] = Blank
  BY <1>1, BoundsAreNumbers DEF Placed, Blanks, Unused
<1>3. /\ run' \in [Runs -> Requests]
      /\ \A s \in Runs \ {r} : run'[s] = run[s]
      /\ run'[r].phase = "running" /\ run'[r].sent = run[r].sent
      /\ run'[r].client = run[r].client /\ run'[r].thread = run[r].thread
      /\ run'[r].answer = run[r].answer
  BY <1>1, RunsAreRequests DEF Requests
<1>4. run[r].sent \in [Calls -> Nat]
  BY RunsAreRequests DEF Requests
<1>5. /\ thread' \in [Threads -> [results : [Calls -> Nat], asks : Calls \cup {NoCall}]]
      /\ \A t \in Threads \ {r} : thread'[t] = thread[t]
      /\ thread'[r].asks = NoCall
      /\ \A k \in Calls : thread'[r].results[k] = run[r].sent[k]
  <2>1. thread[r].asks = NoCall /\ \A k \in Calls : thread[r].results[k] = 0
    BY <1>2, BlankAsksNothing DEF None
  <2>2. thread \in [Threads -> [results : [Calls -> Nat], asks : Calls \cup {NoCall}]]
    BY DEF TypeOK
  <2>3. thread' = [thread EXCEPT ![r].results = [k \in Calls |-> @[k] + run[r].sent[k]]]
    BY <1>1, <1>2
  <2>4. [k \in Calls |-> thread[r].results[k] + run[r].sent[k]] \in [Calls -> Nat]
    BY <1>2, <1>4, <2>2
  <2>5. thread' \in [Threads -> [results : [Calls -> Nat], asks : Calls \cup {NoCall}]]
    BY <1>2, <2>2, <2>3, <2>4
  <2>6. /\ \A t \in Threads \ {r} : thread'[t] = thread[t]
        /\ thread'[r].asks = thread[r].asks
        /\ thread'[r].results = [k \in Calls |-> thread[r].results[k] + run[r].sent[k]]
    BY <1>2, <2>2, <2>3
  <2>7. QED
    BY <1>4, <2>1, <2>5, <2>6
<1>6. TypeOK'
  BY <1>1, <1>3, <1>5 DEF TypeOK, Requests
<1>7. Placed' /\ Known' /\ Numbered' /\ SentOnce'
  BY <1>1, <1>3, RunPlaces
<1>8. Listening' /\ Blanks'
  BY <1>1, <1>2, <1>3, <1>5, RunListening
<1>9. Fresh'
  <2>1. \A t \in Threads : thread'[t].asks <= made
    BY <1>5, CallsAreMade, NothingIsMade
  <2>2. \A t \in Threads, k \in Calls : k > made => thread'[t].results[k] = 0
    BY <1>5 DEF Fresh
  <2>3. QED
    BY <1>1, <1>3, <2>1, <2>2 DEF Fresh
<1>10. Unanswered'
  BY <1>1, <1>5 DEF Unanswered
<1>11. ResultsAreUnique'
  BY <1>1, <1>5 DEF ResultsAreUnique, SentOnce
<1>12. QED
  BY <1>6, <1>7, <1>8, <1>9, <1>10, <1>11

LEMMA ResumeStep ==
    ASSUME UniqueInv, NEW r \in Runs, Resume(r)
    PROVE  UniqueInv'
<1> USE DEF UniqueInv
<1> DEFINE t == run[r].thread
           k == thread[t].asks
<1>1. /\ run[r].phase = "started" /\ IsResume(run[r]) /\ k # NoCall
      /\ thread' = [thread EXCEPT ![t].results[k] = @ + 1, ![t].asks = NoCall]
      /\ run' = [run EXCEPT ![r].phase = "running"]
      /\ Echo(r, k)
      /\ missed' = (IF k = run[r].answer THEN missed ELSE missed \cup {run[r].client})
      /\ UNCHANGED <<pending, current, bound, mapped, doomed, served, made, restarts, unheard>>
  BY DEF Resume
<1>2. /\ run' \in [Runs -> Requests]
      /\ \A s \in Runs \ {r} : run'[s] = run[s]
      /\ run'[r].phase = "running" /\ run'[r].sent = run[r].sent
      /\ run'[r].client = run[r].client /\ run'[r].thread = run[r].thread
      /\ run'[r].answer = run[r].answer
  BY <1>1, RunsAreRequests DEF Requests
<1>3. Placed' /\ Known' /\ Numbered' /\ SentOnce' /\ Minted(t)
  BY <1>1, <1>2, RunPlaces
<1>4. t \in Threads
  BY <1>1, BoundsAreNumbers, RunsAreRequests DEF Placed, Active, Minted, Requests
<1>5. k \in Calls /\ k <= made /\ thread[t].results[k] = 0
  BY <1>1, <1>4, CallsAreMade DEF TypeOK, Unanswered
<1>6. /\ thread' \in [Threads -> [results : [Calls -> Nat], asks : Calls \cup {NoCall}]]
      /\ \A u \in Threads \ {t} : thread'[u] = thread[u]
      /\ thread'[t].asks = NoCall
      /\ thread'[t].results[k] = 1
      /\ \A j \in Calls \ {k} : thread'[t].results[j] = thread[t].results[j]
  <2>1. thread \in [Threads -> [results : [Calls -> Nat], asks : Calls \cup {NoCall}]]
    BY DEF TypeOK
  <2> DEFINE all == [thread[t].results EXCEPT ![k] = thread[t].results[k] + 1]
  <2>2. /\ all \in [Calls -> Nat] /\ all[k] = 1
        /\ \A j \in Calls \ {k} : all[j] = thread[t].results[j]
    <3>1. thread[t].results \in [Calls -> Nat]
      BY <1>4, <2>1
    <3>2. QED
      BY <1>5, <3>1
  <2>3. thread' = [thread EXCEPT ![t].results = all, ![t].asks = NoCall]
    BY <1>1
  <2> HIDE DEF all
  <2>4. QED
    BY <1>4, <2>1, <2>2, <2>3
<1>7. /\ history' \in [Clients -> [Calls -> Nat]]
      /\ \A d \in Clients, j \in Calls :
            \/ history'[d][j] = history[d][j]
            \/ j = k /\ current[d] = r /\ d = run[r].client /\ history[d][j] = 0
               /\ history'[d][j] = 1
      /\ \A d \in Clients : current[d] # r => history'[d] = history[d]
  <2>1. /\ history' \in [Clients -> [Calls -> Nat]]
        /\ \A d \in Clients, j \in Calls :
              history'[d][j] = IF d = run[r].client /\ j = k /\ Hears(r) /\ run[r].sent[k] = 0
                               THEN history[d][j] + 1 ELSE history[d][j]
    BY <1>1, <1>5, EchoWrites
  <2>2. Hears(r) => run[r].sent = history[run[r].client]
    <3>1. run[r].client \in Clients /\ r # NoRun
      BY RunsAreRequests, BoundsAreNumbers DEF Requests, NoRun
    <3>2. QED
      BY <1>1, <3>1 DEF Hears, Listening
  <2>3. \A d \in Clients : current[d] # r => history'[d] = history[d]
    BY <1>1, RunsAreRequests DEF Echo, Hears, TypeOK, Requests
  <2>4. QED
    BY <2>1, <2>2, <2>3 DEF Hears
<1>8. TypeOK'
  <2>1. missed' \subseteq Clients
    BY <1>1, RunsAreRequests DEF TypeOK, Requests
  <2>2. QED
    BY <1>1, <1>2, <1>6, <1>7, <2>1 DEF TypeOK, Requests
<1>9. Listening' /\ Blanks'
  <2>1. Minted(t) /\ run'[t].phase \in {"running", "ended"}
    BY <1>2, <1>3 DEF Placed
  <2>2. QED
    BY <1>1, <1>2, <1>6, <1>7, <2>1, RunListening
<1>10. Fresh'
  <2>1. \A u \in Threads : thread'[u].asks <= made
    BY <1>6, CallsAreMade, NothingIsMade
  <2>2. \A j \in Calls : j > made => j # k
    BY <1>5, BoundsAreNumbers DEF TypeOK
  <2>3. \A j \in Calls : j > made =>
            /\ \A d \in Clients : history'[d][j] = 0
            /\ \A u \in Threads : thread'[u].results[j] = 0
    <3>1. \A j \in Calls, d \in Clients : j # k => history'[d][j] = history[d][j]
      BY <1>7
    <3>2. \A j \in Calls, u \in Threads : j # k => thread'[u].results[j] = thread[u].results[j]
      BY <1>6
    <3>3. QED
      BY <2>2, <3>1, <3>2 DEF Fresh
  <2>4. \A s \in Runs : run'[s].sent = run[s].sent
    BY <1>2
  <2>5. QED
    BY <1>1, <2>1, <2>3, <2>4 DEF Fresh
<1>11. Unanswered'
  <2>1. \A d \in Clients : pending[d] # NoCall => history'[d] = history[d]
    BY <1>7, BoundsAreNumbers DEF Listening, NoRun
  <2>2. QED
    BY <1>1, <1>6, <2>1 DEF Unanswered
<1>12. ResultsAreUnique'
  BY <1>6, <1>7 DEF ResultsAreUnique
<1>13. QED
  BY <1>3, <1>8, <1>9, <1>10, <1>11, <1>12

LEMMA CallServerToolStep ==
    ASSUME UniqueInv, NEW r \in Runs, CallServerTool(r)
    PROVE  UniqueInv'
<1> USE DEF UniqueInv
<1> DEFINE t == run[r].thread
           k == made + 1
<1>1. /\ run[r].phase = "running" /\ made < MaxCalls /\ made' = k
      /\ thread' = [thread EXCEPT ![t].results[k] = @ + 1]
      /\ Echo(r, k)
      /\ UNCHANGED <<pending, current, bound, mapped, doomed, run, served, restarts,
                     unheard, missed>>
  BY DEF CallServerTool, server, remarks
<1>2. /\ made \in Nat /\ k \in Calls /\ k > made /\ k \in Nat /\ Calls \subseteq Nat
  BY <1>1, BoundsAssumption DEF TypeOK, Calls
<1>3. t \in Runs /\ Minted(t) /\ run[t].phase \in {"running", "ended"} /\ t \in Threads
  BY <1>1, BoundsAreNumbers DEF Placed, Active, Minted
<1>4. Placed' /\ Known' /\ Numbered' /\ SentOnce'
  BY <1>1, RunPlaces, RunsAreRequests
<1>5. /\ thread' \in [Threads -> [results : [Calls -> Nat], asks : Calls \cup {NoCall}]]
      /\ \A u \in Threads : thread'[u].asks = thread[u].asks
      /\ \A u \in Threads \ {t} : thread'[u] = thread[u]
      /\ thread'[t].results[k] = 1
      /\ \A j \in Calls \ {k} : thread'[t].results[j] = thread[t].results[j]
  <2>1. thread[t].results[k] = 0
    BY <1>2, <1>3 DEF Fresh
  <2>2. thread \in [Threads -> [results : [Calls -> Nat], asks : Calls \cup {NoCall}]]
    BY DEF TypeOK
  <2> DEFINE all == [thread[t].results EXCEPT ![k] = @ + 1]
  <2>3. /\ all \in [Calls -> Nat] /\ all[k] = 1
        /\ \A j \in Calls \ {k} : all[j] = thread[t].results[j]
    <3>1. thread[t].results \in [Calls -> Nat]
      BY <1>3, <2>2
    <3>2. QED
      BY <1>2, <2>1, <3>1
  <2>4. thread' = [thread EXCEPT ![t].results = all]
    BY <1>1
  <2> HIDE DEF all
  <2>5. QED
    BY <1>3, <2>2, <2>3, <2>4
<1>6. /\ history' \in [Clients -> [Calls -> Nat]]
      /\ \A d \in Clients, j \in Calls :
            history'[d][j] = history[d][j] \/ (j = k /\ history'[d][j] \in {0, 1})
      /\ \A d \in Clients : current[d] # r => history'[d] = history[d]
  <2>1. \A d \in Clients : history[d][k] = 0
    BY <1>2 DEF Fresh
  <2>2. \A d \in Clients : current[d] # r => history'[d] = history[d]
    BY <1>1, RunsAreRequests DEF Echo, Hears, TypeOK, Requests
  <2>3. QED
    BY <1>1, <1>2, <2>1, <2>2, EchoWrites
<1>7. TypeOK'
  <2>1. made' \in 0 .. MaxCalls
    BY <1>1, <1>2, BoundsAssumption
  <2>2. QED
    BY <1>1, <1>5, <1>6, <2>1 DEF TypeOK
<1>8. Listening' /\ Blanks'
  BY <1>1, <1>3, <1>5, <1>6, RunListening, RunsAreRequests
<1>9. Fresh'
  <2>1. \A j \in Calls : j > made' => j > made /\ j # k
    BY <1>1, <1>2
  <2>2. /\ \A d \in Clients : pending[d] <= made'
        /\ \A u \in Threads : thread'[u].asks <= made'
    BY <1>1, <1>2, <1>5, CallsAreMade
  <2>3. \A j \in Calls : j > made' =>
            /\ \A d \in Clients : history'[d][j] = 0
            /\ \A s \in Runs : run[s].sent[j] = 0
            /\ \A u \in Threads : thread'[u].results[j] = 0
    <3>1. \A j \in Calls, d \in Clients : j # k => history'[d][j] = history[d][j]
      BY <1>6
    <3>2. \A j \in Calls, u \in Threads : j # k => thread'[u].results[j] = thread[u].results[j]
      BY <1>5
    <3>3. QED
      BY <2>1, <3>1, <3>2 DEF Fresh
  <2>4. QED
    BY <1>1, <2>2, <2>3 DEF Fresh
<1>10. Unanswered'
  <2>1. /\ \A d \in Clients : pending[d] # k
        /\ \A u \in Threads : thread[u].asks # k
    BY <1>2, CallsAreMade
  <2>2. /\ \A d \in Clients : pending[d] # NoCall => pending[d] \in Calls
        /\ \A u \in Threads : thread[u].asks # NoCall => thread[u].asks \in Calls
    BY DEF TypeOK
  <2>3. \A d \in Clients : pending[d] # NoCall => history'[d][pending[d]] = 0
    BY <1>6, <2>1, <2>2 DEF Unanswered
  <2>4. \A u \in Threads :
            thread[u].asks # NoCall => thread'[u].results[thread[u].asks] = 0
    BY <1>5, <2>1, <2>2 DEF Unanswered
  <2>5. QED
    BY <1>1, <1>5, <2>3, <2>4 DEF Unanswered
<1>11. ResultsAreUnique'
  <2>1. \A j \in Calls, d \in Clients : history'[d][j] <= 1
    BY <1>6 DEF ResultsAreUnique
  <2>2. \A j \in Calls, u \in Threads : thread'[u].results[j] <= 1
    BY <1>2, <1>5 DEF ResultsAreUnique
  <2>3. QED
    BY <2>1, <2>2 DEF ResultsAreUnique
<1>12. QED
  BY <1>4, <1>7, <1>8, <1>9, <1>10, <1>11

LEMMA FoldStep ==
    ASSUME UniqueInv, NEW r \in Runs, Fold(r)
    PROVE  UniqueInv'
<1> USE DEF UniqueInv
<1> DEFINE t == run[r].thread
<1>1. /\ run[r].phase = "running"
      /\ run' = [run EXCEPT ![r].attempt = 1]
      /\ UNCHANGED <<history, pending, current, bound, mapped, doomed, served, made,
                     restarts, unheard, missed>>
  BY DEF Fold, browser, remarks
<1>2. PICK kept \in SUBSET Calls :
        thread' = [thread EXCEPT ![t].results = [k \in Calls |-> IF k \in kept THEN @[k] ELSE 0]]
  BY DEF Fold
<1>3. t \in Runs /\ Minted(t) /\ run[t].phase \in {"running", "ended"} /\ t \in Threads
  BY <1>1, BoundsAreNumbers DEF Placed, Active, Minted
<1>4. /\ run' \in [Runs -> Requests]
      /\ \A s \in Runs \ {r} : run'[s] = run[s]
      /\ run'[r].phase = "running" /\ run'[r].sent = run[r].sent
      /\ run'[r].client = run[r].client /\ run'[r].thread = run[r].thread
      /\ run'[r].answer = run[r].answer
  BY <1>1, RunsAreRequests DEF Requests
<1>5. /\ thread' \in [Threads -> [results : [Calls -> Nat], asks : Calls \cup {NoCall}]]
      /\ \A u \in Threads : thread'[u].asks = thread[u].asks
      /\ \A u \in Threads \ {t} : thread'[u] = thread[u]
      /\ \A j \in Calls : thread'[t].results[j] \in {thread[t].results[j], 0}
  <2>1. thread \in [Threads -> [results : [Calls -> Nat], asks : Calls \cup {NoCall}]]
    BY DEF TypeOK
  <2> DEFINE left == [k \in Calls |-> IF k \in kept THEN thread[t].results[k] ELSE 0]
  <2>2. left \in [Calls -> Nat] /\ \A j \in Calls : left[j] \in {thread[t].results[j], 0}
    BY <1>3, <2>1
  <2>3. thread' = [thread EXCEPT ![t].results = left]
    BY <1>2
  <2> HIDE DEF left
  <2>4. QED
    BY <1>3, <2>1, <2>2, <2>3
<1>6. TypeOK'
  BY <1>1, <1>4, <1>5 DEF TypeOK, Requests
<1>7. Placed' /\ Known' /\ Numbered' /\ SentOnce'
  BY <1>1, <1>4, RunPlaces
<1>8. Listening' /\ Blanks'
  <2>1. run'[t].phase \in {"running", "ended"}
    BY <1>3, <1>4
  <2>2. QED
    BY <1>1, <1>3, <1>4, <1>5, <2>1, RunListening
<1>9. Fresh'
  BY <1>1, <1>4, <1>5 DEF Fresh
<1>10. Unanswered'
  <2>1. \A u \in Threads : thread[u].asks # NoCall => thread[u].asks \in Calls
    BY DEF TypeOK
  <2>2. QED
    BY <1>1, <1>5, <2>1 DEF Unanswered
<1>11. ResultsAreUnique'
  BY <1>1, <1>5 DEF ResultsAreUnique
<1>12. QED
  BY <1>6, <1>7, <1>8, <1>9, <1>10, <1>11

-----------------------------------------------------------------------------
(* A thread is deleted, a run stopped, the server started again. *)

LEMMA DeleteStep ==
    ASSUME UniqueInv, NEW t \in Threads, Delete(t)
    PROVE  UniqueInv'
<1> USE DEF UniqueInv
<1>1. /\ doomed' = doomed \ {t} /\ thread' = [thread EXCEPT ![t] = Blank]
      /\ UNCHANGED <<history, pending, current, bound, mapped, run, served, made,
                     restarts, unheard, missed>>
  BY DEF Delete, browser, remarks
<1>2. /\ Blank \in [results : [Calls -> Nat], asks : Calls \cup {NoCall}]
      /\ Blank.asks = 0 /\ \A k \in Calls : Blank.results[k] = 0
  BY DEF Blank, None, NoCall
<1>3. /\ thread' \in [Threads -> [results : [Calls -> Nat], asks : Calls \cup {NoCall}]]
      /\ thread'[t] = Blank /\ \A u \in Threads \ {t} : thread'[u] = thread[u]
  BY <1>1, <1>2 DEF TypeOK
<1>4. TypeOK'
  BY <1>1, <1>3 DEF TypeOK
<1>5. Placed' /\ Known' /\ Numbered' /\ SentOnce' /\ Listening'
  <2>1. Known'
    BY <1>1 DEF Known, Minted
  <2>2. QED
    BY <1>1, <2>1 DEF Placed, Numbered, SentOnce, Listening, Minted, Active
<1>6. Blanks'
  BY <1>1, <1>3 DEF Blanks, Unused
<1>7. Fresh'
  <2>1. 0 <= made
    BY DEF TypeOK
  <2>2. QED
    BY <1>1, <1>2, <1>3, <2>1 DEF Fresh
<1>8. Unanswered' /\ ResultsAreUnique'
  BY <1>1, <1>2, <1>3 DEF Unanswered, ResultsAreUnique, NoCall
<1>9. QED
  BY <1>4, <1>5, <1>6, <1>7, <1>8

LEMMA StopStep ==
    ASSUME UniqueInv, NEW c \in Clients, Stop(c)
    PROVE  UniqueInv'
<1> USE DEF UniqueInv
<1> DEFINE r == current[c]
<1>1. /\ r # NoRun
      /\ current' = [current EXCEPT ![c] = NoRun]
      /\ run' = (IF run[r].phase = "binding" THEN run ELSE [run EXCEPT ![r].aborted = TRUE])
      /\ UNCHANGED <<history, pending, bound, mapped, doomed, thread, served, made,
                     restarts, unheard, missed>>
  BY DEF Stop, remarks
<1>2. r \in Runs
  BY <1>1 DEF TypeOK
<1>3. /\ run' \in [Runs -> Requests]
      /\ \A s \in Runs \ {r} : run'[s] = run[s]
      /\ \A s \in Runs :
            /\ run'[s].phase = run[s].phase /\ run'[s].client = run[s].client
            /\ run'[s].answer = run[s].answer /\ run'[s].sent = run[s].sent
            /\ run'[s].thread = run[s].thread
  BY <1>1, <1>2, RunsAreRequests DEF Requests
<1>4. TypeOK'
  BY <1>1, <1>3 DEF TypeOK, Requests
<1>5. Numbered'
  <2>1. ~(r > served)
    BY <1>1, <1>2, IdleIsARequest DEF Numbered, Listening
  <2>2. QED
    BY <1>1, <1>2, <1>3, <2>1 DEF Numbered
<1>6. \A t : Minted(t)' <=> Minted(t)
  BY <1>3 DEF Minted, IsResume
<1>7. Known'
  BY <1>1, <1>6 DEF Known
<1>8. Placed'
  <2>1. \A s \in Runs : run[s].phase = "running" => run[s].thread \in Runs
    BY DEF Placed, Active, Minted
  <2>2. QED
    BY <1>3, <1>6, <2>1 DEF Placed, Active, IsResume
<1>9. Blanks'
  BY <1>1, <1>3 DEF Blanks, Unused, Threads, IsResume
<1>10. Listening'
  BY <1>1, <1>3 DEF Listening, TypeOK
<1>11. Fresh' /\ SentOnce' /\ Unanswered' /\ ResultsAreUnique'
  BY <1>1, <1>3 DEF Fresh, SentOnce, Unanswered, ResultsAreUnique
<1>12. QED
  BY <1>4, <1>5, <1>7, <1>8, <1>9, <1>10, <1>11

LEMMA RestartStep ==
    ASSUME UniqueInv, Restart
    PROVE  UniqueInv'
<1> USE DEF UniqueInv
<1>1. /\ restarts < MaxRestarts /\ restarts' = restarts + 1
      /\ current' = [c \in Clients |-> NoRun]
      /\ bound' = FALSE /\ mapped' = [c \in Clients |-> NoThread] /\ doomed' = {}
      /\ thread' = [t \in Threads |-> Blank]
      /\ run' = [r \in Runs |-> IF r <= served THEN Over ELSE run[r]]
      /\ unheard' = unheard \cup {c \in Clients : pending[c] # NoCall}
      /\ UNCHANGED <<history, pending, served, made, missed>>
  BY DEF Restart
<1>2. /\ Blank \in [results : [Calls -> Nat], asks : Calls \cup {NoCall}]
      /\ Blank.asks = 0 /\ \A k \in Calls : Blank.results[k] = 0
  BY DEF Blank, None, NoCall
<1>3. \A r \in Runs : run'[r] = Idle \/ run'[r] = Over
  BY <1>1, BoundsAreNumbers DEF Numbered, TypeOK
<1>4. \A r \in Runs : run'[r] \in Requests /\ run'[r].phase \in {"new", "ended"}
                      /\ run'[r].sent = None
  BY <1>3, IdleIsARequest, OverIsARequest
<1>5. TypeOK'
  <2>1. restarts' \in 0 .. MaxRestarts
    BY <1>1, BoundsAssumption DEF TypeOK
  <2>2. unheard' \subseteq Clients
    BY <1>1 DEF TypeOK
  <2>3. run' \in [Runs -> Requests]
    BY <1>1, <1>4
  <2>4. thread' \in [Threads -> [results : [Calls -> Nat], asks : Calls \cup {NoCall}]]
    BY <1>1, <1>2
  <2>5. QED
    BY <1>1, <2>1, <2>2, <2>3, <2>4 DEF TypeOK, Requests, NoRun
<1>6. Numbered'
  BY <1>1, BoundsAreNumbers DEF Numbered, TypeOK
<1>7. Fresh' /\ SentOnce'
  <2>1. 0 <= made
    BY DEF TypeOK
  <2>2. QED
    BY <1>1, <1>2, <1>4, <2>1 DEF Fresh, SentOnce, None
<1>8. Listening' /\ Unanswered' /\ Placed' /\ Known'
  BY <1>1, <1>2, <1>4 DEF Listening, Unanswered, Placed, Known, Active, NoCall
<1>9. Blanks' /\ ResultsAreUnique'
  BY <1>1, <1>2 DEF Blanks, ResultsAreUnique
<1>10. QED
  BY <1>5, <1>6, <1>7, <1>8, <1>9

LEMMA UniqueStep ==
    ASSUME UniqueInv, [Next]_vars
    PROVE  UniqueInv'
<1>1. ASSUME NEW c \in Clients, Send(c) \/ Answer(c) \/ Stop(c)
      PROVE  UniqueInv'
  BY <1>1, SendStep, AnswerStep, StopStep
<1>2. ASSUME NEW r \in Runs, Bound(r)
      PROVE  UniqueInv'
  BY <1>2, BoundStep
<1>3. ASSUME NEW r \in Runs, BindFails(r) \/ Finish(r)
      PROVE  UniqueInv'
  <2>1. /\ run[r].phase \in {"binding", "started", "running"} /\ Ends(r) /\ HangUp(r)
        /\ UNCHANGED <<history, pending, bound, mapped, doomed, thread, served, made,
                       restarts, unheard, missed>>
    BY <1>3 DEF BindFails, Finish, remarks
  <2>2. missed' \subseteq Clients
    BY <2>1 DEF UniqueInv, TypeOK
  <2>3. QED
    BY <2>1, <2>2, EndStep
<1>4. ASSUME NEW r \in Runs, ResumeNothing(r)
      PROVE  UniqueInv'
  <2>1. /\ run[r].phase = "started" /\ Ends(r) /\ HangUp(r)
        /\ missed' = (IF Hears(r) THEN missed \cup {run[r].client} ELSE missed)
        /\ UNCHANGED <<history, pending, bound, mapped, doomed, thread, served, made,
                       restarts, unheard>>
    BY <1>4 DEF ResumeNothing
  <2>2. missed' \subseteq Clients
    BY <2>1, RunsAreRequests DEF UniqueInv, TypeOK, Requests
  <2>3. QED
    BY <2>1, <2>2, EndStep
<1>5. ASSUME NEW r \in Runs,
             Replay(r) \/ Resume(r) \/ CallServerTool(r) \/ CallClientTool(r) \/ Fold(r)
      PROVE  UniqueInv'
  BY <1>5, ReplayStep, ResumeStep, CallServerToolStep, CallClientToolStep, FoldStep
<1>6. ASSUME NEW t \in Threads, Delete(t)
      PROVE  UniqueInv'
  BY <1>6, DeleteStep
<1>7. CASE Restart
  BY <1>7, RestartStep
<1>8. CASE UNCHANGED vars
  BY <1>8 DEF vars, browser, server, remarks, UniqueInv, TypeOK, Fresh, Numbered, Listening,
              SentOnce, Unanswered, Placed, Blanks, Known, ResultsAreUnique, Minted, Active,
              Unused
<1>9. QED
  BY <1>1, <1>2, <1>3, <1>4, <1>5, <1>6, <1>7, <1>8 DEF Next

LEMMA UniqueInit ==
    ASSUME Init
    PROVE  UniqueInv
<1>1. /\ Blank \in [results : [Calls -> Nat], asks : Calls \cup {NoCall}]
      /\ Blank.asks = 0 /\ \A k \in Calls : Blank.results[k] = 0
      /\ None \in [Calls -> Nat] /\ \A k \in Calls : None[k] = 0
  BY DEF Blank, None, NoCall
<1>2. TypeOK
  <2>1. run \in [Runs -> Requests]
    BY IdleIsARequest DEF Init
  <2>2. /\ served \in 0 .. MaxRuns /\ made \in 0 .. MaxCalls /\ restarts \in 0 .. MaxRestarts
    BY BoundsAssumption DEF Init
  <2>3. QED
    BY <1>1, <2>1, <2>2 DEF Init, TypeOK, Requests
<1>3. Fresh /\ SentOnce /\ ResultsAreUnique
  BY <1>1, IdleIsARequest DEF Init, Fresh, SentOnce, ResultsAreUnique, NoCall
<1>4. Numbered /\ Listening /\ Unanswered /\ Placed /\ Blanks /\ Known
  BY <1>1, IdleIsARequest DEF Init, Numbered, Listening, Unanswered, Placed, Blanks, Known,
                              Active, NoCall
<1>5. QED
  BY <1>2, <1>3, <1>4 DEF UniqueInv

LEMMA UniqueInvHolds == Spec => []UniqueInv
<1>1. Init => UniqueInv
  BY UniqueInit
<1>2. UniqueInv /\ [Next]_vars => UniqueInv'
  BY UniqueStep
<1>3. QED
  BY <1>1, <1>2, PTL DEF Spec

\* Whatever clients send, stop and answer and however often the server is started again,
\* the server's tables and its saver's threads keep their types: a request names a thread
\* only once it began, and a thread is suspended on a call or on none.
THEOREM AgUiTypeCorrect == Spec => []TypeOK
<1>1. UniqueInv => TypeOK
  BY DEF UniqueInv
<1>2. QED
  BY <1>1, UniqueInvHolds, PTL

\* No call ever has two results in a conversation or in a thread
\* (apiAgUiModule.ts: the echo filter, the fresh thread of every replay).
THEOREM CallsKeepOneResult == Spec => []ResultsAreUnique
<1>1. UniqueInv => ResultsAreUnique
  BY DEF UniqueInv
<1>2. QED
  BY <1>1, UniqueInvHolds, PTL

-----------------------------------------------------------------------------
\* Conversations share no thread, and the one a conversation is on is not
\* being deleted.
Apart ==
    /\ \A c, d \in Clients : mapped[c] # NoThread /\ mapped[c] = mapped[d] => c = d
    /\ \A c \in Clients : mapped[c] \notin doomed
    /\ \A r \in Runs, c \in Clients :
          Active(r) /\ run[r].thread = mapped[c] => run[r].client = c
    /\ \A r, s \in Runs :
          Active(r) /\ Active(s) /\ run[r].thread = run[s].thread
              => run[r].client = run[s].client

Agents == \A r \in Runs : Active(r) => bound

\* No two requests of a conversation are on one thread; one the client has left is
\* on the conversation's thread only until the next request.
Alone ==
    \A r \in Runs :
        Active(r) /\ run[r].client \notin unheard =>
            /\ \A s \in Runs : Active(s) /\ s # r => run[s].thread # run[r].thread
            /\ run[r].thread = mapped[run[r].client] /\ ~Hears(r) =>
                  /\ pending[run[r].client] = NoCall
                  /\ current[run[r].client] = NoRun

\* A request that is heard is on the conversation's thread.
OnItsThread ==
    \A c \in Clients \ unheard :
        current[c] # NoRun /\ Active(current[c])
            => run[current[c]].thread = mapped[c] /\ mapped[c] # NoThread

\* The call a client waits for, or brings the answer of, is the one its thread is
\* suspended on.
Suspended(c, k) == mapped[c] # NoThread /\ thread[mapped[c]].asks = k

Awaited ==
    \A c \in Clients \ unheard :
        /\ pending[c] # NoCall => Suspended(c, pending[c])
        /\ LET r == current[c] IN
           r # NoRun /\ run[r].phase \in {"binding", "started"} /\ IsResume(run[r])
              => Suspended(c, run[r].answer)

\* An answer on its way finds its own call, or none.
Addressed ==
    \A r \in Runs :
        /\ run[r].client \notin unheard
        /\ run[r].phase = "started" /\ IsResume(run[r])
        => thread[run[r].thread].asks \in {NoCall, run[r].answer}

ReachInv ==
    /\ UniqueInv /\ Apart /\ Agents /\ Alone /\ OnItsThread /\ Awaited /\ Addressed
    /\ AnswersReachTheirCalls

-----------------------------------------------------------------------------
(* Who is on a thread. *)

\* A request runs on a thread of the server's, or on the id of its own client.
LEMMA ActiveThreads ==
    ASSUME UniqueInv, NEW r \in Runs, Active(r)
    PROVE  /\ run[r].client \in Clients
           /\ run[r].thread \in Threads /\ run[r].thread # NoThread
           /\ run[r].thread \in Clients => run[r].thread = run[r].client
           /\ \A s \in Runs : run[s].phase \in {"new", "binding"} => run[r].thread # s
<1>1. run[r].client \in Clients
  BY RunsAreRequests DEF UniqueInv, Requests
<1>2. Minted(run[r].thread) \/ run[r].thread = run[r].client
  BY DEF UniqueInv, Placed
<1>3. QED
  BY <1>1, <1>2, BoundsAreNumbers DEF Minted, NoThread

\* A conversation is on a thread of the server's, or on none.
LEMMA MappedThreads ==
    ASSUME UniqueInv, NEW c \in Clients, mapped[c] # NoThread
    PROVE  /\ mapped[c] \in Runs /\ mapped[c] \notin Clients /\ mapped[c] \in Threads
           /\ \A s \in Runs : run[s].phase \in {"new", "binding"} => mapped[c] # s
<1>1. Minted(mapped[c])
  BY DEF UniqueInv, Known
<1>2. QED
  BY <1>1, BoundsAreNumbers DEF Minted

\* No request is on the thread of a client that waits, or whose request has not begun
\* to run, but that request itself.
LEMMA NobodyElse ==
    ASSUME ReachInv, NEW r \in Runs, Active(r), NEW c \in Clients \ unheard,
           pending[c] # NoCall \/ (current[c] # NoRun /\ current[c] # r)
    PROVE  mapped[c] # run[r].thread
<1> SUFFICES ASSUME mapped[c] = run[r].thread
             PROVE  FALSE
  OBVIOUS
<1>1. run[r].client = c
  BY DEF ReachInv, Apart
<1>2. CASE Hears(r)
  <2>1. current[c] = r /\ r # NoRun
    BY <1>1, <1>2, BoundsAreNumbers DEF Hears, NoRun
  <2>2. pending[c] = NoCall
    BY <2>1 DEF ReachInv, UniqueInv, Listening
  <2>3. QED
    BY <2>1, <2>2
<1>3. CASE ~Hears(r)
  BY <1>1, <1>3 DEF ReachInv, Alone
<1>4. QED
  BY <1>2, <1>3

-----------------------------------------------------------------------------
(* A request begins, or waits for its agent. *)

LEMMA BeginApart ==
    ASSUME UniqueInv, Apart, NEW r \in Runs, run[r].phase \in {"new", "binding"},
           NEW q \in Requests, Begin(r, q)
    PROVE  Apart'
<1> DEFINE c == q.client
<1>1. /\ run'[r].client = c /\ run'[r].thread = CheckpointThread(r, q)
      /\ \A s \in Runs \ {r} : run'[s] = run[s]
  BY BeginWrites DEF UniqueInv
<1>2. /\ mapped'[c] = IF IsResume(q) THEN mapped[c] ELSE r
      /\ \A d \in Clients \ {c} : mapped'[d] = mapped[d]
      /\ \A t \in doomed' : t \in doomed \/ (~IsResume(q) /\ t = mapped[c] /\ t # NoThread)
  BY RetireWrites DEF UniqueInv, Begin, Retire, TypeOK, Requests
<1>3. c \in Clients /\ r # NoThread
  BY BoundsAreNumbers DEF Requests, NoThread
<1>4. \A d \in Clients : mapped[d] # r
  BY <1>3, MappedThreads
<1>5. \A t \in doomed : t # r
  BY DEF UniqueInv, Known, Minted
<1>6. /\ \A d, e \in Clients : mapped'[d] # NoThread /\ mapped'[d] = mapped'[e] => d = e
      /\ \A d \in Clients : mapped'[d] \notin doomed'
  BY <1>2, <1>3, <1>4, <1>5 DEF Apart
<1>7. \A s \in Runs \ {r} : Active(s)' <=> Active(s)
  BY <1>1 DEF Active
<1>8. \A s \in Runs \ {r} : Active(s) => run[s].thread # r
  BY ActiveThreads
\* Where it starts: on a thread nobody is on, or among its client's own.
<1>9. ASSUME NEW d \in Clients, run'[r].thread = mapped'[d]
      PROVE  d = c
  <2>1. CASE ~IsResume(q)
    BY <1>1, <1>2, <1>4, <1>9, <2>1 DEF CheckpointThread
  <2>2. CASE IsResume(q) /\ mapped[c] # NoThread
    BY <1>1, <1>2, <1>3, <1>9, <2>2 DEF CheckpointThread, Apart
  <2>3. CASE IsResume(q) /\ mapped[c] = NoThread
    <3>1. mapped[d] = c
      BY <1>1, <1>2, <1>9, <2>3 DEF CheckpointThread
    <3>2. c # NoThread
      BY <1>3, BoundsAreNumbers DEF NoThread
    <3>3. QED
      BY <1>3, <3>1, <3>2, MappedThreads
  <2>4. QED
    BY <2>1, <2>2, <2>3
<1>10. ASSUME NEW s \in Runs \ {r}, Active(s), run[s].thread = run'[r].thread
       PROVE  run[s].client = c
  <2>1. CASE ~IsResume(q)
    BY <1>1, <1>8, <1>10, <2>1 DEF CheckpointThread
  <2>2. CASE IsResume(q) /\ mapped[c] # NoThread
    BY <1>1, <1>3, <1>10, <2>2 DEF CheckpointThread, Apart
  <2>3. CASE IsResume(q) /\ mapped[c] = NoThread
    BY <1>1, <1>3, <1>10, <2>3, ActiveThreads DEF CheckpointThread
  <2>4. QED
    BY <2>1, <2>2, <2>3
<1>11. ASSUME NEW s \in Runs, NEW d \in Clients, Active(s)', run'[s].thread = mapped'[d]
       PROVE  run'[s].client = d
  <2>1. CASE s = r
    BY <1>1, <1>9, <1>11, <2>1
  <2>2. CASE s # r
    <3>1. run[s].thread # r /\ Active(s) /\ run'[s] = run[s]
      BY <1>1, <1>7, <1>8, <1>11, <2>2
    <3>2. mapped'[d] = mapped[d]
      BY <1>2, <1>11, <3>1
    <3>3. QED
      BY <1>11, <3>1, <3>2 DEF Apart
  <2>3. QED
    BY <2>1, <2>2
<1>12. \A s, u \in Runs : Active(s)' /\ Active(u)' /\ run'[s].thread = run'[u].thread
                            => run'[s].client = run'[u].client
  BY <1>1, <1>7, <1>10 DEF Apart
<1>13. QED
  BY <1>6, <1>11, <1>12 DEF Apart

\* A request begins whose client has left, or hears it and is on the thread alone.
LEMMA BeginReach ==
    ASSUME ReachInv, UniqueInv', NEW r \in Runs, run[r].phase \in {"new", "binding"},
           NEW q \in Requests, Begin(r, q), bound', thread' = thread, missed' = missed,
           unheard \subseteq unheard', unheard' \subseteq unheard \cup {q.client},
           \A d \in Clients \ {q.client} : pending'[d] = pending[d] /\ current'[d] = current[d],
           q.client \notin unheard' =>
               /\ current'[q.client] = r /\ pending'[q.client] = NoCall
               /\ IsResume(q) =>
                     /\ Suspended(q.client, q.answer)
                     /\ \A s \in Runs : Active(s) => run[s].thread # mapped[q.client]
    PROVE  ReachInv'
<1> DEFINE c == q.client
<1> USE DEF ReachInv
<1>1. /\ run'[r].phase = "started" /\ run'[r].client = c /\ run'[r].answer = q.answer
      /\ run'[r].thread = CheckpointThread(r, q)
      /\ \A s \in Runs \ {r} : run'[s] = run[s]
  BY BeginWrites DEF UniqueInv
<1>2. /\ mapped'[c] = IF IsResume(q) THEN mapped[c] ELSE r
      /\ \A d \in Clients \ {c} : mapped'[d] = mapped[d]
  BY RetireWrites DEF UniqueInv, Begin
<1>3. c \in Clients /\ r # NoThread
  BY BoundsAreNumbers DEF Requests, NoThread
<1>4. Apart'
  BY BeginApart
<1>5. Agents'
  BY DEF Agents
<1>6. \A s \in Runs \ {r} : /\ Active(s)' <=> Active(s)
                            /\ Active(s) => run[s].thread # r
  BY <1>1, ActiveThreads DEF Active
\* A client that hears the request has nobody else on the thread it is put on.
<1>7. ASSUME c \notin unheard'
      PROVE  /\ run'[r].thread = mapped'[c] /\ mapped'[c] # NoThread
             /\ \A s \in Runs \ {r} : Active(s) => run[s].thread # mapped'[c]
  BY <1>1, <1>2, <1>3, <1>6, <1>7 DEF CheckpointThread, Suspended
<1>8. Alone'
  <2> SUFFICES ASSUME NEW s \in Runs, Active(s)', run'[s].client \notin unheard'
               PROVE  /\ \A u \in Runs : Active(u)' /\ u # s => run'[u].thread # run'[s].thread
                      /\ run'[s].thread = mapped'[run'[s].client] /\ ~Hears(s)' =>
                            /\ pending'[run'[s].client] = NoCall
                            /\ current'[run'[s].client] = NoRun
    BY DEF Alone
  <2>1. CASE s = r
    <3>1. Hears(s)'
      BY <1>1, <2>1 DEF Hears
    <3>2. QED
      BY <1>1, <1>6, <1>7, <2>1, <3>1
  <2>2. CASE s # r /\ run[s].client = c
    <3>1. c \notin unheard' /\ c \notin unheard /\ Active(s) /\ run'[s] = run[s]
      BY <1>1, <1>6, <2>2
    <3>2. run[s].thread # mapped'[c] /\ run'[r].thread = mapped'[c]
      BY <1>7, <2>2, <3>1
    <3>3. \A u \in Runs : Active(u) /\ u # s => run[u].thread # run[s].thread
      BY <2>2, <3>1 DEF Alone
    <3>4. QED
      BY <1>1, <1>6, <2>2, <3>1, <3>2, <3>3
  <2>3. CASE s # r /\ run[s].client # c
    <3> DEFINE d == run[s].client
    <3>1. Active(s) /\ run'[s] = run[s] /\ d \in Clients /\ d \notin unheard
      BY <1>1, <1>6, <2>3, ActiveThreads
    <3>2. mapped'[d] = mapped[d] /\ pending'[d] = pending[d] /\ current'[d] = current[d]
      BY <1>2, <2>3, <3>1
    <3>3. run'[r].thread # run'[s].thread
      <4>1. Active(r)'
        BY <1>1 DEF Active
      <4>2. run'[r].client # run'[s].client
        BY <1>1, <2>3, <3>1
      <4>3. QED
        BY <1>4, <4>1, <4>2 DEF Apart
    <3>4. \A u \in Runs : Active(u)' /\ u # s => run'[u].thread # run'[s].thread
      BY <1>1, <1>6, <2>3, <3>1, <3>3 DEF Alone
    <3>5. QED
      BY <3>1, <3>2, <3>4 DEF Alone, Hears
  <2>4. QED
    BY <2>1, <2>2, <2>3
<1>9. ASSUME NEW d \in Clients \ unheard', d # c, current[d] # NoRun
      PROVE  run'[current[d]] = run[current[d]] /\ current[d] # r
  <2>1. current[d] \in Runs
    BY <1>9 DEF UniqueInv, TypeOK
  <2>2. run'[current[d]].client = d
    BY <1>9 DEF UniqueInv, Listening
  <2>3. QED
    BY <1>1, <1>9, <2>1, <2>2
<1>10. OnItsThread'
  <2> SUFFICES ASSUME NEW d \in Clients \ unheard', current'[d] # NoRun, Active(current[d])'
               PROVE  run'[current'[d]].thread = mapped'[d] /\ mapped'[d] # NoThread
    BY DEF OnItsThread, Active
  <2>1. CASE d = c
    BY <1>7, <2>1
  <2>2. CASE d # c
    BY <1>2, <1>9, <2>2 DEF OnItsThread, Active
  <2>3. QED
    BY <2>1, <2>2
<1>11. Awaited'
  <2> SUFFICES ASSUME NEW d \in Clients \ unheard'
               PROVE  /\ pending'[d] # NoCall => Suspended(d, pending[d])'
                      /\ LET u == current'[d] IN
                         u # NoRun /\ run'[u].phase \in {"binding", "started"} /\ IsResume(run'[u])
                            => /\ mapped'[d] # NoThread
                               /\ thread'[mapped'[d]].asks = run'[u].answer
    BY DEF Awaited, Suspended
  <2>1. CASE d = c
    BY <1>1, <1>2, <2>1 DEF Suspended, IsResume
  <2>2. CASE d # c
    BY <1>2, <1>9, <2>2 DEF Awaited, Suspended
  <2>3. QED
    BY <2>1, <2>2
<1>12. Addressed'
  <2> SUFFICES ASSUME NEW s \in Runs, run'[s].client \notin unheard',
                      run'[s].phase = "started", IsResume(run'[s])
               PROVE  thread'[run'[s].thread].asks \in {NoCall, run'[s].answer}
    BY DEF Addressed
  <2>1. CASE s = r
    BY <1>1, <1>2, <1>7, <2>1 DEF Suspended, IsResume
  <2>2. CASE s # r
    BY <1>1, <2>2 DEF Addressed
  <2>3. QED
    BY <2>1, <2>2
<1>13. AnswersReachTheirCalls'
  BY DEF AnswersReachTheirCalls
<1>14. QED
  BY <1>4, <1>5, <1>8, <1>10, <1>11, <1>12, <1>13

\* While no agent is at hand nothing runs, and a request only waits.
LEMMA WaitReach ==
    ASSUME ReachInv, UniqueInv', ~bound, NEW r \in Runs, run[r].phase = "new",
           NEW q \in Requests, q.phase = "binding", run' = [run EXCEPT ![r] = q],
           \A d \in Clients \ {q.client} : pending'[d] = pending[d] /\ current'[d] = current[d],
           current'[q.client] = r, pending'[q.client] = NoCall,
           q.client \notin unheard /\ IsResume(q) => Suspended(q.client, q.answer),
           UNCHANGED <<bound, mapped, doomed, thread, unheard, missed>>
    PROVE  ReachInv'
<1> USE DEF ReachInv
<1>1. /\ run'[r] = q /\ \A s \in Runs \ {r} : run'[s] = run[s]
  BY RunsAreRequests DEF UniqueInv
<1>2. \A s \in Runs : ~Active(s) /\ ~Active(s)'
  BY <1>1 DEF Agents, Active
<1>3. Apart' /\ Agents' /\ Alone' /\ Addressed'
  BY <1>2 DEF Apart, Agents, Alone, Addressed, Active
<1>4. \A d \in Clients : current'[d] # NoRun => current'[d] \in Runs
  BY DEF UniqueInv, TypeOK
<1>5. OnItsThread'
  BY <1>2, <1>4 DEF OnItsThread, Active
<1>6. Awaited'
  <2> SUFFICES ASSUME NEW d \in Clients \ unheard
               PROVE  /\ pending'[d] # NoCall => Suspended(d, pending[d])'
                      /\ LET u == current'[d] IN
                         u # NoRun /\ run'[u].phase \in {"binding", "started"} /\ IsResume(run'[u])
                            => /\ mapped'[d] # NoThread
                               /\ thread'[mapped'[d]].asks = run'[u].answer
    BY DEF Awaited, Suspended
  <2>1. CASE d = q.client
    BY <1>1, <2>1 DEF Suspended
  <2>2. CASE d # q.client
    <3>1. current[d] # NoRun => current[d] # r /\ run'[current[d]] = run[current[d]]
      BY <1>1, <1>4, <2>2 DEF UniqueInv, Listening
    <3>2. QED
      BY <2>2, <3>1 DEF Awaited, Suspended
  <2>3. QED
    BY <2>1, <2>2
<1>7. AnswersReachTheirCalls'
  BY DEF AnswersReachTheirCalls
<1>8. QED
  BY <1>3, <1>5, <1>6, <1>7

LEMMA ArriveReach ==
    ASSUME ReachInv, UniqueInv', NEW c \in Clients, current[c] = NoRun,
           NEW answer \in Calls \cup {NoCall}, answer \in {NoCall, pending[c]},
           history' \in [Clients -> [Calls -> Nat]], Arrive(c, answer, history'[c])
    PROVE  ReachInv'
<1> USE DEF ReachInv
<1> DEFINE r == served + 1
           q == [Idle EXCEPT !.phase = "binding", !.client = c, !.answer = answer,
                             !.sent = history'[c]]
<1>1. /\ served < MaxRuns /\ served' = r
      /\ current' = [current EXCEPT ![c] = r] /\ pending' = [pending EXCEPT ![c] = NoCall]
      /\ IF bound THEN Begin(r, q)
         ELSE run' = [run EXCEPT ![r] = q] /\ UNCHANGED <<mapped, doomed>>
      /\ UNCHANGED <<bound, thread, made, restarts, unheard, missed>>
  BY DEF Arrive, remarks
<1>2. r \in Runs /\ served \in Nat /\ r > served
  BY <1>1, BoundsAssumption DEF UniqueInv, TypeOK, Runs
<1>3. /\ q \in Requests /\ q.phase = "binding" /\ q.client = c /\ q.answer = answer
  BY IdleIsARequest DEF Requests
<1>4. run[r].phase = "new"
  BY <1>2, IdleIsARequest DEF UniqueInv, Numbered
<1>5. /\ current'[c] = r /\ pending'[c] = NoCall
      /\ \A d \in Clients \ {c} : pending'[d] = pending[d] /\ current'[d] = current[d]
  BY <1>1 DEF UniqueInv, TypeOK
<1>6. ASSUME c \notin unheard, IsResume(q)
      PROVE  Suspended(c, q.answer) /\ \A s \in Runs : Active(s) => run[s].thread # mapped[c]
  <2>1. pending[c] # NoCall /\ q.answer = pending[c]
    BY <1>3, <1>6 DEF IsResume
  <2>2. QED
    BY <1>6, <2>1, NobodyElse DEF Awaited
<1> HIDE DEF q, r
<1>7. CASE bound
  BY <1>1, <1>2, <1>3, <1>4, <1>5, <1>6, <1>7, BeginReach
<1>8. CASE ~bound
  BY <1>1, <1>2, <1>3, <1>4, <1>5, <1>6, <1>8, WaitReach
<1>9. QED
  BY <1>7, <1>8

LEMMA BoundReach ==
    ASSUME ReachInv, UniqueInv', NEW r \in Runs, Bound(r)
    PROVE  ReachInv'
<1> USE DEF ReachInv
<1> DEFINE c == run[r].client
<1>1. /\ run[r].phase = "binding" /\ bound' /\ Begin(r, run[r])
      /\ unheard' = (IF Hears(r) THEN unheard ELSE unheard \cup {c})
      /\ UNCHANGED <<pending, current, thread, missed>>
  BY DEF Bound, browser
<1>2. run[r] \in Requests /\ c \in Clients /\ r # NoRun
  BY RunsAreRequests, BoundsAreNumbers DEF UniqueInv, Requests, NoRun
<1>3. ASSUME c \notin unheard'
      PROVE  /\ current[c] = r /\ pending[c] = NoCall
             /\ IsResume(run[r]) =>
                   /\ Suspended(c, run[r].answer)
                   /\ \A s \in Runs : Active(s) => run[s].thread # mapped[c]
  <2>1. c \notin unheard /\ current[c] = r
    BY <1>1, <1>3 DEF Hears
  <2>2. pending[c] = NoCall
    BY <1>2, <2>1 DEF UniqueInv, Listening
  <2>3. \A s \in Runs : Active(s) => s # r
    BY <1>1 DEF Active
  <2>4. IsResume(run[r]) => Suspended(c, run[r].answer)
    BY <1>1, <1>2, <2>1 DEF Awaited
  <2>5. QED
    BY <1>2, <2>1, <2>2, <2>3, <2>4, NobodyElse
<1>4. QED
  BY <1>1, <1>2, <1>3, BeginReach

-----------------------------------------------------------------------------
(* A request ends. *)

\* What holds of the requests that go on when one ends.
LEMMA EndApart ==
    ASSUME ReachInv, NEW r \in Runs, Active(r) \/ run[r].phase = "binding",
           Ends(r), HangUp(r), UNCHANGED <<bound, mapped, doomed, unheard>>
    PROVE  /\ Apart' /\ Agents' /\ OnItsThread'
           /\ \A s \in Runs : Active(s)' => s # r /\ Active(s) /\ run'[s] = run[s]
           /\ \A c \in Clients : current'[c] # NoRun =>
                 /\ current'[c] = current[c] /\ current[c] \in Runs \ {r}
                 /\ run'[current[c]] = run[current[c]]
<1> USE DEF ReachInv
<1>1. /\ run'[r].phase = "ended" /\ \A s \in Runs \ {r} : run'[s] = run[s]
  BY EndsWrites, OverIsARequest DEF UniqueInv
<1>2. \A s \in Runs : Active(s)' => s # r /\ Active(s) /\ run'[s] = run[s]
  BY <1>1 DEF Active
<1>3. \A c \in Clients : current'[c] # NoRun =>
          /\ current'[c] = current[c] /\ current[c] \in Runs \ {r}
          /\ run'[current[c]] = run[current[c]]
  <2>1. \A c \in Clients : current'[c] = IF current[c] = r THEN NoRun ELSE current[c]
    BY HangUpWrites DEF UniqueInv
  <2>2. QED
    BY <1>1, <2>1 DEF UniqueInv, TypeOK
<1>4. Apart'
  BY <1>2 DEF Apart
<1>5. Agents'
  BY <1>2 DEF Agents
<1>6. OnItsThread'
  BY <1>3 DEF OnItsThread, Active
<1>7. QED
  BY <1>2, <1>3, <1>4, <1>5, <1>6

LEMMA EndReach ==
    ASSUME ReachInv, UniqueInv', NEW r \in Runs, Active(r) \/ run[r].phase = "binding",
           Ends(r), HangUp(r), missed' \subseteq unheard,
           UNCHANGED <<pending, bound, mapped, doomed, thread, unheard>>
    PROVE  ReachInv'
<1> USE DEF ReachInv
<1>1. /\ Apart' /\ Agents' /\ OnItsThread'
      /\ \A s \in Runs : Active(s)' => s # r /\ Active(s) /\ run'[s] = run[s]
      /\ \A c \in Clients : current'[c] # NoRun =>
            /\ current'[c] = current[c] /\ current[c] \in Runs \ {r}
            /\ run'[current[c]] = run[current[c]]
  BY EndApart
<1>2. \A c \in Clients : current'[c] = IF current[c] = r THEN NoRun ELSE current[c]
  BY HangUpWrites DEF UniqueInv
<1>3. Alone'
  <2> SUFFICES ASSUME NEW s \in Runs, Active(s)', run'[s].client \notin unheard'
               PROVE  /\ \A u \in Runs : Active(u)' /\ u # s => run'[u].thread # run'[s].thread
                      /\ run'[s].thread = mapped'[run'[s].client] /\ ~Hears(s)' =>
                            /\ pending'[run'[s].client] = NoCall
                            /\ current'[run'[s].client] = NoRun
    BY DEF Alone
  <2>1. s # r /\ Active(s) /\ run'[s] = run[s] /\ run[s].client \in Clients
    BY <1>1, ActiveThreads
  <2>2. ~Hears(s)' => ~Hears(s)
    BY <1>2, <2>1 DEF Hears
  <2>3. QED
    BY <1>1, <1>2, <2>1, <2>2 DEF Alone
<1>4. Awaited'
  BY <1>1 DEF Awaited, Suspended
<1>5. Addressed'
  BY <1>1 DEF Addressed, Active
<1>6. AnswersReachTheirCalls'
  BY DEF AnswersReachTheirCalls
<1>7. QED
  BY <1>1, <1>3, <1>4, <1>5, <1>6

\* An answer that is heard finds its call: its thread is the conversation's, and that
\* is suspended on the call.
LEMMA HeardAnswers ==
    ASSUME ReachInv, NEW r \in Runs, run[r].phase = "started", IsResume(run[r]), Hears(r),
           run[r].client \notin unheard
    PROVE  thread[run[r].thread].asks = run[r].answer
<1> USE DEF ReachInv
<1>1. run[r].client \in Clients /\ r # NoRun /\ Active(r)
  BY RunsAreRequests, BoundsAreNumbers DEF UniqueInv, Requests, NoRun, Active
<1>2. run[r].thread = mapped[run[r].client]
  BY <1>1 DEF OnItsThread, Hears
<1>3. Suspended(run[r].client, run[r].answer)
  BY <1>1 DEF Awaited, Hears
<1>4. QED
  BY <1>2, <1>3 DEF Suspended

LEMMA CallClientToolReach ==
    ASSUME ReachInv, UniqueInv', NEW r \in Runs, CallClientTool(r)
    PROVE  ReachInv'
<1> USE DEF ReachInv
<1> DEFINE c == run[r].client
           t == run[r].thread
           k == made + 1
<1>1. /\ run[r].phase = "running"
      /\ thread' = [thread EXCEPT ![t].asks = k]
      /\ pending' = (IF Hears(r) THEN [pending EXCEPT ![c] = k] ELSE pending)
      /\ Ends(r) /\ HangUp(r)
      /\ UNCHANGED <<bound, mapped, doomed, unheard, missed>>
  BY DEF CallClientTool, remarks
<1>2. Active(r) /\ c \in Clients /\ t \in Threads /\ r # NoRun
  BY <1>1, ActiveThreads, BoundsAreNumbers DEF Active, NoRun
<1>3. /\ \A u \in Threads : thread'[u].asks = IF u = t THEN k ELSE thread[u].asks
      /\ \A d \in Clients : pending'[d] = IF Hears(r) /\ d = c THEN k ELSE pending[d]
  BY <1>1, <1>2 DEF UniqueInv, TypeOK
<1>4. /\ Apart' /\ Agents' /\ OnItsThread'
      /\ \A s \in Runs : Active(s)' => s # r /\ Active(s) /\ run'[s] = run[s]
      /\ \A d \in Clients : current'[d] # NoRun =>
            /\ current'[d] = current[d] /\ current[d] \in Runs \ {r}
            /\ run'[current[d]] = run[current[d]]
  BY <1>1, <1>2, EndApart
<1>5. \A d \in Clients : current'[d] = IF current[d] = r THEN NoRun ELSE current[d]
  BY <1>1, HangUpWrites DEF UniqueInv
<1>6. Alone'
  <2> SUFFICES ASSUME NEW s \in Runs, Active(s)', run'[s].client \notin unheard'
               PROVE  /\ \A u \in Runs : Active(u)' /\ u # s => run'[u].thread # run'[s].thread
                      /\ run'[s].thread = mapped'[run'[s].client] /\ ~Hears(s)' =>
                            /\ pending'[run'[s].client] = NoCall
                            /\ current'[run'[s].client] = NoRun
    BY DEF Alone
  <2> DEFINE d == run[s].client
  <2>1. s # r /\ Active(s) /\ run'[s] = run[s] /\ d \in Clients /\ d \notin unheard
    BY <1>1, <1>4, ActiveThreads
  <2>2. ~Hears(s)' => ~Hears(s)
    BY <1>5, <2>1 DEF Hears
  <2>3. \A u \in Runs : Active(u)' /\ u # s => run'[u].thread # run'[s].thread
    BY <1>4, <2>1 DEF Alone
  <2>4. ASSUME run[s].thread = mapped[d], ~Hears(s)
        PROVE  pending'[d] = NoCall /\ current'[d] = NoRun
    <3>1. pending[d] = NoCall /\ current[d] = NoRun
      BY <2>1, <2>4 DEF Alone
    <3>2. ~(Hears(r) /\ d = c)
      BY <1>2, <3>1 DEF Hears
    <3>3. QED
      BY <1>3, <1>5, <2>1, <3>1, <3>2
  <2>5. QED
    BY <1>1, <2>1, <2>2, <2>3, <2>4
<1>7. Awaited'
  <2> SUFFICES ASSUME NEW d \in Clients \ unheard
               PROVE  /\ pending'[d] # NoCall => Suspended(d, pending[d])'
                      /\ LET u == current'[d] IN
                         u # NoRun /\ run'[u].phase \in {"binding", "started"} /\ IsResume(run'[u])
                            => /\ mapped'[d] # NoThread
                               /\ thread'[mapped'[d]].asks = run'[u].answer
    BY <1>1 DEF Awaited, Suspended
  <2>1. CASE Hears(r) /\ d = c
    <3>1. mapped[d] = t /\ mapped[d] # NoThread /\ current'[d] = NoRun
      BY <1>2, <1>5, <2>1 DEF OnItsThread, Hears
    <3>2. QED
      BY <1>1, <1>2, <1>3, <2>1, <3>1 DEF Suspended
  <2>2. CASE ~(Hears(r) /\ d = c)
    <3>1. pending'[d] = pending[d]
      BY <1>3, <2>2
    <3>2. pending[d] # NoCall \/ current'[d] # NoRun => mapped[d] # t
      BY <1>2, <1>4, NobodyElse
    <3>3. mapped[d] # NoThread => mapped[d] \in Threads
      BY MappedThreads
    <3>4. QED
      BY <1>1, <1>3, <1>4, <3>1, <3>2, <3>3 DEF Awaited, Suspended
  <2>3. QED
    BY <2>1, <2>2
<1>8. Addressed'
  <2> SUFFICES ASSUME NEW s \in Runs, run'[s].client \notin unheard',
                      run'[s].phase = "started", IsResume(run'[s])
               PROVE  thread'[run'[s].thread].asks \in {NoCall, run'[s].answer}
    BY DEF Addressed
  <2>1. s # r /\ Active(s) /\ run'[s] = run[s]
    BY <1>4 DEF Active
  <2>2. run[s].thread # t /\ run[s].thread \in Threads
    BY <1>1, <1>2, <2>1, ActiveThreads DEF Alone
  <2>3. QED
    BY <1>1, <1>3, <2>1, <2>2 DEF Addressed
<1>9. AnswersReachTheirCalls'
  BY <1>1 DEF AnswersReachTheirCalls
<1>10. QED
  BY <1>4, <1>6, <1>7, <1>8, <1>9

-----------------------------------------------------------------------------
(* A request runs. *)

LEMMA RunReach ==
    ASSUME ReachInv, UniqueInv', NEW r \in Runs, Active(r),
           run'[r].phase = "running", run'[r].client = run[r].client,
           run'[r].thread = run[r].thread,
           \A s \in Runs \ {r} : run'[s] = run[s],
           \/ \A t \in Threads : thread'[t].asks = thread[t].asks
           \/ /\ \A t \in Threads \ {run[r].thread} : thread'[t].asks = thread[t].asks
              /\ thread'[run[r].thread].asks = NoCall,
           missed' \subseteq unheard,
           UNCHANGED <<pending, current, bound, mapped, doomed, unheard>>
    PROVE  ReachInv'
<1> USE DEF ReachInv
<1>1. \A s \in Runs : /\ Active(s)' <=> Active(s)
                      /\ run'[s].client = run[s].client
                      /\ Active(s) => run'[s].thread = run[s].thread
  BY DEF Active
<1>2. Apart' /\ Agents'
  BY <1>1 DEF Apart, Agents
<1>3. Alone'
  BY <1>1 DEF Alone, Hears
<1>4. \A c \in Clients : current[c] # NoRun => current[c] \in Runs
  BY DEF UniqueInv, TypeOK
<1>5. OnItsThread'
  BY <1>1, <1>4 DEF OnItsThread, Active
<1>6. Awaited'
  <2> SUFFICES ASSUME NEW d \in Clients \ unheard
               PROVE  /\ pending[d] # NoCall => Suspended(d, pending[d])'
                      /\ LET u == current[d] IN
                         u # NoRun /\ run'[u].phase \in {"binding", "started"} /\ IsResume(run'[u])
                            => /\ mapped[d] # NoThread
                               /\ thread'[mapped[d]].asks = run'[u].answer
    BY DEF Awaited, Suspended
  <2>1. mapped[d] # NoThread => mapped[d] \in Threads
    BY MappedThreads
  <2>2. pending[d] # NoCall \/ (current[d] # NoRun /\ current[d] # r)
            => mapped[d] # run[r].thread
    BY NobodyElse
  <2>3. pending[d] # NoCall => Suspended(d, pending[d])'
    BY <2>1, <2>2 DEF Awaited, Suspended
  <2>4. ASSUME current[d] # NoRun, run'[current[d]].phase \in {"binding", "started"},
               IsResume(run'[current[d]])
        PROVE  /\ mapped[d] # NoThread
               /\ thread'[mapped[d]].asks = run'[current[d]].answer
    <3>1. current[d] # r /\ run'[current[d]] = run[current[d]]
      BY <1>4, <2>4
    <3>2. QED
      BY <2>1, <2>2, <2>4, <3>1 DEF Awaited, Suspended
  <2>5. QED
    BY <2>3, <2>4
<1>7. Addressed'
  <2> SUFFICES ASSUME NEW s \in Runs, run'[s].client \notin unheard,
                      run'[s].phase = "started", IsResume(run'[s])
               PROVE  thread'[run'[s].thread].asks \in {NoCall, run'[s].answer}
    BY DEF Addressed
  <2>1. s # r /\ run'[s] = run[s] /\ Active(s)
    BY DEF Active
  <2>2. run[s].thread \in Threads
    BY <2>1, ActiveThreads
  <2>3. QED
    BY <2>1, <2>2 DEF Addressed
<1>8. AnswersReachTheirCalls'
  BY DEF AnswersReachTheirCalls
<1>9. QED
  BY <1>2, <1>3, <1>5, <1>6, <1>7, <1>8

LEMMA ResumeReach ==
    ASSUME ReachInv, UniqueInv', NEW r \in Runs, Resume(r)
    PROVE  ReachInv'
<1> USE DEF ReachInv
<1> DEFINE t == run[r].thread
           k == thread[t].asks
<1>1. /\ run[r].phase = "started" /\ IsResume(run[r]) /\ k # NoCall
      /\ run' = [run EXCEPT ![r].phase = "running"]
      /\ missed' = (IF k = run[r].answer THEN missed ELSE missed \cup {run[r].client})
      /\ UNCHANGED <<pending, current, bound, mapped, doomed, unheard>>
  BY DEF Resume
<1>2. Active(r) /\ t \in Threads
  BY <1>1, ActiveThreads DEF Active
<1>3. /\ run'[r].phase = "running" /\ run'[r].client = run[r].client
      /\ run'[r].thread = run[r].thread
      /\ \A s \in Runs \ {r} : run'[s] = run[s]
  BY <1>1, RunsAreRequests DEF UniqueInv, Requests
<1>4. /\ \A u \in Threads \ {t} : thread'[u] = thread[u]
      /\ thread'[t].asks = NoCall
  <2>1. thread' = [thread EXCEPT ![t].results[k] = @ + 1, ![t].asks = NoCall]
    BY DEF Resume
  <2>2. thread \in [Threads -> [results : [Calls -> Nat], asks : Calls \cup {NoCall}]]
    BY DEF UniqueInv, TypeOK
  <2> HIDE DEF k
  <2>3. QED
    BY <1>2, <2>1, <2>2
<1>5. missed' \subseteq unheard
  BY <1>1 DEF Addressed, AnswersReachTheirCalls
<1>6. QED
  BY <1>1, <1>2, <1>3, <1>4, <1>5, RunReach

LEMMA RunsOnReach ==
    ASSUME ReachInv, UniqueInv', NEW r \in Runs, Replay(r) \/ CallServerTool(r) \/ Fold(r)
    PROVE  ReachInv'
<1> USE DEF ReachInv
<1>1. /\ Active(r)
      /\ run' = run \/ (run' = [run EXCEPT ![r].phase = "running"])
                    \/ (run' = [run EXCEPT ![r].attempt = 1])
      /\ run'[r].phase = "running"
      /\ UNCHANGED <<pending, current, bound, mapped, doomed, unheard, missed>>
  BY RunsAreRequests DEF Replay, CallServerTool, Fold, Active, browser, server, remarks,
                         UniqueInv, Requests
<1>2. /\ run'[r].client = run[r].client /\ run'[r].thread = run[r].thread
      /\ \A s \in Runs \ {r} : run'[s] = run[s]
  BY <1>1, RunsAreRequests DEF UniqueInv, Requests
<1>3. \A t \in Threads : thread'[t].asks = thread[t].asks
  <2>1. CASE Replay(r)
    BY <2>1 DEF Replay, UniqueInv, TypeOK
  <2>2. CASE CallServerTool(r)
    BY <2>2 DEF CallServerTool, UniqueInv, TypeOK
  <2>3. CASE Fold(r)
    BY <2>3 DEF Fold, UniqueInv, TypeOK
  <2>4. QED
    BY <2>1, <2>2, <2>3
<1>4. missed' \subseteq unheard
  BY <1>1 DEF AnswersReachTheirCalls
<1>5. QED
  BY <1>1, <1>2, <1>3, <1>4, RunReach

-----------------------------------------------------------------------------
(* A thread is deleted, a run stopped, the server started again. *)

LEMMA DeleteReach ==
    ASSUME ReachInv, UniqueInv', NEW t \in Threads, Delete(t)
    PROVE  ReachInv'
<1> USE DEF ReachInv
<1>1. /\ t \in doomed /\ doomed' = doomed \ {t} /\ thread' = [thread EXCEPT ![t] = Blank]
      /\ UNCHANGED <<pending, current, bound, mapped, run, unheard, missed>>
  BY DEF Delete, browser, remarks
<1>2. /\ thread'[t].asks = NoCall /\ \A u \in Threads \ {t} : thread'[u] = thread[u]
  BY <1>1, BlankAsksNothing DEF UniqueInv, TypeOK
<1>3. Apart' /\ Agents' /\ Alone' /\ OnItsThread'
  BY <1>1 DEF Apart, Agents, Alone, OnItsThread, Active, Hears
<1>4. Awaited'
  <2>1. \A c \in Clients : mapped[c] # NoThread => mapped[c] \in Threads \ {t}
    BY <1>1, MappedThreads DEF Apart
  <2>2. \A c \in Clients : \A k : Suspended(c, k) => Suspended(c, k)'
    BY <1>1, <1>2, <2>1 DEF Suspended
  <2>3. QED
    BY <1>1, <2>2 DEF Awaited
<1>5. Addressed'
  <2>1. \A r \in Runs : Active(r) => run[r].thread \in Threads
    BY ActiveThreads
  <2>2. QED
    BY <1>1, <1>2, <2>1 DEF Addressed, Active
<1>6. AnswersReachTheirCalls'
  BY <1>1 DEF AnswersReachTheirCalls
<1>7. QED
  BY <1>3, <1>4, <1>5, <1>6

LEMMA StopReach ==
    ASSUME ReachInv, UniqueInv', NEW c \in Clients, Stop(c)
    PROVE  ReachInv'
<1> USE DEF ReachInv
<1> DEFINE r == current[c]
<1>1. /\ r # NoRun
      /\ current' = [current EXCEPT ![c] = NoRun]
      /\ run' = (IF run[r].phase = "binding" THEN run ELSE [run EXCEPT ![r].aborted = TRUE])
      /\ UNCHANGED <<pending, bound, mapped, doomed, thread, unheard, missed>>
  BY DEF Stop, remarks
<1>2. r \in Runs /\ pending[c] = NoCall
  BY <1>1 DEF UniqueInv, TypeOK, Listening
<1>3. \A s \in Runs :
          /\ run'[s].phase = run[s].phase /\ run'[s].client = run[s].client
          /\ run'[s].answer = run[s].answer /\ run'[s].thread = run[s].thread
  BY <1>1, <1>2, RunsAreRequests DEF UniqueInv, Requests
<1>4. \A s \in Runs : Active(s)' <=> Active(s)
  BY <1>3 DEF Active
<1>5. Apart' /\ Agents' /\ Addressed'
  BY <1>1, <1>3, <1>4 DEF Apart, Agents, Addressed, IsResume
<1>6. \A d \in Clients : current'[d] = IF d = c THEN NoRun ELSE current[d]
  BY <1>1 DEF UniqueInv, TypeOK
<1>7. \A d \in Clients : current[d] # NoRun => current[d] \in Runs
  BY DEF UniqueInv, TypeOK
<1>8. OnItsThread'
  BY <1>1, <1>3, <1>4, <1>6, <1>7 DEF OnItsThread, Active
<1>9. Awaited'
  BY <1>1, <1>3, <1>6, <1>7 DEF Awaited, Suspended, IsResume
<1>10. Alone'
  <2> SUFFICES ASSUME NEW s \in Runs, Active(s), run[s].client \notin unheard
               PROVE  /\ \A u \in Runs : Active(u) /\ u # s => run[u].thread # run[s].thread
                      /\ run[s].thread = mapped[run[s].client] /\ ~Hears(s)' =>
                            /\ pending[run[s].client] = NoCall
                            /\ current'[run[s].client] = NoRun
    BY <1>1, <1>3, <1>4 DEF Alone
  <2>1. run[s].client \in Clients
    BY ActiveThreads
  <2>2. run[s].client # c /\ ~Hears(s)' => ~Hears(s)
    BY <1>3, <1>6, <2>1 DEF Hears
  <2>3. QED
    BY <1>2, <1>6, <2>1, <2>2 DEF Alone
<1>11. AnswersReachTheirCalls'
  BY <1>1 DEF AnswersReachTheirCalls
<1>12. QED
  BY <1>5, <1>8, <1>9, <1>10, <1>11

LEMMA RestartReach ==
    ASSUME ReachInv, UniqueInv', Restart
    PROVE  ReachInv'
<1> USE DEF ReachInv
<1>1. /\ current' = [c \in Clients |-> NoRun]
      /\ mapped' = [c \in Clients |-> NoThread] /\ doomed' = {}
      /\ run' = [r \in Runs |-> IF r <= served THEN Over ELSE run[r]]
      /\ unheard' = unheard \cup {c \in Clients : pending[c] # NoCall}
      /\ UNCHANGED <<pending, missed>>
  BY DEF Restart
<1>2. \A r \in Runs : ~Active(r)'
  BY <1>1, IdleIsARequest, OverIsARequest, BoundsAreNumbers DEF UniqueInv, Numbered, TypeOK, Active
<1>3. Apart' /\ Agents' /\ Alone' /\ Addressed'
  BY <1>1, <1>2 DEF Apart, Agents, Alone, Addressed, Active
<1>4. OnItsThread' /\ Awaited'
  BY <1>1 DEF OnItsThread, Awaited
<1>5. AnswersReachTheirCalls'
  BY <1>1 DEF AnswersReachTheirCalls
<1>6. QED
  BY <1>3, <1>4, <1>5

LEMMA ReachStep ==
    ASSUME ReachInv, [Next]_vars
    PROVE  ReachInv'
<1>1. UniqueInv'
  BY UniqueStep DEF ReachInv
<1>2. ASSUME NEW c \in Clients, Send(c)
      PROVE  ReachInv'
  <2>1. /\ current[c] = NoRun /\ Arrive(c, NoCall, history'[c])
        /\ history' \in [Clients -> [Calls -> Nat]]
    BY <1>1, <1>2 DEF Send, UniqueInv, TypeOK
  <2>2. QED
    BY <1>1, <2>1, ArriveReach
<1>3. ASSUME NEW c \in Clients, Answer(c)
      PROVE  ReachInv'
  <2>1. /\ current[c] = NoRun /\ pending[c] \in Calls /\ Arrive(c, pending[c], history'[c])
        /\ history' \in [Clients -> [Calls -> Nat]]
    BY <1>1, <1>3 DEF Answer, ReachInv, UniqueInv, TypeOK
  <2>2. QED
    BY <1>1, <2>1, ArriveReach
<1>4. ASSUME NEW c \in Clients, Stop(c)
      PROVE  ReachInv'
  BY <1>1, <1>4, StopReach
<1>5. ASSUME NEW r \in Runs, Bound(r)
      PROVE  ReachInv'
  BY <1>1, <1>5, BoundReach
<1>6. ASSUME NEW r \in Runs, BindFails(r) \/ Finish(r)
      PROVE  ReachInv'
  <2>1. /\ Active(r) \/ run[r].phase = "binding"
        /\ Ends(r) /\ HangUp(r)
        /\ UNCHANGED <<pending, bound, mapped, doomed, thread, unheard, missed>>
    BY <1>6 DEF BindFails, Finish, remarks, Active
  <2>2. missed' \subseteq unheard
    BY <2>1 DEF ReachInv, AnswersReachTheirCalls
  <2>3. QED
    BY <1>1, <2>1, <2>2, EndReach
<1>7. ASSUME NEW r \in Runs, ResumeNothing(r)
      PROVE  ReachInv'
  <2>1. /\ run[r].phase = "started" /\ IsResume(run[r]) /\ thread[run[r].thread].asks = NoCall
        /\ Ends(r) /\ HangUp(r)
        /\ missed' = (IF Hears(r) THEN missed \cup {run[r].client} ELSE missed)
        /\ UNCHANGED <<pending, bound, mapped, doomed, thread, unheard>>
    BY <1>7 DEF ResumeNothing
  <2>2. Hears(r) => run[r].client \in unheard
    BY <2>1, HeardAnswers DEF IsResume
  <2>3. missed' \subseteq unheard
    BY <2>1, <2>2 DEF ReachInv, AnswersReachTheirCalls
  <2>4. Active(r)
    BY <2>1 DEF Active
  <2>5. QED
    BY <1>1, <2>1, <2>3, <2>4, EndReach
<1>8. ASSUME NEW r \in Runs, CallClientTool(r)
      PROVE  ReachInv'
  BY <1>1, <1>8, CallClientToolReach
<1>9. ASSUME NEW r \in Runs, Resume(r)
      PROVE  ReachInv'
  BY <1>1, <1>9, ResumeReach
<1>10. ASSUME NEW r \in Runs, Replay(r) \/ CallServerTool(r) \/ Fold(r)
       PROVE  ReachInv'
  BY <1>1, <1>10, RunsOnReach
<1>11. ASSUME NEW t \in Threads, Delete(t)
       PROVE  ReachInv'
  BY <1>1, <1>11, DeleteReach
<1>12. CASE Restart
  BY <1>1, <1>12, RestartReach
<1>13. CASE UNCHANGED vars
  BY <1>1, <1>13 DEF vars, browser, server, remarks, ReachInv, Apart, Agents, Alone,
                     OnItsThread, Awaited, Addressed, Suspended, Active, Hears,
                     AnswersReachTheirCalls
<1>14. QED
  BY <1>2, <1>3, <1>4, <1>5, <1>6, <1>7, <1>8, <1>9, <1>10, <1>11, <1>12, <1>13 DEF Next

LEMMA ReachInit ==
    ASSUME Init
    PROVE  ReachInv
<1>1. UniqueInv
  BY UniqueInit
<1>2. \A r \in Runs : ~Active(r)
  BY IdleIsARequest DEF Init, Active
<1>3. Apart /\ Agents /\ Alone /\ Addressed
  BY <1>2 DEF Init, Apart, Agents, Alone, Addressed, Active
<1>4. OnItsThread /\ Awaited /\ AnswersReachTheirCalls
  BY DEF Init, OnItsThread, Awaited, AnswersReachTheirCalls
<1>5. QED
  BY <1>1, <1>3, <1>4 DEF ReachInv

LEMMA ReachInvHolds == Spec => []ReachInv
<1>1. Init => ReachInv
  BY ReachInit
<1>2. ReachInv /\ [Next]_vars => ReachInv'
  BY ReachStep
<1>3. QED
  BY <1>1, <1>2, PTL DEF Spec

\* No run of one conversation is on a thread of another, not even one its client has left
\* and the server goes on with, and no thread is deleted under its conversation
\* (apiAgUiModule.ts: rotateCheckpointThread).
THEOREM ConversationsShareNoThread == Spec => []Apart
<1>1. ReachInv => Apart
  BY DEF ReachInv
<1>2. QED
  BY <1>1, ReachInvHolds, PTL

\* An answer reaches the call it is for, whatever other conversations do, and whatever was
\* stopped, deleted or started again meanwhile (apiAgUiModule.ts: rotateCheckpointThread
\* and the resume): unless a run of the conversation began after its client had left, or a
\* restart took the graph that waited for it.
THEOREM AnswersFindTheirCalls == Spec => []AnswersReachTheirCalls
<1>1. ReachInv => AnswersReachTheirCalls
  BY DEF ReachInv
<1>2. QED
  BY <1>1, ReachInvHolds, PTL
=============================================================================
