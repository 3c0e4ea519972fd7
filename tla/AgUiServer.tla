----------------------------- MODULE AgUiServer -----------------------------
(***************************************************************************)
(* The runs of the AG-UI server (agent/src/modules/apiAgUiModule.ts): a     *)
(* browser keeps the conversation and sends all of it with every request;  *)
(* the server keeps a checkpoint thread per conversation only so that a    *)
(* graph suspended on a tool of the browser's can be resumed with the      *)
(* answer.  A run is one request: it waits for the agent of the request's  *)
(* tools, picks its thread, and streams the graph's events back.           *)
(*                                                                         *)
(* The clients declare tools of one kind and wait for a run to end, or     *)
(* stop it, before they send the next.  What is followed of a message list *)
(* is how many results it holds for each tool call.  The graph is          *)
(* external: it calls tools, suspends, answers, overflows or fails.        *)
(***************************************************************************)
EXTENDS Naturals, FiniteSets

CONSTANTS Clients,      \* conversations, by the client's thread id
          MaxRuns,      \* requests served
          MaxCalls,     \* tool calls made by the model
          MaxRestarts   \* restarts of the server

ASSUME BoundsAssumption ==
    MaxRuns \in Nat /\ MaxCalls \in Nat /\ MaxRestarts \in Nat

\* A client's id is none of the ids the server mints (randomUUID).
ASSUME ClientsAssumption == Clients # {} /\ Clients \cap Nat = {}

Runs == 1 .. MaxRuns
Calls == 1 .. MaxCalls
NoRun == 0
NoCall == 0
NoThread == 0

\* A fresh thread bears the number of the run it was minted for; a client's own
\* id names a thread when the server has no other for it.
Threads == Runs \cup Clients

VARIABLES
    history,   \* per client, the results its conversation holds of each call
    pending,   \* the call it is to carry out (NoCall: none)
    current,   \* the run it is listening to (NoRun: none)
    bound,     \* toolAgentCache has the agent of the clients' tools
    mapped,    \* checkpointThreads
    doomed,    \* retired threads whose deletion is under way
    thread,    \* the saver's threads: the results in state, the call suspended on
    run,       \* the requests
    served,    \* requests so far
    made,      \* calls so far
    restarts,
    unheard,   \* history: conversations a run was started for after its client had
               \* left, or whose suspended graph a restart took
    missed     \* history: conversations with an answer that did not reach its call

browser == <<history, pending, current>>
server == <<bound, mapped, doomed, run, served>>
remarks == <<unheard, missed>>
vars == <<browser, server, thread, made, restarts, remarks>>

-----------------------------------------------------------------------------
None == [k \in Calls |-> 0]
Blank == [results |-> None, asks |-> NoCall]
Idle == [phase |-> "new", client |-> CHOOSE c \in Clients : TRUE, answer |-> NoCall,
         sent |-> None, thread |-> NoThread, attempt |-> 0, aborted |-> FALSE]

TypeOK ==
    /\ history \in [Clients -> [Calls -> Nat]]
    /\ pending \in [Clients -> Calls \cup {NoCall}]
    /\ current \in [Clients -> Runs \cup {NoRun}]
    /\ bound \in BOOLEAN /\ mapped \in [Clients -> Threads \cup {NoThread}]
    /\ doomed \subseteq Threads
    /\ thread \in [Threads -> [results : [Calls -> Nat], asks : Calls \cup {NoCall}]]
    /\ run \in [Runs -> [phase : {"new", "binding", "started", "running", "ended"},
                         client : Clients, answer : Calls \cup {NoCall},
                         sent : [Calls -> Nat], thread : Threads \cup {NoThread},
                         attempt : 0 .. 1, aborted : BOOLEAN]]
    /\ served \in 0 .. MaxRuns /\ made \in 0 .. MaxCalls /\ restarts \in 0 .. MaxRestarts
    /\ unheard \subseteq Clients /\ missed \subseteq Clients

Init ==
    /\ history = [c \in Clients |-> None] /\ pending = [c \in Clients |-> NoCall]
    /\ current = [c \in Clients |-> NoRun]
    /\ bound = FALSE /\ mapped = [c \in Clients |-> NoThread] /\ doomed = {}
    /\ thread = [t \in Threads |-> Blank] /\ run = [r \in Runs |-> Idle]
    /\ served = 0 /\ made = 0 /\ restarts = 0 /\ unheard = {} /\ missed = {}

Hears(r) == current[run[r].client] = r

-----------------------------------------------------------------------------
(***************************************************************************)
(* The handler up to its first event.                                      *)
(***************************************************************************)
IsResume(q) == q.answer # NoCall

\* A resume goes to the thread of the suspended graph, or to the client's own id when
\* the server knows of none; any other request gets a fresh thread.
CheckpointThread(r, q) ==
    IF IsResume(q)
    THEN IF mapped[q.client] # NoThread THEN mapped[q.client] ELSE q.client
    ELSE r

\* Mutant: every request moves the conversation on.
RetireAlways(r, q) ==
    /\ mapped' = [mapped EXCEPT ![q.client] = r]
    /\ doomed' = doomed \cup ({mapped[q.client]} \ {NoThread})

\* rotateCheckpointThread: the conversation moves on, its last thread is deleted later.
Retire(r, q) ==
    IF IsResume(q) THEN UNCHANGED <<mapped, doomed>>
    ELSE /\ mapped' = [mapped EXCEPT ![q.client] = r]
         /\ doomed' = doomed \cup ({mapped[q.client]} \ {NoThread})

\* From the agent at hand to the stream opened: nothing is awaited in between, and the
\* client that leaves from here on is noticed.
Begin(r, q) ==
    /\ run' = [run EXCEPT ![r] = [q EXCEPT !.phase = "started",
                                           !.thread = CheckpointThread(r, q)]]
    /\ Retire(r, q)

\* A request comes in.  It waits only while the agent of its tools is being built.
Arrive(c, answer, sent) ==
    LET r == served + 1
        q == [Idle EXCEPT !.phase = "binding", !.client = c, !.answer = answer,
                          !.sent = sent]
    IN  /\ served < MaxRuns /\ served' = r
        /\ current' = [current EXCEPT ![c] = r] /\ pending' = [pending EXCEPT ![c] = NoCall]
        /\ IF bound THEN Begin(r, q)
           ELSE run' = [run EXCEPT ![r] = q] /\ UNCHANGED <<mapped, doomed>>
        /\ UNCHANGED <<bound, thread, made, restarts, remarks>>

\* The user writes a message.
Send(c) ==
    /\ current[c] = NoRun
    /\ Arrive(c, NoCall, history[c])
    /\ UNCHANGED history

\* The client has carried out the call the graph is suspended on.  It puts the result in
\* its conversation and sends that (CopilotKit), or sends the bare value as
\* `command.resume` and learns the result with the others.
Answer(c) ==
    /\ current[c] = NoRun /\ pending[c] # NoCall
    /\ \/ history' = [history EXCEPT ![c][pending[c]] = @ + 1]
       \/ UNCHANGED history
    /\ Arrive(c, pending[c], history'[c])

\* getAgentForTools returns, with an agent of its own if two requests waited at once.
\* A connection that closed meanwhile has had its 'close', and is not heard of again.
Bound(r) ==
    /\ run[r].phase = "binding"
    /\ bound' = TRUE
    /\ Begin(r, run[r])
    /\ unheard' = IF Hears(r) THEN unheard ELSE unheard \cup {run[r].client}
    /\ UNCHANGED <<browser, thread, served, made, restarts, missed>>

Over == [Idle EXCEPT !.phase = "ended"]
Ends(r) == run' = [run EXCEPT ![r] = Over]
HangUp(r) == current' = [c \in Clients |-> IF current[c] = r THEN NoRun ELSE current[c]]

\* The agent of the tools cannot be built: the request fails before its run begins.
BindFails(r) ==
    /\ run[r].phase = "binding"
    /\ Ends(r) /\ HangUp(r)
    /\ UNCHANGED <<history, pending, bound, mapped, doomed, thread, served, made,
                   restarts, remarks>>

-----------------------------------------------------------------------------
(***************************************************************************)
(* The stream.  A result is sent to the client unless it came from there.  *)
(***************************************************************************)
\* Mutant: every result is sent.
EchoAll(r, k) ==
    LET c == run[r].client
    IN  history' = IF Hears(r) THEN [history EXCEPT ![c][k] = @ + 1] ELSE history

Echo(r, k) ==
    LET c == run[r].client
    IN  history' = IF Hears(r) /\ run[r].sent[k] = 0
                   THEN [history EXCEPT ![c][k] = @ + 1] ELSE history

\* startTurn of a fresh run: the conversation as the client holds it becomes the thread's.
Replay(r) ==
    LET q == run[r] IN
    /\ q.phase = "started" /\ ~IsResume(q)
    /\ thread' = [thread EXCEPT ![q.thread].results =
                      [k \in Calls |-> @[k] + q.sent[k]]]
    /\ run' = [run EXCEPT ![r].phase = "running"]
    /\ UNCHANGED <<browser, bound, mapped, doomed, served, made, restarts, remarks>>

\* startTurn of a resume: whatever call the thread is suspended on takes the answer.
Resume(r) ==
    LET q == run[r]
        k == thread[q.thread].asks
    IN  /\ q.phase = "started" /\ IsResume(q) /\ k # NoCall
        /\ thread' = [thread EXCEPT ![q.thread].results[k] = @ + 1,
                                     ![q.thread].asks = NoCall]
        /\ run' = [run EXCEPT ![r].phase = "running"]
        /\ Echo(r, k)
        /\ missed' = IF k = q.answer THEN missed ELSE missed \cup {q.client}
        /\ UNCHANGED <<pending, current, bound, mapped, doomed, served, made, restarts,
                       unheard>>

\* A resume of a thread that is not suspended has nothing to run.  That is a loss to a
\* client who waits for it, not to one who stopped it before it started.
ResumeNothing(r) ==
    LET q == run[r] IN
    /\ q.phase = "started" /\ IsResume(q) /\ thread[q.thread].asks = NoCall
    /\ Ends(r) /\ HangUp(r)
    /\ missed' = IF Hears(r) THEN missed \cup {q.client} ELSE missed
    /\ UNCHANGED <<history, pending, bound, mapped, doomed, thread, served, made,
                   restarts, unheard>>

\* The model calls a tool of the server's.
CallServerTool(r) ==
    /\ run[r].phase = "running" /\ made < MaxCalls
    /\ made' = made + 1
    /\ thread' = [thread EXCEPT ![run[r].thread].results[made + 1] = @ + 1]
    /\ Echo(r, made + 1)
    /\ UNCHANGED <<pending, current, server, restarts, remarks>>

\* The model calls a tool of the client's: the graph suspends and the run finishes.
CallClientTool(r) ==
    LET c == run[r].client IN
    /\ run[r].phase = "running" /\ made < MaxCalls
    /\ made' = made + 1
    /\ thread' = [thread EXCEPT ![run[r].thread].asks = made + 1]
    /\ pending' = IF Hears(r) THEN [pending EXCEPT ![c] = made + 1] ELSE pending
    /\ Ends(r) /\ HangUp(r)
    /\ UNCHANGED <<history, bound, mapped, doomed, served, restarts, remarks>>

\* The provider rejects the turn for its size: older messages give way to a summary, with
\* the results among them, and the thread goes on from its state with no new input.
Fold(r) ==
    /\ run[r].phase = "running" /\ run[r].attempt = 0
    /\ \E kept \in SUBSET Calls :
        thread' = [thread EXCEPT ![run[r].thread].results =
                       [k \in Calls |-> IF k \in kept THEN @[k] ELSE 0]]
    /\ run' = [run EXCEPT ![r].attempt = 1]
    /\ UNCHANGED <<browser, bound, mapped, doomed, served, made, restarts, remarks>>

\* The model answers, the call fails (RUN_ERROR), or the abort takes effect: in each case
\* the response ends and the thread stays as it is.
Finish(r) ==
    /\ \/ run[r].phase = "running"
       \/ run[r].phase = "started" /\ (run[r].aborted \/ ~IsResume(run[r]))
    /\ Ends(r) /\ HangUp(r)
    /\ UNCHANGED <<history, pending, bound, mapped, doomed, thread, served, made,
                   restarts, remarks>>

\* deleteThread of a retired thread, in its own time.
Delete(t) ==
    /\ t \in doomed
    /\ doomed' = doomed \ {t} /\ thread' = [thread EXCEPT ![t] = Blank]
    /\ UNCHANGED <<browser, bound, mapped, run, served, made, restarts, remarks>>

-----------------------------------------------------------------------------
\* The user stops the run, or the page goes away: the connection closes.  A run that has
\* begun is aborted, and ends when the graph takes notice.
Stop(c) ==
    LET r == current[c] IN
    /\ r # NoRun
    /\ current' = [current EXCEPT ![c] = NoRun]
    /\ run' = IF run[r].phase = "binding" THEN run
              ELSE [run EXCEPT ![r].aborted = TRUE]
    /\ UNCHANGED <<history, pending, bound, mapped, doomed, thread, served, made,
                   restarts, remarks>>

\* The server starts again: agents, mapping and saver were in memory.
Restart ==
    /\ restarts < MaxRestarts /\ restarts' = restarts + 1
    /\ current' = [c \in Clients |-> NoRun]
    /\ bound' = FALSE /\ mapped' = [c \in Clients |-> NoThread] /\ doomed' = {}
    /\ thread' = [t \in Threads |-> Blank]
    /\ run' = [r \in Runs |-> IF r <= served THEN Over ELSE run[r]]
    /\ unheard' = unheard \cup {c \in Clients : pending[c] # NoCall}
    /\ UNCHANGED <<history, pending, served, made, missed>>

Next ==
    \/ \E c \in Clients : Send(c) \/ Answer(c) \/ Stop(c)
    \/ \E r \in Runs :
        \/ Bound(r) \/ BindFails(r) \/ Replay(r) \/ Resume(r) \/ ResumeNothing(r)
        \/ CallServerTool(r) \/ CallClientTool(r) \/ Fold(r) \/ Finish(r)
    \/ \E t \in Threads : Delete(t)
    \/ Restart

Spec == Init /\ [][Next]_vars

-----------------------------------------------------------------------------
\* No call has two results, neither in a conversation, whose client splices in every
\* result it is sent, nor in a thread, to which every replay is appended: a provider
\* rejects such a list, and with it every later turn of the conversation.
ResultsAreUnique ==
    \A k \in Calls :
        /\ \A c \in Clients : history[c][k] <= 1
        /\ \A t \in Threads : thread[t].results[k] <= 1

\* An answer reaches the call it is for, whatever was stopped, deleted or started again in
\* between, as long as the server has not restarted under the suspended graph and no run
\* began after its client had left (which only the wait for an agent allows).
AnswersReachTheirCalls == missed \subseteq unheard
=============================================================================
