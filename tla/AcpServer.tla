------------------------------ MODULE AcpServer ------------------------------
(* The sessions an editor opens in one agent process (ACP v2): how a prompt  *)
(* becomes a turn of the session's runner, how cancel and close reach that   *)
(* turn, and which workspace the process is bound to.                        *)
(*                                                                           *)
(* Nothing serialises the requests, so every handler runs between any two    *)
(* awaits of the others.  A prompt is answered when it is accepted; its turn *)
(* starts a tick later, reports itself by notifications, and is over when it *)
(* has sent the idle state.  Refused requests change nothing and are not     *)
(* actions.  Left out: what a turn says, the replay log, and the end of the  *)
(* process.                                                                  *)
EXTENDS Naturals

CONSTANTS
    Sessions,              \* session/new requests, and the sessions they make
    Prompts,               \* prompts, by the id of their user message
    Workspaces,            \* directories, up to isSameWorkspace
    NoPrompt, Unbound      \* null, undefined

ASSUME AcpAssumption == NoPrompt \notin Prompts /\ Unbound \notin Workspaces

VARIABLES
    stage,      \* where a session is between session/new and its close
    cwd,        \* its workspace
    root,       \* workspaceRoot
    cancelled,  \* session.cancelled
    busy,       \* session.abort, as the prompt whose controller it is
    turn,       \* session.turn, as the prompt it belongs to
    callback,   \* the prompt whose callbacks the session's runner holds
    phase,      \* where a prompt's turn is
    home,       \* the session it was sent to
    command,    \* it names an advertised command
    aborted,    \* its controller's signal
    outcome,    \* its stop reason, once decided
    expired     \* history: sessions whose close went on without the turn

session_ == <<stage, cwd, root, expired>>
turn_ == <<cancelled, busy, turn, callback, phase, home, command, aborted, outcome>>
vars == <<session_, turn_>>

Stages == {"none", "building", "open", "draining", "cleaning", "gone"}

\* "unstarted": stopped before its tick; "failing": telling of its failure;
\* "ending": it has let go of the session, and the idle state is to be sent.
Phases == {"none", "accepted", "unstarted", "answering", "greeting", "running",
           "asking", "failing", "ending", "ended"}

\* "end_turn" stands for whatever reason the runner reports.
StopReasons == {"none", "end_turn", "cancelled", "_error"}

TypeOK ==
    /\ stage \in [Sessions -> Stages]
    /\ cwd \in [Sessions -> Workspaces \cup {Unbound}]
    /\ root \in Workspaces \cup {Unbound}
    /\ cancelled \in [Sessions -> BOOLEAN]
    /\ busy \in [Sessions -> Prompts \cup {NoPrompt}]
    /\ turn \in [Sessions -> Prompts \cup {NoPrompt}]
    /\ callback \in [Sessions -> Prompts \cup {NoPrompt}]
    /\ phase \in [Prompts -> Phases]
    /\ home \in [Prompts -> Sessions]
    /\ command \in [Prompts -> BOOLEAN] /\ aborted \in [Prompts -> BOOLEAN]
    /\ outcome \in [Prompts -> StopReasons]
    /\ expired \subseteq Sessions
    /\ \A p \in Prompts :
        /\ p \in {busy[home[p]], callback[home[p]]} => turn[home[p]] = p
        /\ outcome[p] # "none" <=> phase[p] \in {"failing", "ending", "ended"}

Init ==
    /\ stage = [s \in Sessions |-> "none"] /\ cwd = [s \in Sessions |-> Unbound]
    /\ root = Unbound /\ expired = {}
    /\ cancelled = [s \in Sessions |-> FALSE]
    /\ busy = [s \in Sessions |-> NoPrompt] /\ turn = busy /\ callback = busy
    /\ phase = [p \in Prompts |-> "none"]
    /\ home \in [Prompts -> Sessions] /\ command \in [Prompts -> BOOLEAN]
    /\ aborted = [p \in Prompts |-> FALSE]
    /\ outcome = [p \in Prompts |-> "none"]
-----------------------------------------------------------------------------
(* The workspace binding. *)

\* Mutant: sessions still being built do not count.
ReleasesUnlessOpen(after) ==
    IF \E s \in Sessions : after[s] = "open" THEN root ELSE Unbound

\* releaseWorkspaceIfIdle, when the sessions are as in after.
Releases(after) ==
    IF \E s \in Sessions : after[s] \in {"building", "open"} THEN root ELSE Unbound

\* session/new up to its first await: check and claim.
NewSession(s, w) ==
    /\ stage[s] = "none"
    /\ root \in {Unbound, w}
    /\ root' = w
    /\ stage' = [stage EXCEPT ![s] = "building"]
    /\ cwd' = [cwd EXCEPT ![s] = w]
    /\ UNCHANGED <<expired, turn_>>

SessionReady(s) ==
    /\ stage[s] = "building"
    /\ stage' = [stage EXCEPT ![s] = "open"]
    /\ root' = Releases(stage')
    /\ UNCHANGED <<cwd, expired, turn_>>

\* Its config does not load, or the runner does not start.
SessionFails(s) ==
    /\ stage[s] = "building"
    /\ stage' = [stage EXCEPT ![s] = "none"]
    /\ cwd' = [cwd EXCEPT ![s] = Unbound]
    /\ root' = Releases(stage')
    /\ UNCHANGED <<expired, turn_>>
-----------------------------------------------------------------------------
(* Prompts and their turns. *)

Closed(s) == stage[s] \in {"draining", "cleaning", "gone"}

\* Mutant: the session is busy from the start of the turn only.
PromptUnmarked(p) ==
    LET s == home[p]
    IN  /\ phase[p] = "none" /\ stage[s] = "open" /\ busy[s] = NoPrompt
        /\ phase' = [phase EXCEPT ![p] = "accepted"]
        /\ turn' = [turn EXCEPT ![s] = p]
        /\ cancelled' = [cancelled EXCEPT ![s] = FALSE]
        /\ UNCHANGED <<session_, busy, callback, home, command, aborted, outcome>>

\* Mutant: the mark a cancel left on the session is kept.
PromptKeepsMark(p) ==
    LET s == home[p]
    IN  /\ phase[p] = "none" /\ stage[s] = "open" /\ busy[s] = NoPrompt
        /\ phase' = [phase EXCEPT ![p] = "accepted"]
        /\ busy' = [busy EXCEPT ![s] = p]
        /\ turn' = [turn EXCEPT ![s] = p]
        /\ UNCHANGED <<session_, cancelled, callback, home, command, aborted, outcome>>

\* Mutant: the turn is known to the session once it starts.
PromptUnowned(p) ==
    LET s == home[p]
    IN  /\ phase[p] = "none" /\ stage[s] = "open" /\ busy[s] = NoPrompt
        /\ phase' = [phase EXCEPT ![p] = "accepted"]
        /\ busy' = [busy EXCEPT ![s] = p]
        /\ cancelled' = [cancelled EXCEPT ![s] = FALSE]
        /\ UNCHANGED <<session_, turn, callback, home, command, aborted, outcome>>

\* session/prompt: accepted unless the session is closing or busy.  A turn
\* whose idle state is still to be sent does not make it busy.
Prompt(p) ==
    LET s == home[p]
    IN  /\ phase[p] = "none" /\ stage[s] = "open" /\ busy[s] = NoPrompt
        /\ phase' = [phase EXCEPT ![p] = "accepted"]
        /\ busy' = [busy EXCEPT ![s] = p]
        /\ turn' = [turn EXCEPT ![s] = p]
        /\ cancelled' = [cancelled EXCEPT ![s] = FALSE]
        /\ UNCHANGED <<session_, callback, home, command, aborted, outcome>>

Moves(p, to) ==
    /\ phase' = [phase EXCEPT ![p] = to]
    /\ UNCHANGED <<session_, cancelled, busy, turn, callback, home, command,
                   aborted, outcome>>

\* Mutant: a turn stopped before its start ends without a word.
BeginTurnSilently(p) ==
    /\ phase[p] = "accepted"
    /\ ~Closed(home[p]) /\ ~aborted[p]
    /\ Moves(p, IF command[p] THEN "answering" ELSE "greeting")

\* The tick after the prompt was answered.
BeginTurn(p) ==
    /\ phase[p] = "accepted"
    /\ Moves(p, IF Closed(home[p]) \/ aborted[p] THEN "unstarted" ELSE
                IF command[p] THEN "answering" ELSE "greeting")

\* The message is echoed and `running` sent: install the callbacks, run.
StartRun(p) ==
    /\ phase[p] = "greeting"
    /\ phase' = [phase EXCEPT ![p] = "running"]
    /\ callback' = [callback EXCEPT ![home[p]] = p]
    /\ UNCHANGED <<session_, cancelled, busy, turn, home, command, aborted, outcome>>

\* A gated call asks the client; $/cancel_request does not force an answer.
Ask(p) == phase[p] = "running" /\ Moves(p, "asking")
Answered(p) == phase[p] = "asking" /\ Moves(p, "running")

\* The finally block up to its first await, with the stop reason decided.
Leaves(p, reason) ==
    LET s == home[p]
    IN  /\ phase' = [phase EXCEPT ![p] = "ending"]
        /\ outcome' = [outcome EXCEPT ![p] = reason]
        /\ busy' = [busy EXCEPT ![s] = NoPrompt]
        /\ callback' = IF phase[p] = "unstarted" \/ command[p] THEN callback
                       ELSE [callback EXCEPT ![s] = NoPrompt]
        /\ UNCHANGED <<session_, cancelled, turn, home, command, aborted>>

Stopped(p) == cancelled[home[p]] \/ aborted[p]

\* The turn is over without an error.
TurnEnds(p) ==
    \/ phase[p] = "unstarted" /\ Leaves(p, "cancelled")
    \/ phase[p] = "answering" /\ Leaves(p, "end_turn")
    \/ phase[p] = "running" /\ Leaves(p, IF Stopped(p) THEN "cancelled" ELSE "end_turn")

\* The run, a command or a notification throws.
TurnFails(p) ==
    \/ phase[p] \in {"greeting", "running"} /\ Stopped(p) /\ Leaves(p, "cancelled")
    \/ /\ \/ phase[p] \in {"greeting", "running"} /\ ~Stopped(p)
          \/ phase[p] = "answering"
       /\ phase' = [phase EXCEPT ![p] = "failing"]
       /\ outcome' = [outcome EXCEPT ![p] = "_error"]
       /\ UNCHANGED <<session_, cancelled, busy, turn, callback, home, command, aborted>>

FailureTold(p) == phase[p] = "failing" /\ Leaves(p, "_error")

SendIdle(p) == phase[p] = "ending" /\ Moves(p, "ended")
-----------------------------------------------------------------------------
(* Cancel and close. *)

Aborts(s) ==
    /\ cancelled' = [cancelled EXCEPT ![s] = TRUE]
    /\ aborted' = [p \in Prompts |-> aborted[p] \/ p = busy[s]]
    /\ UNCHANGED <<busy, turn, callback, phase, home, command, outcome>>

Cancel(s) ==
    /\ stage[s] = "open"
    /\ Aborts(s)
    /\ UNCHANGED session_

\* closeSession up to its first await.
Close(s) ==
    /\ stage[s] = "open"
    /\ stage' = [stage EXCEPT ![s] = "draining"]
    /\ Aborts(s)
    /\ UNCHANGED <<cwd, root, expired>>

TurnIsOver(s) == turn[s] \notin {p \in Prompts : phase[p] # "ended"}

\* Mutant: the close waits for as long as the turn takes.
DrainsFully(s) ==
    /\ stage[s] = "draining"
    /\ TurnIsOver(s)
    /\ stage' = [stage EXCEPT ![s] = "cleaning"]
    /\ UNCHANGED <<cwd, root, expired, turn_>>

\* drainWithDeadline: the turn is over, or CLOSE_TURN_DRAIN_MS have passed.
Drains(s) ==
    /\ stage[s] = "draining"
    /\ stage' = [stage EXCEPT ![s] = "cleaning"]
    /\ expired' = IF TurnIsOver(s) THEN expired ELSE expired \cup {s}
    /\ UNCHANGED <<cwd, root, turn_>>

\* The runner is cleaned up, or fails to be; the close is answered.
CloseEnds(s) ==
    /\ stage[s] = "cleaning"
    /\ stage' = [stage EXCEPT ![s] = "gone"]
    /\ root' = Releases(stage')
    /\ UNCHANGED <<cwd, expired, turn_>>

TurnStep(p) ==
    \/ BeginTurn(p) \/ StartRun(p) \/ TurnEnds(p) \/ TurnFails(p)
    \/ FailureTold(p) \/ SendIdle(p)

Next ==
    \/ \E s \in Sessions :
        \/ \E w \in Workspaces : NewSession(s, w)
        \/ SessionReady(s) \/ SessionFails(s)
        \/ Cancel(s) \/ Close(s) \/ Drains(s) \/ CloseEnds(s)
    \/ \E p \in Prompts : Prompt(p) \/ Ask(p) \/ Answered(p) \/ TurnStep(p)

\* The process goes on with what it has begun; the client need not answer.
Fairness ==
    /\ \A s \in Sessions : WF_vars(Drains(s)) /\ WF_vars(CloseEnds(s))
    /\ \A p \in Prompts : WF_vars(TurnStep(p))

Spec == Init /\ [][Next]_vars /\ Fairness
-----------------------------------------------------------------------------
\* A session's runner runs one turn at a time, and that turn is the one a
\* cancel aborts and the one its permission requests belong to, however late
\* the turns before it come to their end.
OneTurnAtATime ==
    \A p \in Prompts : phase[p] \in {"running", "asking"} =>
        busy[home[p]] = p /\ callback[home[p]] = p

\* What a turn reports is its own: `cancelled` when it was cancelled or its
\* session closed before it ended, and not because an earlier turn was, or a
\* cancel came between two turns.  (Commands do not look.)
TurnsSayWhetherTheyWereStopped ==
    [][\A p \in Prompts : outcome[p] = "none" /\ outcome'[p] # "none" /\ ~command[p]
          => (outcome'[p] = "cancelled" <=> aborted[p])]_vars

\* Every session that is open or being built has the workspace the process is
\* bound to, and the process is bound only while a session is left: neither a
\* failing session/new nor a close frees it early, or keeps it.
WorkspaceIsBoundWhileNeeded ==
    /\ \A s \in Sessions : stage[s] \in {"building", "open"} => root = cwd[s]
    /\ (\A s \in Sessions : stage[s] \in {"none", "gone"}) => root = Unbound

\* A close is answered after every turn of its session has let go of the
\* runner, and after the idle state of the last one, unless it ran out of time;
\* and no turn starts under it.
CloseFollowsTheTurns ==
    \A s \in Sessions \ expired : stage[s] \in {"cleaning", "gone"} =>
        /\ TurnIsOver(s)
        /\ \A p \in Prompts : home[p] = s => phase[p] \in {"none", "ending", "ended"}

\* Every close is answered, even when the client never answers the permission
\* request the turn waits on.
ClosesAreAnswered ==
    \A s \in Sessions : stage[s] = "draining" ~> stage[s] = "gone"

\* An accepted prompt leads to an idle state, cancelled before it started or
\* not; only the client can hold it up.
PromptsEnd ==
    \A p \in Prompts : phase[p] = "accepted" ~> phase[p] \in {"ended", "asking"}

\* While a close still waits for its turn, no session of another workspace
\* begins: the process is not re-rooted under a tool call.
NoRerootingUnderATurn ==
    \A s, u \in Sessions :
        /\ stage[s] = "draining" /\ ~TurnIsOver(s)
        /\ stage[u] \in {"building", "open"}
        => cwd[u] = cwd[s]
=============================================================================
