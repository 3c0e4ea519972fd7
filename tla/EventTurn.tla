------------------------------ MODULE EventTurn ------------------------------
(***************************************************************************)
(* The event driver of a turn, processMessagesWithEvents: the TUI and the  *)
(* ACP sessions.  One abort signal is threaded through the whole turn, the *)
(* rows of the calls shown are closed at its ordinary end, and a consumer  *)
(* may stop consuming at any event.  What it drains and retries is what    *)
(* the string driver does, without the empty-stream fallback.              *)
(***************************************************************************)
EXTENDS TurnSeams

EventInit == Init /\ mode = "events"

\* A new turn's tracker starts empty; what the last one left open stays so.
EventStart == StartTurn("stream") /\ open' = 0

-----------------------------------------------------------------------------
(* The user's signal, and the graph run under it. *)

EventPressEsc ==
    /\ phase # "idle" /\ ~aborted
    /\ aborted' = TRUE
    /\ UNCHANGED <<thread_, phase, turn_, ending_, idle_, tools, open>>

\* The rows follow the graph's messages: tracking counts what it yields.
ShowCall == open' = open + 1

EndCall == open' = open - 1

GraphMoves ==
    \/ (Chunk \/ \E category \in {"none", "output_truncated"} :
                    Answer(FALSE, category)) /\ UNCHANGED open
    \/ (CallTool \/ Suspend(FALSE)) /\ ShowCall
    \/ ToolReturns /\ EndCall

\* The graph gives in to the signal, or refuses one that is already aborted.
EventRunCancelled ==
    /\ phase = "running" /\ aborted
    /\ agentReason' = Noted(agentReason, "cancelled")
    /\ phase' = "draining"
    /\ UNCHANGED <<thread_, run, text, error, aborted, reason, tools, Steady,
                   open>>

EventRunFails ==
    /\ \E e \in Errors \ {None} : Fails(e, reason)
    /\ UNCHANGED open

\* Mutant: a run is begun without the turn's signal.
Unsignalled(how) == how

\* LangGraph refuses an aborted signal before it runs anything.
Signalled(how) == IF aborted THEN "refused" ELSE how

-----------------------------------------------------------------------------
(* resolveToolInterruptsWithEvents. *)

Suspended ==
    /\ phase = "draining" /\ ~exhausted
    /\ ~aborted
    /\ rounds < MaxDrainRounds
    /\ pending

EventOpenPrompt ==
    /\ Suspended
    /\ phase' = "prompting"
    /\ UNCHANGED <<thread_, turn_, aborted, ending_, idle_, tools, open>>

\* The decision is taken to the graph: a refused run leaves it suspended.
EventResume ==
    /\ phase = "prompting"
    /\ pending' = aborted
    /\ rounds' = rounds + 1
    /\ run' = Signalled("resume")
    /\ phase' = "running"
    /\ UNCHANGED <<thread, attempt, quota, text, exhausted, error, inFlight,
                   folded, aborted, ending_, idle_, tools, open>>

\* The stop is thrown through the driver: nothing closes the rows.
EventApprovalStop ==
    /\ phase = "prompting"
    /\ error' = [category |-> "approval_stop", shortWait |-> FALSE]
    /\ EndTurn("approval_stop")
    /\ UNCHANGED <<thread_, run, attempt, quota, rounds, text, exhausted,
                   folded, aborted, agentReason, idle_, tools, open>>

EventGuardExhausted ==
    /\ phase = "draining" /\ ~exhausted
    /\ ~aborted /\ rounds = MaxDrainRounds
    /\ exhausted' = TRUE
    /\ reason' = Noted(reason, "interrupt_drain_guard")
    /\ UNCHANGED <<thread_, phase, run, attempt, quota, rounds, text, error,
                   inFlight, folded, aborted, agentReason, idle_, tools, open>>

EventDrained ==
    /\ phase = "draining"
    /\ \/ exhausted
       \/ aborted
       \/ rounds < MaxDrainRounds /\ ~pending

-----------------------------------------------------------------------------
(* The ends of a turn. *)

\* Mutant: rows are closed for a stopped turn only.
CloseStopped == open' = IF aborted THEN 0 ELSE open

CloseRows == open' = 0

\* Mutant: an empty turn is reported before a stopped one.
EmptyFirst == IF ~text THEN "empty_response" ELSE
              IF aborted THEN "cancelled" ELSE "completed"

Ending == IF aborted THEN "cancelled" ELSE
          IF text THEN "completed" ELSE "empty_response"

EventFinish ==
    /\ EventDrained
    /\ CloseRows
    /\ EndTurn(Ending)
    /\ UNCHANGED <<thread_, run, attempt, quota, rounds, text, exhausted,
                   error, folded, aborted, agentReason, idle_, tools>>

\* The consumer breaks out of its loop (an ACP client that is gone): the
\* finally block runs, the rest of the turn does not.
Abandon ==
    /\ Live
    /\ EndTurn("abandoned")
    /\ UNCHANGED <<thread_, run, attempt, quota, rounds, text, exhausted,
                   error, folded, aborted, agentReason, idle_, tools, open>>

\* Retries keep the tracker, so text and rows are counted over the turn.
EventFoldDone ==
    /\ phase = "folding"
    /\ \E cut \in Cuts(snapshot) : WriteFold(cut)
    /\ RetryWith(Signalled("stream"), attempt + 1, quota)
    /\ snapshot' = <<>>
    /\ UNCHANGED <<text, inFlight, folded, aborted, upkeep, turns, tools, open>>

\* lastAttempt is carried into the next cooldown loop.
EventCooled ==
    /\ phase = "cooling"
    /\ RetryWith(Signalled("stream"), attempt, quota + 1)
    /\ UNCHANGED <<thread_, text, inFlight, folded, aborted, idle_, tools, open>>

-----------------------------------------------------------------------------
(* The specification. *)

EventRetrying ==
    \/ EventFoldDone
    \/ EventCooled
    \/ /\ BeginFold \/ FoldFails \/ OverflowsAgain \/ BeginCooldown \/ GiveUp
       /\ UNCHANGED open

EventProgress ==
    \/ GraphMoves
    \/ EventRunCancelled
    \/ EventRunFails
    \/ EventOpenPrompt \/ EventResume \/ EventApprovalStop \/ EventGuardExhausted
    \/ EventFinish
    \/ EventRetrying

EventNext ==
    /\ \/ EventStart
       \/ EventProgress
       \/ EventPressEsc
       \/ Abandon
       \/ Upkeep /\ UNCHANGED open
    /\ UNCHANGED mode

\* As for the string driver; nobody has to stop consuming either.
EventSpec == EventInit /\ [][EventNext]_allVars /\ WF_allVars(EventProgress /\ UNCHANGED mode)
=============================================================================
