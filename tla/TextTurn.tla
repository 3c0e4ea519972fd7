------------------------------- MODULE TextTurn -------------------------------
(***************************************************************************)
(* The string driver of a turn, GthAgentRunner.processMessages and         *)
(* runTurn: the readline session, exec, review and batch runs.  A turn     *)
(* streams (or invokes) the graph, drains the approvals it stopped for,    *)
(* and returns the text; a stream that comes back empty is invoked once    *)
(* more, unless the thread ends with the model's own message.  Esc is      *)
(* heard only while the graph runs, and stops that run, not the turn.      *)
(***************************************************************************)
EXTENDS TurnSeams

Streaming == mode = "stream"

TextInit == Init /\ mode # "events"

FirstRun == IF Streaming THEN "stream" ELSE "invoke"

TextStart == StartTurn(FirstRun)

-----------------------------------------------------------------------------
(* Esc. *)

\* waitForEscape is armed inside the run and torn down with it.
TextPressEsc ==
    /\ phase = "running" /\ ~aborted
    /\ aborted' = TRUE
    /\ UNCHANGED <<thread_, phase, turn_, ending_, idle_, tools>>

\* The abort reaches the graph: the stream closes as if it had ended, an
\* invoke returns a notice.
TextRunCancelled ==
    /\ phase = "running" /\ aborted
    /\ agentReason' = Noted(agentReason, "cancelled")
    /\ text' = (text \/ ~Streams)
    /\ phase' = "draining"
    /\ UNCHANGED <<thread_, run, error, aborted, reason, tools, Steady>>

\* A chunk that still arrives after Esc leaves the loop; nothing is noted.
ChunkAfterEsc ==
    /\ AtTheModel /\ Streams /\ aborted
    /\ text' \in {text, TRUE}
    /\ phase' = "draining"
    /\ UNCHANGED <<thread_, run, error, aborted, ending_, tools, Steady>>

-----------------------------------------------------------------------------
(* The drain of pending approvals, resolveToolInterrupts. *)

\* The fallback's interrupts are not drained.
Draining == phase = "draining" /\ run # "fallback"

TextOpenPrompt ==
    /\ Draining
    /\ rounds < MaxDrainRounds
    /\ pending
    /\ phase' = "prompting"
    /\ UNCHANGED <<thread_, turn_, aborted, ending_, idle_, tools>>

\* A decision is reached (ApprovalGate) and the graph resumed with it; what
\* follows listens for Esc anew.
TextResume ==
    /\ phase = "prompting"
    /\ pending' = FALSE
    /\ rounds' = rounds + 1
    /\ run' = "resume"
    /\ phase' = "running"
    /\ aborted' = FALSE
    /\ UNCHANGED <<thread, attempt, quota, text, exhausted, error, inFlight,
                   folded, ending_, idle_, tools>>

TextApprovalStop ==
    /\ phase = "prompting"
    /\ error' = [category |-> "approval_stop", shortWait |-> FALSE]
    /\ EndTurn("approval_stop")
    /\ UNCHANGED <<thread_, run, attempt, quota, rounds, text, exhausted,
                   folded, aborted, agentReason, idle_, tools>>

\* The loop ends after its last round without looking at the thread again.
TextGuardExhausted ==
    /\ Draining /\ ~exhausted
    /\ rounds = MaxDrainRounds
    /\ exhausted' = TRUE
    /\ reason' = Noted(reason, "interrupt_drain_guard")
    /\ UNCHANGED <<thread_, phase, run, attempt, quota, rounds, text, error,
                   inFlight, folded, aborted, agentReason, idle_, tools>>

\* Mutant: only a streamed turn is drained.
DrainedUnlessInvoked ==
    /\ phase = "draining"
    /\ \/ run \in {"fallback", "invoke"}
       \/ exhausted
       \/ rounds < MaxDrainRounds /\ ~pending

TextDrained ==
    /\ phase = "draining"
    /\ \/ run = "fallback"
       \/ exhausted
       \/ rounds < MaxDrainRounds /\ ~pending

-----------------------------------------------------------------------------
(* The end of an attempt. *)

\* Mutant: an empty stream is always invoked once more.
FallsBackBlindly ==
    /\ TextDrained /\ ~text
    /\ Streaming /\ run # "fallback" /\ ~exhausted

\* threadEndsWithModelTurn: such a thread is not sent again.
FallsBack ==
    /\ TextDrained /\ ~text
    /\ Streaming /\ run # "fallback" /\ ~exhausted
    /\ ~EndsWith({"ai", "call"})

TextFinish ==
    /\ TextDrained /\ ~FallsBack
    /\ EndTurn(IF text THEN "completed" ELSE
               IF exhausted THEN "interrupt_drain_guard" ELSE "empty_response")
    /\ UNCHANGED <<thread_, run, attempt, quota, rounds, text, exhausted,
                   error, folded, aborted, agentReason, idle_, tools>>

\* agent.invoke(messages): on a retry the messages are empty, and the one of
\* the first attempt replaces itself in the thread.
Fallback ==
    /\ FallsBack
    /\ run' = "fallback"
    /\ phase' = "running"
    /\ aborted' = FALSE
    /\ UNCHANGED <<thread_, attempt, quota, rounds, text, exhausted, error,
                   inFlight, folded, ending_, idle_, tools>>

\* A failing stream is classified where it is drained, before the seams;
\* after Esc every failure is taken for the abort.
TextRunFails ==
    /\ ~aborted
    /\ \E e \in Errors \ {None} :
          Fails(e, IF Streaming /\ run # "fallback"
                   THEN Noted(reason, e.category) ELSE reason)

\* Retries are nested calls of runTurn, each with a result of its own.
TextFoldDone ==
    /\ phase = "folding"
    /\ \E cut \in Cuts(snapshot) : WriteFold(cut)
    /\ RetryWith(FirstRun, attempt + 1, quota)
    /\ text' = FALSE
    /\ inFlight' = inFlight + 1
    /\ snapshot' = <<>>
    /\ UNCHANGED <<folded, aborted, upkeep, turns, tools>>

\* Mutant: the cooldown's retry is not counted.
CooledUncounted ==
    /\ phase = "cooling"
    /\ RetryWith(FirstRun, attempt, quota)
    /\ text' = FALSE
    /\ UNCHANGED <<thread_, inFlight, folded, aborted, idle_, tools>>

TextCooled ==
    /\ phase = "cooling"
    /\ RetryWith(FirstRun, attempt, quota + 1)
    /\ text' = FALSE
    /\ inFlight' = inFlight + 1
    /\ UNCHANGED <<thread_, folded, aborted, idle_, tools>>

-----------------------------------------------------------------------------
(* The specification. *)

TextRetrying ==
    \/ BeginFold \/ TextFoldDone \/ FoldFails \/ OverflowsAgain
    \/ BeginCooldown \/ TextCooled
    \/ GiveUp

\* What the turn does by itself, and the answers it waits for.
TextProgress ==
    \/ GraphStep
    \/ TextRunCancelled
    \/ ChunkAfterEsc
    \/ TextRunFails
    \/ TextOpenPrompt \/ TextResume \/ TextApprovalStop \/ TextGuardExhausted
    \/ Fallback \/ TextFinish
    \/ TextRetrying

TextNext ==
    /\ TextStart \/ TextProgress \/ TextPressEsc \/ Upkeep
    /\ UNCHANGED <<mode, open>>

\* The model answers or fails, timers fire, a person answers the prompt;
\* nobody has to press Esc or start a turn.
TextSpec ==
    TextInit /\ [][TextNext]_allVars /\ WF_allVars(TextProgress /\ UNCHANGED <<mode, open>>)

-----------------------------------------------------------------------------
(* What the string driver claims besides. *)

\* Esc stops the response: no run begins after it, unless the user starts
\* one.  The string driver claims this as the event driver does.
EscEndsTheText == [][HeedsEsc]_vars
=============================================================================
