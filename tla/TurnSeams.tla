------------------------------ MODULE TurnSeams ------------------------------
(***************************************************************************)
(* What the two drivers of a turn (TextTurn, EventTurn) share: the thread  *)
(* the model works on, the reason a turn ends for, the two remedies a      *)
(* failed turn may be retried with (fold the conversation after a context  *)
(* overflow, wait out a short quota limit), and the two operations the     *)
(* front end runs between turns, /compact and /resume.                     *)
(*                                                                         *)
(* A run is one call into the LangGraph graph.  It is external: it adds    *)
(* messages to the thread, calls tools that need no approval, and ends by  *)
(* answering, by suspending on a call that needs one, by failing, or by    *)
(* giving in to an abort.                                                  *)
(***************************************************************************)
EXTENDS Naturals, Sequences

CONSTANTS
    MaxQuotaCooldowns,   \* MAX_QUOTA_COOLDOWNS_PER_TURN
    MaxDrainRounds,      \* MAX_INTERRUPT_DRAIN_ROUNDS
    MaxTurns,            \* bound of the model: turns of a session
    MaxTools             \* bound of the model: tool calls of a turn

ASSUME TurnBoundsAssumption ==
    /\ MaxQuotaCooldowns \in Nat
    /\ MaxDrainRounds \in Nat \ {0}
    /\ {MaxTurns, MaxTools} \subseteq Nat

VARIABLES
    thread,       \* the checkpointed messages, by kind
    pending,      \* the thread is suspended on a call that waits for approval
    phase,        \* where the turn is; "idle" between turns
    run,          \* what the running graph call was given
    attempt,      \* overflow folds so far in this turn
    quota,        \* quota cooldowns so far in this turn
    rounds,       \* approval rounds drained so far in this attempt
    text,         \* answer text has been seen
    exhausted,    \* the drain ran out of rounds
    aborted,      \* the user stopped this turn (Esc)
    error,        \* the failure in hand
    reason,       \* runner.terminationReason
    agentReason,  \* the agent's own, which getTerminationReason() prefers
    inFlight,     \* runner.turnsInFlight
    upkeep,       \* what the front end runs between turns
    snapshot,     \* the messages a compaction is summarising
    turns, tools, \* counted for the bounds
    folded,       \* history: this turn has folded the conversation
    mode,         \* the driver, and config.streamOutput for the string driver
    open          \* calls shown to the consumer of events and not yet ended

thread_ == <<thread, pending>>
turn_   == <<run, attempt, quota, rounds, text, exhausted, error, inFlight,
             folded>>
ending_ == <<reason, agentReason>>
idle_   == <<upkeep, snapshot, turns>>

vars == <<thread_, phase, turn_, aborted, ending_, idle_, tools>>

allVars == <<vars, mode, open>>

\* TextTurn streams or invokes, EventTurn's turns are sequences of events.
Modes == {"invoke", "stream", "events"}

\* "call" is a model message with a tool call, "summary" a folded history.
Kinds == {"human", "summary", "ai", "call", "tool"}

Phases == {"idle", "running", "draining", "prompting", "failed", "folding",
           "cooling"}

Failures == {"context_overflow", "rate_limited", "stream_cut",
             "provider_error", "approval_stop"}

Categories == Failures \cup {"completed", "cancelled", "empty_response",
                             "output_truncated", "interrupt_drain_guard",
                             "abandoned"}

None == [category |-> "none"]

\* A recorded reason, with the attempt of the turn it was recorded in.
Reasons == [category : Categories, of : Nat \X Nat] \cup {None}

\* shortWait: a per-minute limit whose hint is within the cooldown bound.
Errors == [category : Failures, shortWait : BOOLEAN] \cup {None}

TypeOK ==
    /\ thread \in Seq(Kinds)
    /\ pending \in BOOLEAN /\ text \in BOOLEAN /\ exhausted \in BOOLEAN
    /\ aborted \in BOOLEAN /\ folded \in BOOLEAN
    /\ phase \in Phases
    /\ run \in {"none", "stream", "invoke", "resume", "fallback", "refused"}
    /\ attempt \in 0..1
    /\ quota \in 0..MaxQuotaCooldowns
    /\ rounds \in 0..MaxDrainRounds
    /\ inFlight \in 0..2 + MaxQuotaCooldowns
    /\ turns \in 0..MaxTurns
    /\ tools \in 0..MaxTools
    /\ error \in Errors
    /\ reason \in Reasons /\ agentReason \in Reasons
    /\ upkeep \in {"none", "compact", "resume", "summarising"}
    /\ snapshot \in Seq(Kinds)
    /\ mode \in Modes /\ open \in Nat

Init ==
    /\ thread = <<>>
    /\ pending = FALSE
    /\ phase = "idle"
    /\ run = "none"
    /\ attempt = 0 /\ quota = 0 /\ rounds = 0 /\ inFlight = 0
    /\ turns = 0 /\ tools = 0 /\ folded = FALSE
    /\ text = FALSE /\ exhausted = FALSE /\ aborted = FALSE
    /\ error = None /\ reason = None /\ agentReason = None
    /\ upkeep = "none"
    /\ snapshot = <<>>
    /\ mode \in Modes /\ open = 0

-----------------------------------------------------------------------------
(* Reasons: the first site that speaks is kept, on the runner and on the   *)
(* agent alike; the agent's is the one reported.                           *)

Reason(category) == [category |-> category, of |-> <<attempt, quota>>]

Noted(known, category) == IF known = None THEN Reason(category) ELSE known

Reported == IF agentReason # None THEN agentReason ELSE reason

\* Mutant: the failed attempt's reasons survive into the retry.
ReasonsSurvive == UNCHANGED ending_

\* resetTerminationReason clears both.
ResetReasons == reason' = None /\ agentReason' = None

\* The turn is over; the finally blocks take turnsInFlight back.
EndTurn(category) ==
    /\ reason' = Noted(reason, category)
    /\ phase' = "idle"
    /\ inFlight' = 0

EndsWith(kinds) == thread # <<>> /\ thread[Len(thread)] \in kinds

-----------------------------------------------------------------------------
(* The start of a turn. *)

\* Mutant: the prompt is not held while a compaction or a resume runs.
StartsUnheld == phase = "idle"

\* handleSubmit holds the prompt while anything else works on the thread.
PromptIsFree == phase = "idle" /\ upkeep = "none"

\* processMessages, processMessagesWithEvents.  A thread still suspended
\* takes the new message and drops the suspended call.
StartTurn(how) ==
    /\ PromptIsFree
    /\ turns < MaxTurns
    /\ thread' = Append(thread, "human")
    /\ pending' = FALSE
    /\ phase' = "running"
    /\ run' = how
    /\ attempt' = 0 /\ quota' = 0 /\ rounds' = 0 /\ folded' = FALSE
    /\ text' = FALSE /\ exhausted' = FALSE /\ aborted' = FALSE
    /\ error' = None
    /\ ResetReasons
    /\ inFlight' = inFlight + 1
    /\ turns' = turns + 1
    /\ tools' = 0
    /\ UNCHANGED <<upkeep, snapshot>>

-----------------------------------------------------------------------------
(* What the graph may do while it runs. *)

Steady == <<attempt, quota, rounds, exhausted, inFlight, folded, idle_>>

Live == phase = "running" /\ run # "refused"

AtTheModel == Live /\ ~EndsWith({"call"})

\* Only a streamed run shows text before its message is complete.
Streams == run \in {"stream", "resume"}

Chunk ==
    /\ AtTheModel /\ Streams
    /\ text' = TRUE
    /\ UNCHANGED <<thread_, phase, run, error, aborted, ending_, tools, Steady>>

\* A call that needs no approval runs inside the graph, which then asks the
\* model again.
CallTool ==
    /\ AtTheModel
    /\ tools < MaxTools
    /\ thread' = Append(thread, "call")
    /\ tools' = tools + 1
    /\ UNCHANGED <<pending, phase, run, text, error, aborted, ending_, Steady>>

ToolReturns ==
    /\ Live /\ EndsWith({"call"})
    /\ thread' = Append(thread, "tool")
    /\ UNCHANGED <<pending, phase, run, text, error, aborted, ending_, tools,
                   Steady>>

\* The final message: a run that does not stream returns its text only, and
\* its stop metadata may say that it was cut off.
Answer(withText, category) ==
    /\ AtTheModel
    /\ thread' = Append(thread, "ai")
    /\ text' = IF Streams THEN text ELSE withText
    /\ agentReason' = IF category = "none" THEN agentReason
                      ELSE Noted(agentReason, category)
    /\ phase' = "draining"
    /\ UNCHANGED <<pending, run, error, aborted, reason, tools, Steady>>

\* The model calls a tool that needs an approval: the graph interrupts.
Suspend(withText) ==
    /\ AtTheModel
    /\ tools < MaxTools
    /\ thread' = Append(thread, "call")
    /\ pending' = TRUE
    /\ text' = IF Streams THEN text ELSE withText
    /\ tools' = tools + 1
    /\ phase' = "draining"
    /\ UNCHANGED <<run, error, aborted, ending_, Steady>>

\* The model call fails.  GthCutStreamRetry speaks for itself before it
\* throws; "noted" is what the driver records before it asks the seams.
Fails(e, noted) ==
    /\ AtTheModel
    /\ e.category # "approval_stop"
    /\ error' = e
    /\ reason' = noted
    /\ agentReason' = IF e.category = "stream_cut"
                      THEN Noted(agentReason, "stream_cut") ELSE agentReason
    /\ phase' = "failed"
    /\ UNCHANGED <<thread_, run, text, aborted, tools, Steady>>

-----------------------------------------------------------------------------
(* Compaction: the messages before the cut become one summary.  The cut    *)
(* never separates a call from its result, and a lone summary is not       *)
(* folded again (Compaction).                                              *)

\* Mutant: the tail starts at the wished-for length, wherever that is.
AnyCuts(messages) == 1..Len(messages) - 1

Cuts(messages) ==
    {cut \in 1..Len(messages) - 1 :
        /\ messages[cut + 1] # "tool"
        /\ ~(cut = 1 /\ messages[1] = "summary")}

Folded(messages, cut) ==
    <<"summary">> \o SubSeq(messages, cut + 1, Len(messages))

\* REMOVE_ALL_MESSAGES and the new list: what the thread held is gone.
WriteFold(cut) ==
    /\ thread' = Folded(snapshot, cut)
    /\ UNCHANGED pending

-----------------------------------------------------------------------------
(* The seams a failed turn passes: handleContextOverflow, then             *)
(* handleQuotaCooldown, then the end of the turn.                          *)

Overflowed == error.category = "context_overflow"

WorthFolding == Overflowed /\ attempt = 0

WorthWaiting ==
    /\ error.category = "rate_limited" /\ error.shortWait
    /\ quota < MaxQuotaCooldowns

\* Both remedies clear the reasons and run the turn again with no message:
\* the user's is in the thread already.  (What each driver carries over of
\* text and turnsInFlight it says itself.)
RetryWith(how, folds, waits) ==
    /\ ResetReasons
    /\ phase' = "running"
    /\ run' = how
    /\ attempt' = folds
    /\ quota' = waits
    /\ rounds' = 0
    /\ exhausted' = FALSE
    /\ error' = None

BeginFold ==
    /\ phase = "failed" /\ WorthFolding
    /\ snapshot' = thread
    /\ phase' = "folding"
    /\ folded' = TRUE
    /\ UNCHANGED <<thread_, run, attempt, quota, rounds, text, exhausted,
                   error, inFlight, aborted, ending_, upkeep, turns, tools>>

\* overrideTerminationReason: this one site replaces what was recorded.
Overridden ==
    /\ reason' = Reason("context_overflow")
    /\ phase' = "idle"
    /\ inFlight' = 0

\* The summary could not be had, or nothing was left to fold.
FoldFails ==
    /\ phase = "folding"
    /\ Overridden
    /\ snapshot' = <<>>
    /\ UNCHANGED <<thread_, run, attempt, quota, rounds, text, exhausted,
                   error, folded, aborted, agentReason, upkeep, turns, tools>>

OverflowsAgain ==
    /\ phase = "failed" /\ Overflowed /\ ~WorthFolding
    /\ Overridden
    /\ UNCHANGED <<thread_, run, attempt, quota, rounds, text, exhausted,
                   error, folded, aborted, agentReason, idle_, tools>>

BeginCooldown ==
    /\ phase = "failed" /\ ~Overflowed /\ WorthWaiting
    /\ phase' = "cooling"
    /\ UNCHANGED <<thread_, turn_, aborted, ending_, idle_, tools>>

GiveUp ==
    /\ phase = "failed" /\ ~Overflowed /\ ~WorthWaiting
    /\ EndTurn(error.category)
    /\ UNCHANGED <<thread_, run, attempt, quota, rounds, text, exhausted,
                   error, folded, aborted, agentReason, idle_, tools>>

-----------------------------------------------------------------------------
(* Between turns: compactConversation and resumeConversation. *)

\* Both refuse while a turn is in flight, then read the pending approvals.
BeginUpkeep(what) ==
    /\ PromptIsFree
    /\ inFlight = 0
    /\ thread # <<>>
    /\ upkeep' = what
    /\ UNCHANGED <<thread_, phase, turn_, aborted, ending_, snapshot, turns,
                   tools>>

During == UNCHANGED <<phase, turn_, aborted, ending_, turns, tools>>

UpkeepRefused ==
    /\ upkeep \in {"compact", "resume"} /\ pending
    /\ upkeep' = "none"
    /\ UNCHANGED <<thread_, snapshot>>
    /\ During

ReadConversation ==
    /\ upkeep = "compact" /\ ~pending
    /\ upkeep' = "summarising"
    /\ snapshot' = thread
    /\ UNCHANGED thread_
    /\ During

EndCompaction ==
    /\ upkeep = "summarising"
    /\ upkeep' = "none"
    /\ snapshot' = <<>>
    /\ \/ \E cut \in Cuts(snapshot) : WriteFold(cut)
       \/ UNCHANGED thread_
    /\ During

\* rotateThread: the next turn works on another conversation's thread.
ResumeConversation ==
    /\ upkeep = "resume" /\ ~pending
    /\ upkeep' = "none"
    /\ thread' = <<"human", "ai">>
    /\ UNCHANGED <<pending, snapshot>>
    /\ During

Upkeep ==
    \/ \E what \in {"compact", "resume"} : BeginUpkeep(what)
    \/ UpkeepRefused
    \/ ReadConversation
    \/ EndCompaction
    \/ ResumeConversation

GraphStep ==
    \/ Chunk
    \/ CallTool
    \/ ToolReturns
    \/ \E withText \in BOOLEAN, category \in {"none", "output_truncated"} :
          Answer(withText, category)
    \/ \E withText \in BOOLEAN : Suspend(withText)

-----------------------------------------------------------------------------
(* Properties. *)

\* A turn is retried after an overflow once, whatever cooldowns come before
\* or between: handleContextOverflow counts attempts, not failures, and the
\* count has to survive handleQuotaCooldown's own retries.
FoldsOnce == [][folded /\ phase # "folding" => phase' # "folding"]_vars

\* Every turn comes to an end, whatever fails how often.
TurnsEnd == (phase # "idle") ~> (phase = "idle")

\* A turn that is over says how it ended, and what it says was recorded in
\* its last attempt: a turn that recovered is not reported as the overflow
\* or the limit it recovered from.
EndingsAreCurrent ==
    phase = "idle" /\ turns > 0 => /\ Reported # None
                                   /\ Reported.of = <<attempt, quota>>

\* A driver is a Turn: who has the conversation, the tries, the questions of
\* each, and the one ending, which is not told before the turn is over and not
\* changed after it.
Status ==
    IF phase = "prompting" THEN "asking" ELSE
    IF phase # "idle" THEN "working" ELSE
    IF upkeep # "none" THEN "upkeep" ELSE "idle"

Abstract ==
    INSTANCE Turn WITH
        Endings  <- Categories,
        MaxAsks  <- MaxDrainRounds,
        MaxWaits <- MaxQuotaCooldowns,
        status   <- Status,
        asked    <- rounds,
        tries    <- <<attempt, quota>>,
        ending   <- IF phase = "idle" THEN Reported ELSE None

ImplementsTurn == Abstract!Spec

\* The model is never asked to go on from its own message: not by the empty-
\* stream fallback, not by a retry on a folded thread.
NeverAsksAfterTheModel ==
    [][phase # "running" /\ phase' = "running" /\ run' \notin {"resume", "refused"}
          => thread' # <<>> /\ thread'[Len(thread')] \notin {"ai", "call"}]_vars

\* No fold leaves a tool result whose call it took away.
ResultsFollowTheirCalls ==
    \A i \in 1..Len(thread) :
        thread[i] = "tool" => i > 1 /\ thread[i - 1] = "call"

\* A summary replaces exactly the messages it was made of: no turn, resume or
\* second compaction touches the thread while a summary is being written.
SummariesAreCurrent ==
    phase = "folding" \/ upkeep = "summarising" => snapshot = thread

\* No run begins after Esc, unless the user starts one.
HeedsEsc ==
    aborted /\ phase # "idle" /\ phase # "running"
        => phase' # "running" \/ run' = "refused"

\* Esc stops the response of a turn of events, whatever it was doing.
EscEndsTheTurn == [][mode = "events" => HeedsEsc]_vars

\* Without streaming, a turn is called empty only after its approvals were
\* drained: a gated call answers with no text.  (The streaming arm's
\* fallback is judged undrained.)
JudgedAfterTheDrain ==
    phase = "idle" /\ mode = "invoke" /\ reason.category = "empty_response"
        => ~pending

\* A turn of events the user stopped is never reported as one that finished,
\* nor as an empty one, whatever the stop raced with: the signal is looked at
\* again after the drain.
StoppedTurnsSaySo ==
    phase = "idle" /\ mode = "events" /\ aborted
        => Reported.category \notin {"completed", "empty_response"}

\* A turn that comes to its ordinary end leaves no row of its running: the
\* drain may end with calls that never got a result.
OrdinaryEndsCloseTheRows ==
    phase = "idle" /\ error = None /\ reason.category # "abandoned" => open = 0
=============================================================================
