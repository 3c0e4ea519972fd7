----------------------------- MODULE TuiSession -----------------------------
(* The terminal session: one turn at a time streams into the screen, merged  *)
(* with what its tools print; the run's questions become prompts that own    *)
(* the keyboard; decisions, turns and recaps become items of the transcript; *)
(* and a quit answers what is open, cleans up and leaves.                    *)
(*                                                                           *)
(* All of it runs on one thread, so a step is what happens between two       *)
(* awaits.  Ink hands every key parsed out of one chunk of input to the same *)
(* handler, before the screen is drawn again: a chunk of keys is one step.   *)
(* Left out: the draft, which takes the first Ctrl+C; the debug panel; the   *)
(* postures of the approvals; and whatever only changes the picture.         *)
EXTENDS Naturals, Sequences, FiniteSets

CONSTANTS
    MaxTurns,       \* bound: turns
    MaxPrompts,     \* bound: questions, over all turns
    MaxItems,       \* bound: events and tool output of one turn
    MaxKeys,        \* bound: keys parsed out of one chunk
    MaxClears,      \* bound: /clear
    Decisions       \* what a person may decide, of once, always, reject, deny

ASSUME TuiAssumption ==
    /\ {MaxTurns, MaxPrompts, MaxItems, MaxKeys, MaxClears} \subseteq Nat
    /\ Decisions \subseteq {"once", "always", "reject", "deny"}

VARIABLES
    \* App
    running,    \* runningRef
    turn,       \* the turns started so far
    working,    \* compactingRef, resumingRef
    transcript, \* its items, as kind and turn
    deferred,   \* deferredNotices
    epoch,      \* recapEpochRef
    recaps,     \* the recaps asked for, as turn and epoch
    \* mergeToolOutputIntoEvents
    inner,      \* the runner's stream
    listening,  \* its listener is the active one
    queue,      \* what waits to be yielded
    live,       \* what the turn on screen was folded from
    made,       \* history: how much was produced while it listened
    reader,     \* where the consumer is
    \* the bridges and the queues of the App
    asked,      \* the questions so far
    asking,     \* the one the run waits on; 0: none
    kind,       \* "approval" or "attack"
    attributed, \* the call has a row on screen
    reply,      \* what its record settled with
    awaiting,   \* awaitingOutcome
    waiting,    \* sticky answers whose notice waits for the outcome
    approvals, attacks,     \* approvalQueue, attackQueue
    \* quit
    leaving     \* quittingRef, and whether the screen was left

screen == <<transcript, deferred, epoch, recaps>>
app == <<running, turn, working>>
stream == <<inner, listening, queue, live, made, reader>>
bridge == <<asked, asking, kind, attributed, reply, awaiting, waiting>>
prompts == <<approvals, attacks>>
vars == <<app, screen, stream, bridge, prompts, leaving>>

Prompts == 1 .. MaxPrompts
Sticky == {"always", "deny"}
Item == [kind : {"turn", "notice", "banner", "recap", "restored"},
         turn : 0 .. MaxTurns]

\* The prompt on screen, which has the keyboard; 0: none.
Shown ==
    IF attacks # <<>> THEN Head(attacks)
    ELSE IF approvals # <<>> THEN Head(approvals) ELSE 0

TypeOK ==
    /\ running \in BOOLEAN /\ turn \in 0 .. MaxTurns
    /\ working \in {"none", "compacting", "resuming"}
    /\ transcript \in Seq(Item) /\ deferred \in Seq(Item)
    /\ epoch \in Nat /\ recaps \subseteq (1 .. MaxTurns) \X Nat
    /\ inner \in {"off", "open", "done"} /\ listening \in BOOLEAN
    /\ queue \in Seq(1 .. MaxItems) /\ live \in Seq(1 .. MaxItems)
    /\ made \in 0 .. MaxItems
    /\ reader \in {"off", "draining", "waiting", "ending", "closing"}
    /\ asked \in 0 .. MaxPrompts /\ asking \in 0 .. asked
    /\ kind \in [Prompts -> {"approval", "attack"}]
    /\ attributed \in [Prompts -> BOOLEAN]
    /\ reply \in [Prompts -> Decisions \cup {"none", "run", "stop", "teardown"}]
    /\ waiting \subseteq awaiting /\ awaiting \subseteq 1 .. asked
    /\ approvals \in Seq(1 .. asked) /\ attacks \in Seq(1 .. asked)
    /\ leaving \in {"no", "cleaning", "left"}

Init ==
    /\ running = FALSE /\ turn = 0 /\ working = "none"
    /\ transcript = <<>> /\ deferred = <<>> /\ epoch = 0 /\ recaps = {}
    /\ inner = "off" /\ listening = FALSE /\ queue = <<>> /\ live = <<>>
    /\ made = 0 /\ reader = "off"
    /\ asked = 0 /\ asking = 0 /\ kind = [c \in Prompts |-> "approval"]
    /\ attributed = [c \in Prompts |-> FALSE]
    /\ reply = [c \in Prompts |-> "none"] /\ awaiting = {} /\ waiting = {}
    /\ approvals = <<>> /\ attacks = <<>>
    /\ leaving = "no"
-----------------------------------------------------------------------------
(* The transcript. *)

Entry(k, t) == <<[kind |-> k, turn |-> t]>>

\* pushDecisionNotice, n times.
Notices(n) ==
    LET items == [i \in 1 .. n |-> [kind |-> "notice", turn |-> turn]]
    IN IF running
       THEN deferred' = deferred \o items /\ UNCHANGED transcript
       ELSE transcript' = transcript \o items /\ UNCHANGED deferred
-----------------------------------------------------------------------------
(* A turn: runTurn around mergeToolOutputIntoEvents. *)

\* handleSubmit: the input is there only while nothing else has the keyboard.
Submit ==
    /\ ~running /\ working = "none" /\ Shown = 0
    /\ turn < MaxTurns
    /\ turn' = turn + 1 /\ epoch' = epoch + 1
    /\ running' = TRUE
    /\ inner' = "open" /\ listening' = TRUE /\ queue' = <<>> /\ live' = <<>>
    /\ made' = 0 /\ reader' = "draining"
    /\ UNCHANGED <<working, transcript, deferred, recaps, bridge, prompts, leaving>>

\* notify, from where the consumer is.
Woken == IF reader = "waiting" THEN "draining" ELSE reader

\* The pump hands on an event of the stream.
PumpEvent ==
    /\ inner = "open" /\ asking = 0 /\ made < MaxItems
    /\ made' = made + 1 /\ queue' = Append(queue, made + 1)
    /\ reader' = Woken
    /\ UNCHANGED <<app, screen, inner, listening, live, bridge, prompts, leaving>>

\* Mutant: tool output goes before the events that wait.
EmitsFirst ==
    /\ listening /\ made < MaxItems
    /\ made' = made + 1 /\ queue' = <<made + 1>> \o queue
    /\ reader' = Woken
    /\ UNCHANGED <<app, screen, inner, listening, live, bridge, prompts, leaving>>

\* emitToolOutput, which a tool may do until and after the stream ends: once
\* nobody listens, it is dropped.
EmitOutput ==
    /\ listening /\ made < MaxItems
    /\ made' = made + 1 /\ queue' = Append(queue, made + 1)
    /\ reader' = Woken
    /\ UNCHANGED <<app, screen, inner, listening, live, bridge, prompts, leaving>>

\* The stream ends or throws.
EndStream ==
    /\ inner = "open" /\ asking = 0
    /\ inner' = "done" /\ reader' = Woken
    /\ UNCHANGED <<app, screen, listening, queue, live, made, bridge, prompts, leaving>>

\* One item is yielded and folded into the turn.
Fold ==
    /\ reader \in {"draining", "closing"} /\ queue # <<>>
    /\ live' = Append(live, Head(queue)) /\ queue' = Tail(queue)
    /\ UNCHANGED <<app, screen, inner, listening, made, reader, bridge, prompts, leaving>>

\* Mutant: the consumer goes to sleep without looking whether it is over.
SleepsAnyway ==
    /\ reader = "draining" /\ queue = <<>>
    /\ reader' = "waiting"
    /\ UNCHANGED <<app, screen, inner, listening, queue, live, made, bridge, prompts, leaving>>

\* Nothing is left: it sleeps until woken, or leaves the loop.
SleepOrEnd ==
    /\ reader = "draining" /\ queue = <<>>
    /\ reader' = IF inner = "open" THEN "waiting" ELSE "ending"
    /\ UNCHANGED <<app, screen, inner, listening, queue, live, made, bridge, prompts, leaving>>

\* unsubscribe, after a last await.
Unsubscribe ==
    /\ reader = "ending"
    /\ listening' = FALSE /\ reader' = "closing"
    /\ UNCHANGED <<app, screen, inner, queue, live, made, bridge, prompts, leaving>>

\* Mutant: what came after the loop is not drained.
CommitsEarly ==
    /\ reader = "closing"
    /\ transcript' = transcript \o Entry("turn", turn) \o deferred
    /\ deferred' = <<>>
    /\ recaps' = recaps \cup {<<turn, epoch>>}
    /\ running' = FALSE /\ inner' = "off" /\ reader' = "off"
    /\ UNCHANGED <<turn, working, epoch, listening, queue, live, made, bridge, prompts, leaving>>

\* The stream is over: the turn, the request for a recap, and the notices that
\* waited for the turn to be in.  What an error says comes before it.
CommitTurn ==
    /\ reader = "closing" /\ queue = <<>>
    /\ transcript' = transcript \o Entry("turn", turn) \o deferred
    /\ deferred' = <<>>
    /\ recaps' = recaps \cup {<<turn, epoch>>}
    /\ running' = FALSE /\ inner' = "off" /\ reader' = "off"
    /\ UNCHANGED <<turn, working, epoch, listening, queue, live, made, bridge, prompts, leaving>>

\* Mutant: a recap is shown whatever happened since.
ShowsLateRecaps(r) ==
    /\ recaps' = recaps \ {r}
    /\ transcript' = transcript \o Entry("recap", r[1])
    /\ UNCHANGED <<app, deferred, epoch, stream, bridge, prompts, leaving>>

\* A recap that has something to say comes in, and is shown if its epoch is
\* still the current one.
RecapArrives(r) ==
    /\ recaps' = recaps \ {r}
    /\ transcript' = IF r[2] = epoch THEN transcript \o Entry("recap", r[1])
                     ELSE transcript
    /\ UNCHANGED <<app, deferred, epoch, stream, bridge, prompts, leaving>>
-----------------------------------------------------------------------------
(* The prompts. *)

\* request: the run waits, and the App queues the record.  A halt has no row.
Ask(k, rowed) ==
    /\ rowed => k = "approval"
    /\ inner = "open" /\ asking = 0 /\ asked < MaxPrompts
    /\ asked' = asked + 1 /\ asking' = asked + 1
    /\ kind' = [kind EXCEPT ![asked + 1] = k]
    /\ attributed' = [attributed EXCEPT ![asked + 1] = rowed]
    /\ awaiting' = IF k = "approval" THEN awaiting \cup {asked + 1} ELSE awaiting
    /\ approvals' = IF k = "approval" THEN Append(approvals, asked + 1) ELSE approvals
    /\ attacks' = IF k = "attack" THEN Append(attacks, asked + 1) ELSE attacks
    /\ UNCHANGED <<app, screen, stream, reply, waiting, leaving>>

\* slice(1), n times.
Sliced(q, n) == SubSeq(q, n + 1, Len(q))

\* A record settles once.
Settled(c, r) == IF reply[c] = "none" THEN [reply EXCEPT ![c] = r] ELSE reply

\* Mutant: the key that settles the record leaves its prompt in the queue, and only the
\* keys after it take it off.
AnswerApprovalLazily(keys) ==
    /\ Shown # 0 /\ kind[Shown] = "approval"
    /\ reply' = Settled(Shown, keys[1])
    /\ approvals' = IF reply[Shown] = "none" THEN Sliced(approvals, Len(keys) - 1)
                    ELSE Sliced(approvals, Len(keys))
    /\ UNCHANGED <<app, screen, stream, asked, asking, kind, attributed, awaiting,
                   waiting, attacks, leaving>>

\* The keys of one chunk that find an approval on screen: each one settles the
\* record, takes the head off the queue and gives its notice,
\* or, when it promises a file, waits for the outcome.
AnswerApproval(keys) ==
    LET c == Shown
        onRow == attributed[c] /\ running
        waits == c \in awaiting /\ \E i \in 1 .. Len(keys) : keys[i] \in Sticky
        tells(d) == ~onRow \/ d = "once" \/ (d \in Sticky /\ c \notin awaiting)
    IN /\ Shown # 0 /\ kind[c] = "approval"
       /\ reply' = Settled(c, keys[1])
       /\ approvals' = Sliced(approvals, Len(keys))
       /\ Notices(Cardinality({i \in 1 .. Len(keys) : tells(keys[i])}))
       /\ waiting' = IF waits THEN waiting \cup {c} ELSE waiting
       /\ UNCHANGED <<app, epoch, recaps, stream, asked, asking, kind, attributed,
                      awaiting, attacks, leaving>>

\* The same for a banner: Enter after the phrase, or anything that ends it.
\* What it grants is told at once.
AnswerAttack(answer, keys) ==
    LET c == Shown
    IN /\ Shown # 0 /\ kind[c] = "attack"
       /\ reply' = Settled(c, answer)
       /\ attacks' = Sliced(attacks, keys)
       /\ transcript' = IF answer = "run" THEN transcript \o Entry("banner", turn)
                        ELSE transcript
       /\ UNCHANGED <<app, deferred, epoch, recaps, stream, asked, asking, kind,
                      attributed, awaiting, waiting, approvals, leaving>>

\* The run goes on with the answer, and reports what a person's came to.
GoOn ==
    LET reported == kind[asking] = "approval" /\ reply[asking] # "teardown"
    IN /\ asking # 0 /\ reply[asking] # "none"
       /\ asking' = 0
       /\ awaiting' = IF reported THEN awaiting \ {asking} ELSE awaiting
       /\ waiting' = awaiting' \cap waiting
       /\ Notices(IF reported /\ asking \in waiting THEN 1 ELSE 0)
       /\ UNCHANGED <<app, epoch, recaps, stream, asked, kind, attributed, reply,
                      prompts, leaving>>
-----------------------------------------------------------------------------
(* The commands that wipe the screen, or keep the turn away. *)

Clear ==
    /\ ~running /\ working = "none" /\ Shown = 0
    /\ epoch - turn < MaxClears
    /\ transcript' = <<>> /\ epoch' = epoch + 1
    /\ UNCHANGED <<app, deferred, recaps, stream, bridge, prompts, leaving>>

StartWork(w) ==
    /\ ~running /\ working = "none" /\ Shown = 0
    /\ working' = w
    /\ UNCHANGED <<running, turn, screen, stream, bridge, prompts, leaving>>

\* A compaction, or a resume that is refused, leaves the transcript.
EndWork ==
    /\ working # "none"
    /\ working' = "none"
    /\ UNCHANGED <<running, turn, screen, stream, bridge, prompts, leaving>>

\* The conversation resumed takes the place of the one on screen.
FinishResume ==
    /\ working = "resuming"
    /\ working' = "none" /\ transcript' = Entry("restored", 0)
    /\ UNCHANGED <<running, turn, deferred, epoch, recaps, stream, bridge, prompts, leaving>>
-----------------------------------------------------------------------------
(* quit, and onExit. *)

\* abortPending: the open record is answered, and nobody waits for an outcome.
Quit ==
    /\ leaving = "no"
    /\ leaving' = "cleaning"
    /\ reply' = IF asking = 0 THEN reply ELSE Settled(asking, "teardown")
    /\ Notices(IF waiting = {} THEN 0 ELSE 1)
    /\ awaiting' = {} /\ waiting' = {}
    /\ UNCHANGED <<app, epoch, recaps, stream, asked, asking, kind, attributed, prompts>>

\* exit: when the cleanup is over, at a second quit, or at the deadline.
Leave ==
    /\ leaving = "cleaning"
    /\ leaving' = "left" /\ epoch' = epoch + 1
    /\ UNCHANGED <<app, transcript, deferred, recaps, stream, bridge, prompts>>
-----------------------------------------------------------------------------
Chunks == UNION {[1 .. n -> Decisions] : n \in 1 .. MaxKeys}

\* What the code does by itself, once it is able to.
Advance ==
    \/ Fold \/ SleepOrEnd \/ Unsubscribe \/ CommitTurn \/ GoOn

Happens ==
    \/ Submit \/ PumpEvent \/ EmitOutput \/ EndStream
    \/ Advance
    \/ \E r \in recaps : RecapArrives(r)
    \/ \E k \in {"approval", "attack"}, rowed \in BOOLEAN : Ask(k, rowed)
    \/ \E keys \in Chunks : AnswerApproval(keys)
    \/ \E answer \in {"run", "stop"}, keys \in 1 .. MaxKeys : AnswerAttack(answer, keys)
    \/ Clear \/ EndWork \/ FinishResume
    \/ \E w \in {"compacting", "resuming"} : StartWork(w)
    \/ Quit \/ Leave

\* The process goes with the screen.
Next == leaving # "left" /\ Happens

\* Promises that are settled are gone on from; nothing is asked of the model,
\* the tools or the person.
Spec ==
    /\ Init /\ [][Next]_vars
    /\ WF_vars(leaving # "left" /\ Advance)
-----------------------------------------------------------------------------
(* Properties. *)

\* While nobody quits, the question the run waits on is the one on screen: no
\* key, and no chunk of keys, takes a prompt away that was not answered, and
\* none that was answered stands before the next.  And nobody waits for what became of
\* a question that the run has gone on from.
PromptsStayAnswerable ==
    /\ (asking # 0 /\ reply[asking] = "none" /\ leaving = "no") => Shown = asking
    /\ awaiting \subseteq {asking}

\* All a turn produces while it listens is folded into it in order, also what a
\* tool prints as the stream ends; a turn that is in has nothing left behind.
OutputIsWhole ==
    /\ live \o queue = [i \in 1 .. made |-> i]
    /\ reader = "off" => queue = <<>>

\* A turn comes after the ones before it, its decision notices and its recap after it
\* and before the next turn.  What a banner grants is told at once, and is not one of
\* them; a resume starts a transcript of its own.
TurnsReadInOrder ==
    \A i, j \in 1 .. Len(transcript) :
        LET a == transcript[i] b == transcript[j]
        IN i < j =>
            /\ b.kind # "restored"
            /\ a.kind = "turn" => a.turn <= b.turn
            /\ b.kind = "turn" /\ a.kind \in {"notice", "recap"} => a.turn < b.turn

\* A recap stands under its turn, never on a screen that was cleared since; one that is
\* late may still come in under another conversation that was resumed meanwhile.
RecapsHaveTheirTurns ==
    \A j \in 1 .. Len(transcript) : transcript[j].kind = "recap" =>
        \E i \in 1 .. j - 1 :
            \/ transcript[i].kind = "restored"
            \/ transcript[i] = [kind |-> "turn", turn |-> transcript[j].turn]

\* The transcript reads in the order in which things happened, however late the
\* notices and the recaps come.
TranscriptReadsInOrder == TurnsReadInOrder /\ RecapsHaveTheirTurns

\* Every stream that ends ends its turn: the consumer is never left asleep,
\* but by the end of the session.
EndedTurnsAreCommitted ==
    (inner = "done") ~> (~running \/ leaving = "left")

=============================================================================
