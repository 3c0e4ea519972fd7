-------------------------- MODULE TuiSessionProofs --------------------------
(***************************************************************************)
(* What the terminal session guarantees for any number of turns, prompts,  *)
(* items, keys and clears.  Three arguments, each with an invariant of its *)
(* own: where the consumer of the merged stream may be while the stream is *)
(* open or over (Reading), which gives that output is whole and that       *)
(* nobody sleeps through the end; that the queues of the App hold the open *)
(* question and nothing else until the session quits (OneQuestion); and    *)
(* which turn everything told belongs to (Told), which gives the order of  *)
(* the transcript.                                                         *)
(***************************************************************************)
EXTENDS TuiSession, SequenceTheorems, FiniteSetTheorems, TLAPS

\* Where the consumer is, against the stream and the turn.
Reading ==
    /\ running <=> reader # "off"
    /\ running => turn >= 1
    /\ reader = "off" => inner = "off" /\ ~listening
    /\ reader \in {"ending", "closing"} => inner = "done"
    /\ reader = "closing" => ~listening
    /\ reader = "draining" => inner # "off"
    /\ reader = "waiting" => inner = "open" /\ queue = <<>>

\* The queue of the question's kind holds it until it is answered, and the other none.
Asks(c) ==
    /\ approvals = IF kind[c] = "approval" THEN <<c>> ELSE <<>>
    /\ attacks = IF kind[c] = "approval" THEN <<>> ELSE <<c>>

OneQuestion ==
    /\ \A c \in Prompts : c > asked => reply[c] = "none"
    /\ leaving = "no" =>
          IF asking # 0 /\ reply[asking] = "none" THEN Asks(asking)
          ELSE approvals = <<>> /\ attacks = <<>>

\* An outcome is awaited of the open question only, which is no banner's, and not once a
\* teardown has answered it.
Awaited ==
    \A c \in awaiting : c = asking /\ kind[c] = "approval" /\ reply[c] # "teardown"

\* What was produced is what was folded and what waits, in order.
Numbered ==
    /\ Len(live) + Len(queue) = made
    /\ \A i \in 1 .. Len(live) : live[i] = i
    /\ \A i \in 1 .. Len(queue) : queue[i] = Len(live) + i

\* Nothing told is of a later turn; while a turn runs, its notices wait, and no recap
\* that may still be shown is of another turn than the last, which is over.
Told ==
    /\ \A i \in 1 .. Len(transcript) :
          /\ transcript[i].turn <= turn
          /\ running /\ transcript[i].kind \in {"turn", "notice", "recap"}
                => transcript[i].turn < turn
    /\ \A i \in 1 .. Len(deferred) : deferred[i] = [kind |-> "notice", turn |-> turn]
    /\ ~running => deferred = <<>>
    /\ \A r \in recaps : r[2] <= epoch /\ (r[2] = epoch => r[1] = turn /\ ~running)

-----------------------------------------------------------------------------
(* The operators of the model. *)

LEMMA BoundsAreNumbers ==
    /\ MaxTurns \in Nat /\ MaxPrompts \in Nat /\ MaxItems \in Nat /\ MaxKeys \in Nat
    /\ MaxClears \in Nat
BY TuiAssumption

\* One item is a sequence of items.
LEMMA EntryIsOne ==
    ASSUME NEW k \in {"turn", "notice", "banner", "recap", "restored"},
           NEW t \in 0 .. MaxTurns
    PROVE  /\ Entry(k, t) \in Seq(Item) /\ Len(Entry(k, t)) = 1
           /\ Entry(k, t)[1] = [kind |-> k, turn |-> t]
BY DEF Entry, Item

\* n notices of the turn are told at once, or wait until it is in.
LEMMA NoticesWrite ==
    ASSUME TypeOK, NEW n \in Nat, Notices(n)
    PROVE  \E items \in Seq(Item) :
              /\ \A i \in 1 .. Len(items) : items[i] = [kind |-> "notice", turn |-> turn]
              /\ IF running THEN deferred' = deferred \o items /\ transcript' = transcript
                 ELSE transcript' = transcript \o items /\ deferred' = deferred
<1> DEFINE items == [i \in 1 .. n |-> [kind |-> "notice", turn |-> turn]]
<1>1. /\ items \in Seq(Item) /\ Len(items) = n
      /\ \A i \in 1 .. Len(items) : items[i] = [kind |-> "notice", turn |-> turn]
  BY DEF TypeOK, Item
<1>2. IF running THEN deferred' = deferred \o items /\ transcript' = transcript
      ELSE transcript' = transcript \o items /\ deferred' = deferred
  BY DEF Notices
<1> HIDE DEF items
<1>3. QED
  BY <1>1, <1>2

LEMMA NoticesType ==
    ASSUME TypeOK, NEW n \in Nat, Notices(n)
    PROVE  transcript' \in Seq(Item) /\ deferred' \in Seq(Item)
<1>1. PICK items \in Seq(Item) :
        IF running THEN deferred' = deferred \o items /\ transcript' = transcript
        ELSE transcript' = transcript \o items /\ deferred' = deferred
  BY NoticesWrite
<1>2. transcript \in Seq(Item) /\ deferred \in Seq(Item)
  BY DEF TypeOK
<1>3. QED
  BY <1>1, <1>2, ConcatProperties

\* Slicing keeps what a queue is made of.
LEMMA SlicedType ==
    ASSUME NEW S, NEW q \in Seq(S), NEW n \in Nat
    PROVE  Sliced(q, n) \in Seq(S)
BY SubSeqProperties DEF Sliced

LEMMA ShownIsAsked ==
    ASSUME TypeOK
    PROVE  Shown \in 0 .. asked
<1>1. asked \in Nat
  BY BoundsAreNumbers DEF TypeOK
<1>2. QED
  BY <1>1 DEF TypeOK, Shown

\* The prompt on screen is a question that was asked.
LEMMA ShownIsAPrompt ==
    ASSUME TypeOK, Shown # 0
    PROVE  Shown \in Prompts /\ Shown \in 1 .. asked
<1>1. asked \in 0 .. MaxPrompts
  BY DEF TypeOK
<1>2. QED
  BY <1>1, ShownIsAsked, BoundsAreNumbers DEF Prompts

LEMMA SettledType ==
    ASSUME TypeOK, NEW c \in Prompts, NEW r \in Decisions \cup {"run", "stop", "teardown"}
    PROVE  /\ Settled(c, r) \in [Prompts -> Decisions \cup {"none", "run", "stop", "teardown"}]
           /\ Settled(c, r)[c] # "none"
           /\ \A d \in Prompts \ {c} : Settled(c, r)[d] = reply[d]
BY TuiAssumption DEF TypeOK, Settled

\* A chunk of keys holds at least one, and how many of them are such and such is a number.
LEMMA ChunkOfKeys ==
    ASSUME NEW keys \in Chunks
    PROVE  Len(keys) \in Nat \ {0} /\ keys[1] \in Decisions
<1>1. PICK n \in 1 .. MaxKeys : keys \in [1 .. n -> Decisions]
  BY DEF Chunks
<1>2. n \in Nat /\ n >= 1
  BY BoundsAreNumbers
<1>3. QED
  BY <1>1, <1>2

LEMMA KeysAreCounted ==
    ASSUME NEW keys \in Chunks, NEW Some \in SUBSET (1 .. Len(keys))
    PROVE  Cardinality(Some) \in Nat
<1>1. Len(keys) \in Int
  BY ChunkOfKeys
<1>2. IsFiniteSet(1 .. Len(keys))
  BY <1>1, FS_Interval
<1>3. IsFiniteSet(Some)
  BY <1>2, FS_Subset
<1>4. QED
  BY <1>3, FS_CardinalityType

\* The keys that find an approval on screen settle it, take the head off its queue and
\* give notices, or one that waits for the outcome.
LEMMA AnswerApprovalWrites ==
    ASSUME TypeOK, NEW keys \in Chunks, AnswerApproval(keys)
    PROVE  /\ Shown # 0 /\ kind[Shown] = "approval" /\ reply' = Settled(Shown, keys[1])
           /\ approvals' = Sliced(approvals, Len(keys))
           /\ \E n \in Nat : Notices(n)
           /\ waiting' \in {waiting, waiting \cup {Shown}}
           /\ waiting' # waiting => Shown \in awaiting
           /\ UNCHANGED <<running, turn, working, epoch, recaps, inner, listening, queue,
                          live, made, reader, asked, asking, kind, attributed, awaiting,
                          attacks, leaving>>
<1>1. \E n \in Nat : Notices(n)
  <2> DEFINE c == Shown
             onRow == attributed[c] /\ running
             tells(d) == ~onRow \/ d = "once" \/ (d \in Sticky /\ c \notin awaiting)
             Tells == {i \in 1 .. Len(keys) : tells(keys[i])}
  <2>1. Notices(Cardinality(Tells))
    BY DEF AnswerApproval
  <2>2. Tells \in SUBSET (1 .. Len(keys))
    OBVIOUS
  <2> HIDE DEF Tells
  <2>3. Cardinality(Tells) \in Nat
    BY <2>2, KeysAreCounted
  <2>4. QED
    BY <2>1, <2>3
<1>2. QED
  BY <1>1 DEF AnswerApproval, app, stream

-----------------------------------------------------------------------------
(* Types. *)

LEMMA TypeInit ==
    ASSUME Init
    PROVE  TypeOK /\ Reading
<1>1. /\ kind \in [Prompts -> {"approval", "attack"}]
      /\ attributed \in [Prompts -> BOOLEAN]
      /\ reply \in [Prompts -> Decisions \cup {"none", "run", "stop", "teardown"}]
  BY DEF Init
<1>2. /\ turn \in 0 .. MaxTurns /\ made \in 0 .. MaxItems /\ asked \in 0 .. MaxPrompts
      /\ asking \in 0 .. asked
  BY BoundsAreNumbers DEF Init
<1>3. /\ transcript \in Seq(Item) /\ deferred \in Seq(Item)
      /\ queue \in Seq(1 .. MaxItems) /\ live \in Seq(1 .. MaxItems)
      /\ approvals \in Seq(1 .. asked) /\ attacks \in Seq(1 .. asked)
  BY EmptySeq DEF Init
<1>4. TypeOK
  BY <1>1, <1>2, <1>3 DEF Init, TypeOK
<1>5. QED
  BY <1>4 DEF Init, Reading

\* The steps of a turn.
LEMMA TurnTypes ==
    ASSUME TypeOK, Reading,
           Submit \/ PumpEvent \/ EmitOutput \/ EndStream \/ Fold \/ SleepOrEnd
           \/ Unsubscribe \/ CommitTurn
    PROVE  TypeOK' /\ Reading'
<1> USE BoundsAreNumbers
<1>1. CASE Submit
  <2>1. turn' \in 0 .. MaxTurns /\ turn' >= 1 /\ epoch' \in Nat /\ made' \in 0 .. MaxItems
    BY <1>1 DEF Submit, TypeOK
  <2>2. QED
    BY <1>1, <2>1 DEF Submit, TypeOK, Reading, screen, bridge, prompts
<1>2. CASE PumpEvent \/ EmitOutput
  <2>1. /\ made < MaxItems /\ made' = made + 1 /\ queue' = Append(queue, made + 1)
        /\ reader' = Woken
    BY <1>2 DEF PumpEvent, EmitOutput
  <2>2. UNCHANGED <<running, turn, working, transcript, deferred, epoch, recaps, inner,
                    listening, live, asked, asking, kind, attributed, reply, awaiting,
                    waiting, approvals, attacks, leaving>>
    BY <1>2 DEF PumpEvent, EmitOutput, app, screen, bridge, prompts
  <2>3. made \in Nat /\ made + 1 \in 1 .. MaxItems
    BY <2>1 DEF TypeOK
  <2>4. queue' \in Seq(1 .. MaxItems) /\ made' \in 0 .. MaxItems
    BY <2>1, <2>3 DEF TypeOK
  <2>5. TypeOK'
    BY <2>1, <2>2, <2>4 DEF TypeOK, Woken
  <2>6. QED
    BY <2>1, <2>2, <2>5 DEF Reading, Woken
<1>3. CASE EndStream
  BY <1>3 DEF EndStream, Woken, TypeOK, Reading, app, screen, bridge, prompts
<1>4. CASE Fold
  <2>1. live' \in Seq(1 .. MaxItems) /\ queue' \in Seq(1 .. MaxItems)
    BY <1>4 DEF Fold, TypeOK
  <2>2. UNCHANGED <<running, turn, working, transcript, deferred, epoch, recaps, inner,
                    listening, made, reader, asked, asking, kind, attributed, reply,
                    awaiting, waiting, approvals, attacks, leaving>>
    BY <1>4 DEF Fold, app, screen, bridge, prompts
  <2>3. reader # "waiting"
    BY <1>4 DEF Fold
  <2>4. QED
    BY <2>1, <2>2, <2>3 DEF TypeOK, Reading
<1>5. CASE SleepOrEnd
  BY <1>5 DEF SleepOrEnd, TypeOK, Reading, app, screen, bridge, prompts
<1>6. CASE Unsubscribe
  BY <1>6 DEF Unsubscribe, TypeOK, Reading, app, screen, bridge, prompts
<1>7. CASE CommitTurn
  <2>1. turn \in 1 .. MaxTurns
    BY <1>7 DEF CommitTurn, TypeOK, Reading
  <2>2. transcript' \in Seq(Item)
    BY <1>7, <2>1, EntryIsOne, ConcatProperties DEF CommitTurn, TypeOK
  <2>3. recaps' \subseteq (1 .. MaxTurns) \X Nat
    BY <1>7, <2>1 DEF CommitTurn, TypeOK
  <2>4. deferred' \in Seq(Item)
    BY <1>7 DEF CommitTurn
  <2>5. QED
    BY <1>7, <2>2, <2>3, <2>4 DEF CommitTurn, TypeOK, Reading, bridge, prompts
<1>8. QED
  BY <1>1, <1>2, <1>3, <1>4, <1>5, <1>6, <1>7

\* The questions and their answers.
LEMMA PromptTypes ==
    ASSUME TypeOK, Reading,
           \/ \E k \in {"approval", "attack"}, rowed \in BOOLEAN : Ask(k, rowed)
           \/ \E keys \in Chunks : AnswerApproval(keys)
           \/ \E answer \in {"run", "stop"}, keys \in 1 .. MaxKeys : AnswerAttack(answer, keys)
           \/ GoOn \/ Quit
    PROVE  TypeOK' /\ Reading'
<1> USE BoundsAreNumbers
<1>1. ASSUME NEW k \in {"approval", "attack"}, NEW rowed \in BOOLEAN, Ask(k, rowed)
      PROVE  TypeOK' /\ Reading'
  <2>1. /\ asked \in Nat /\ asked < MaxPrompts /\ asked' = asked + 1 /\ asking' = asked + 1
        /\ kind' = [kind EXCEPT ![asked + 1] = k]
        /\ attributed' = [attributed EXCEPT ![asked + 1] = rowed]
        /\ awaiting' = (IF k = "approval" THEN awaiting \cup {asked + 1} ELSE awaiting)
        /\ approvals' = (IF k = "approval" THEN Append(approvals, asked + 1) ELSE approvals)
        /\ attacks' = (IF k = "attack" THEN Append(attacks, asked + 1) ELSE attacks)
        /\ UNCHANGED <<running, turn, working, transcript, deferred, epoch, recaps, inner,
                       listening, queue, live, made, reader, reply, waiting, leaving>>
    BY <1>1 DEF Ask, TypeOK, app, screen, stream
  <2>2. asked + 1 \in Prompts /\ asked' \in 0 .. MaxPrompts /\ asking' \in 0 .. asked'
    BY <2>1 DEF Prompts
  <2>3. 1 .. asked \subseteq 1 .. asked' /\ asked + 1 \in 1 .. asked'
    BY <2>1
  <2>4. approvals \in Seq(1 .. asked') /\ attacks \in Seq(1 .. asked')
    <3>1. approvals \in Seq(1 .. asked) /\ attacks \in Seq(1 .. asked)
      BY DEF TypeOK
    <3>2. QED
      BY <2>3, <3>1, SeqMonotonic
  <2>5. approvals' \in Seq(1 .. asked') /\ attacks' \in Seq(1 .. asked')
    <3> DEFINE known == 1 .. asked'
               next == asked + 1
    <3>1. next \in known /\ approvals \in Seq(known) /\ attacks \in Seq(known)
      BY <2>3, <2>4
    <3> HIDE DEF known, next
    <3>2. Append(approvals, next) \in Seq(known) /\ Append(attacks, next) \in Seq(known)
      BY <3>1
    <3>3. QED
      BY <2>1, <3>1, <3>2 DEF known, next
  <2>6. waiting' \subseteq awaiting' /\ awaiting' \subseteq 1 .. asked'
    BY <2>1, <2>3 DEF TypeOK
  <2>7. /\ kind' \in [Prompts -> {"approval", "attack"}]
        /\ attributed' \in [Prompts -> BOOLEAN]
    BY <2>1 DEF TypeOK
  <2>8. QED
    BY <2>1, <2>2, <2>5, <2>6, <2>7 DEF TypeOK, Reading
<1>2. ASSUME NEW keys \in Chunks, AnswerApproval(keys)
      PROVE  TypeOK' /\ Reading'
  <2>1. /\ Shown # 0 /\ reply' = Settled(Shown, keys[1])
        /\ approvals' = Sliced(approvals, Len(keys))
        /\ \E n \in Nat : Notices(n)
        /\ waiting' \in {waiting, waiting \cup {Shown}}
        /\ waiting' # waiting => Shown \in awaiting
        /\ UNCHANGED <<running, turn, working, epoch, recaps, inner, listening, queue, live,
                       made, reader, asked, asking, kind, attributed, awaiting, attacks,
                       leaving>>
    BY <1>2, AnswerApprovalWrites
  <2>2. reply' \in [Prompts -> Decisions \cup {"none", "run", "stop", "teardown"}]
    BY <2>1, ShownIsAPrompt, ChunkOfKeys, SettledType
  <2>3. approvals' \in Seq(1 .. asked)
    BY <2>1, ChunkOfKeys, SlicedType DEF TypeOK
  <2>4. transcript' \in Seq(Item) /\ deferred' \in Seq(Item)
    BY <2>1, NoticesType
  <2>5. waiting' \subseteq awaiting
    BY <2>1 DEF TypeOK
  <2>6. QED
    BY <2>1, <2>2, <2>3, <2>4, <2>5 DEF TypeOK, Reading
<1>3. ASSUME NEW answer \in {"run", "stop"}, NEW keys \in 1 .. MaxKeys,
             AnswerAttack(answer, keys)
      PROVE  TypeOK' /\ Reading'
  <2>1. /\ Shown # 0 /\ reply' = Settled(Shown, answer)
        /\ attacks' = Sliced(attacks, keys)
        /\ transcript' = (IF answer = "run" THEN transcript \o Entry("banner", turn)
                          ELSE transcript)
        /\ UNCHANGED <<running, turn, working, deferred, epoch, recaps, inner, listening,
                       queue, live, made, reader, asked, asking, kind, attributed, awaiting,
                       waiting, approvals, leaving>>
    BY <1>3 DEF AnswerAttack, app, stream
  <2>2. reply' \in [Prompts -> Decisions \cup {"none", "run", "stop", "teardown"}]
    BY <2>1, ShownIsAPrompt, SettledType
  <2>3. attacks' \in Seq(1 .. asked)
    BY <2>1, SlicedType DEF TypeOK
  <2>4. transcript' \in Seq(Item)
    BY <2>1, EntryIsOne, ConcatProperties DEF TypeOK
  <2>5. QED
    BY <2>1, <2>2, <2>3, <2>4 DEF TypeOK, Reading
<1>4. CASE GoOn
  <2>1. /\ asking' = 0
        /\ awaiting' \in {awaiting, awaiting \ {asking}}
        /\ waiting' = awaiting' \cap waiting
        /\ \E n \in Nat : Notices(n)
        /\ UNCHANGED <<running, turn, working, epoch, recaps, inner, listening, queue, live,
                       made, reader, asked, kind, attributed, reply, approvals, attacks,
                       leaving>>
    BY <1>4 DEF GoOn, app, stream, prompts
  <2>2. transcript' \in Seq(Item) /\ deferred' \in Seq(Item)
    BY <2>1, NoticesType
  <2>3. asking' \in 0 .. asked
    BY <2>1 DEF TypeOK
  <2>4. QED
    BY <2>1, <2>2, <2>3 DEF TypeOK, Reading
<1>5. CASE Quit
  <2>1. /\ leaving' = "cleaning"
        /\ reply' = (IF asking = 0 THEN reply ELSE Settled(asking, "teardown"))
        /\ \E n \in Nat : Notices(n)
        /\ awaiting' = {} /\ waiting' = {}
        /\ UNCHANGED <<running, turn, working, epoch, recaps, inner, listening, queue, live,
                       made, reader, asked, asking, kind, attributed, approvals, attacks>>
    BY <1>5 DEF Quit, app, stream, prompts
  <2>2. transcript' \in Seq(Item) /\ deferred' \in Seq(Item)
    BY <2>1, NoticesType
  <2>3. asking # 0 => asking \in Prompts
    BY DEF TypeOK, Prompts
  <2>4. reply' \in [Prompts -> Decisions \cup {"none", "run", "stop", "teardown"}]
    BY <2>1, <2>3, SettledType DEF TypeOK
  <2>5. QED
    BY <2>1, <2>2, <2>4 DEF TypeOK, Reading
<1>6. QED
  BY <1>1, <1>2, <1>3, <1>4, <1>5

\* What only touches the screen.
LEMMA ScreenTypes ==
    ASSUME TypeOK, Reading,
           \/ \E r \in recaps : RecapArrives(r)
           \/ Clear \/ EndWork \/ FinishResume
           \/ \E w \in {"compacting", "resuming"} : StartWork(w)
           \/ Leave
    PROVE  TypeOK' /\ Reading'
<1> USE BoundsAreNumbers
<1>1. UNCHANGED <<running, turn, inner, listening, queue, live, made, reader, asked, asking,
                  kind, attributed, reply, awaiting, waiting, approvals, attacks>>
  BY DEF RecapArrives, Clear, EndWork, FinishResume, StartWork, Leave, app, stream, bridge,
         prompts
<1>2. transcript' \in Seq(Item) /\ deferred' = deferred
  <2>1. CASE \E r \in recaps : RecapArrives(r)
    <3>1. PICK r \in recaps : RecapArrives(r)
      BY <2>1
    <3>2. r[1] \in 0 .. MaxTurns
      BY DEF TypeOK
    <3>3. QED
      BY <3>1, <3>2, EntryIsOne, ConcatProperties DEF RecapArrives, TypeOK
  <2>2. CASE FinishResume
    <3>1. 0 \in 0 .. MaxTurns
      OBVIOUS
    <3>2. QED
      BY <2>2, <3>1, EntryIsOne DEF FinishResume
  <2>3. CASE \/ Clear \/ EndWork \/ Leave
             \/ \E w \in {"compacting", "resuming"} : StartWork(w)
    <3>1. (transcript' = <<>> \/ transcript' = transcript) /\ deferred' = deferred
      BY <2>3 DEF Clear, EndWork, StartWork, Leave, screen
    <3>2. transcript \in Seq(Item)
      BY DEF TypeOK
    <3>3. QED
      BY <3>1, <3>2, EmptySeq
  <2>4. QED
    BY <2>1, <2>2, <2>3
<1>3. /\ recaps' \subseteq recaps /\ epoch' \in Nat
      /\ working' \in {"none", "compacting", "resuming"}
      /\ leaving' \in {"no", "cleaning", "left"}
  BY DEF RecapArrives, Clear, EndWork, FinishResume, StartWork, Leave, app, screen, TypeOK
<1>4. QED
  BY <1>1, <1>2, <1>3 DEF TypeOK, Reading

LEMMA TypeStep ==
    ASSUME TypeOK, Reading, [Next]_vars
    PROVE  TypeOK' /\ Reading'
<1>1. CASE UNCHANGED vars
  BY <1>1 DEF vars, app, screen, stream, bridge, prompts, TypeOK, Reading
<1>2. CASE Happens
  BY <1>2, TurnTypes, PromptTypes, ScreenTypes DEF Happens, Advance
<1>3. QED
  BY <1>1, <1>2 DEF Next

LEMMA TypesHold == Spec => [](TypeOK /\ Reading)
<1>1. Init => TypeOK /\ Reading
  BY TypeInit
<1>2. TypeOK /\ Reading /\ [Next]_vars => (TypeOK /\ Reading)'
  BY TypeStep
<1>3. QED
  BY <1>1, <1>2, PTL DEF Spec

\* The state of the App, of the merge and of the bridges keeps its types.
THEOREM TuiTypeCorrect == Spec => []TypeOK
BY TypesHold, PTL

\* Nobody sleeps through the end: a consumer waits only while the stream is open and
\* nothing is queued (mergeToolOutputIntoEvents: notify, and the loop's look at `done`
\* before it waits).  The safety half of EndedTurnsAreCommitted.
THEOREM NobodySleepsThroughTheEnd ==
    Spec => [](reader = "waiting" => inner = "open" /\ queue = <<>>)
<1>1. Reading => (reader = "waiting" => inner = "open" /\ queue = <<>>)
  BY DEF Reading
<1>2. QED
  BY <1>1, TypesHold, PTL
-----------------------------------------------------------------------------
(* The open question, and the queues of the App. *)

LEMMA QuestionInit ==
    ASSUME Init
    PROVE  OneQuestion
BY DEF Init, OneQuestion

LEMMA QuestionStep ==
    ASSUME TypeOK, OneQuestion, [Next]_vars
    PROVE  OneQuestion'
<1> USE BoundsAreNumbers
<1>1. asked \in Nat /\ asking \in 0 .. asked
  BY DEF TypeOK
<1>2. asking # 0 => asking \in Prompts /\ asking <= asked
  BY DEF TypeOK, Prompts
\* The prompt on screen is the open question, when any is, until the session quits.
<1>3. leaving = "no" /\ Shown # 0 =>
          asking # 0 /\ reply[asking] = "none" /\ Asks(asking) /\ Shown = asking
  BY DEF OneQuestion, Asks, Shown
<1>4. ASSUME NEW k \in {"approval", "attack"}, NEW rowed \in BOOLEAN, Ask(k, rowed)
      PROVE  OneQuestion'
  <2>1. /\ asking = 0 /\ asked < MaxPrompts
        /\ asked' = asked + 1 /\ asking' = asked + 1
        /\ kind' = [kind EXCEPT ![asked + 1] = k]
        /\ approvals' = (IF k = "approval" THEN Append(approvals, asked + 1) ELSE approvals)
        /\ attacks' = (IF k = "attack" THEN Append(attacks, asked + 1) ELSE attacks)
        /\ UNCHANGED <<reply, leaving>>
    BY <1>4 DEF Ask
  <2>2. asked + 1 \in Prompts
    BY <1>1, <2>1 DEF Prompts
  <2>3. kind'[asked + 1] = k /\ reply'[asked + 1] = "none"
    BY <1>1, <2>1, <2>2 DEF TypeOK, OneQuestion
  <2>4. \A c \in Prompts : c > asked' => reply'[c] = "none"
    BY <1>1, <2>1 DEF OneQuestion, Prompts
  <2>5. leaving' = "no" => Asks(asking)'
    <3>1. leaving = "no" => approvals = <<>> /\ attacks = <<>>
      BY <2>1 DEF OneQuestion
    <3>2. Append(<<>>, asked + 1) = <<asked + 1>>
      OBVIOUS
    <3>3. QED
      BY <2>1, <2>3, <3>1, <3>2 DEF Asks
  <2>6. QED
    BY <1>1, <2>1, <2>3, <2>4, <2>5 DEF OneQuestion
<1>5. ASSUME NEW keys \in Chunks, AnswerApproval(keys)
      PROVE  OneQuestion'
  <2>1. /\ Shown # 0 /\ kind[Shown] = "approval" /\ reply' = Settled(Shown, keys[1])
        /\ approvals' = Sliced(approvals, Len(keys))
        /\ UNCHANGED <<asked, asking, kind, attacks, leaving>>
    BY <1>5, AnswerApprovalWrites
  <2>2. /\ Settled(Shown, keys[1])[Shown] # "none"
        /\ \A d \in Prompts \ {Shown} : Settled(Shown, keys[1])[d] = reply[d]
        /\ Shown <= asked
    BY <2>1, ShownIsAPrompt, ChunkOfKeys, SettledType
  <2>3. \A c \in Prompts : c > asked' => reply'[c] = "none"
    BY <1>1, <2>1, <2>2 DEF OneQuestion, Prompts
  <2>4. leaving = "no" => approvals' = <<>> /\ attacks' = <<>>
    <3>1. Sliced(<<Shown>>, Len(keys)) = <<>>
      <4>1. Len(<<Shown>>) = 1 /\ Len(keys) + 1 \in Int /\ 1 < Len(keys) + 1
        BY ChunkOfKeys
      <4>2. QED
        BY <4>1, SubSeqEmpty DEF Sliced
    <3>2. leaving = "no" => approvals = <<Shown>> /\ attacks = <<>>
      BY <1>3, <2>1 DEF Asks
    <3>3. QED
      BY <2>1, <3>1, <3>2
  <2>5. QED
    BY <1>3, <2>1, <2>2, <2>3, <2>4 DEF OneQuestion
<1>6. ASSUME NEW answer \in {"run", "stop"}, NEW keys \in 1 .. MaxKeys,
             AnswerAttack(answer, keys)
      PROVE  OneQuestion'
  <2>1. /\ Shown # 0 /\ kind[Shown] = "attack" /\ reply' = Settled(Shown, answer)
        /\ attacks' = Sliced(attacks, keys)
        /\ UNCHANGED <<asked, asking, kind, approvals, leaving>>
    BY <1>6 DEF AnswerAttack
  <2>2. /\ Settled(Shown, answer)[Shown] # "none"
        /\ \A d \in Prompts \ {Shown} : Settled(Shown, answer)[d] = reply[d]
        /\ Shown <= asked
    BY <2>1, ShownIsAPrompt, SettledType
  <2>3. \A c \in Prompts : c > asked' => reply'[c] = "none"
    BY <1>1, <2>1, <2>2 DEF OneQuestion, Prompts
  <2>4. leaving = "no" => approvals' = <<>> /\ attacks' = <<>>
    BY <1>3, <2>1, SubSeqEmpty DEF Asks, Sliced
  <2>5. QED
    BY <1>3, <2>1, <2>2, <2>3, <2>4 DEF OneQuestion
<1>7. CASE GoOn
  BY <1>7 DEF GoOn, prompts, OneQuestion
<1>8. CASE Quit
  <2>1. /\ leaving' = "cleaning" /\ asked' = asked
        /\ reply' = (IF asking = 0 THEN reply ELSE Settled(asking, "teardown"))
    BY <1>8 DEF Quit
  <2>2. asking # 0 => \A d \in Prompts \ {asking} : Settled(asking, "teardown")[d] = reply[d]
    BY <1>2, SettledType
  <2>3. QED
    BY <1>1, <1>2, <2>1, <2>2 DEF OneQuestion, Prompts
<1>9. CASE Leave
  BY <1>9 DEF Leave, bridge, prompts, OneQuestion
<1>10. CASE UNCHANGED <<bridge, prompts, leaving>>
  BY <1>10 DEF bridge, prompts, OneQuestion, Asks
<1>11. CASE \/ Submit \/ PumpEvent \/ EmitOutput \/ EndStream
            \/ Fold \/ SleepOrEnd \/ Unsubscribe \/ CommitTurn
            \/ \E r \in recaps : RecapArrives(r)
            \/ Clear \/ EndWork \/ FinishResume
            \/ \E w \in {"compacting", "resuming"} : StartWork(w)
  BY <1>10, <1>11 DEF Submit, PumpEvent, EmitOutput, EndStream, Fold, SleepOrEnd, Unsubscribe,
                      CommitTurn, RecapArrives, Clear, EndWork, FinishResume, StartWork
<1>12. CASE UNCHANGED vars
  BY <1>10, <1>12 DEF vars
<1>13. QED
  BY <1>4, <1>5, <1>6, <1>7, <1>8, <1>9, <1>11, <1>12 DEF Next, Happens, Advance

LEMMA AwaitedStep ==
    ASSUME TypeOK, OneQuestion, Awaited, [Next]_vars
    PROVE  Awaited'
<1> USE BoundsAreNumbers
<1>1. asked \in Nat /\ asking \in 0 .. asked /\ awaiting \subseteq 1 .. asked
  BY DEF TypeOK
<1>2. asking # 0 => asking \in Prompts
  BY DEF TypeOK, Prompts
<1>3. ASSUME NEW k \in {"approval", "attack"}, NEW rowed \in BOOLEAN, Ask(k, rowed)
      PROVE  Awaited'
  <2>1. /\ asking = 0 /\ asked < MaxPrompts /\ asking' = asked + 1
        /\ kind' = [kind EXCEPT ![asked + 1] = k] /\ reply' = reply
        /\ awaiting' = (IF k = "approval" THEN awaiting \cup {asked + 1} ELSE awaiting)
    BY <1>3 DEF Ask
  <2>2. awaiting = {}
    BY <1>1, <2>1 DEF Awaited
  <2>3. asked + 1 \in Prompts
    BY <1>1, <2>1 DEF Prompts
  <2>4. kind'[asked + 1] = k /\ reply'[asked + 1] = "none"
    BY <1>1, <2>1, <2>3 DEF TypeOK, OneQuestion
  <2>5. QED
    BY <2>1, <2>2, <2>4 DEF Awaited
<1>4. ASSUME NEW keys \in Chunks, AnswerApproval(keys)
      PROVE  Awaited'
  <2>1. /\ Shown \in Prompts /\ reply' = Settled(Shown, keys[1]) /\ keys[1] \in Decisions
        /\ UNCHANGED <<asking, kind, awaiting>>
    BY <1>4, AnswerApprovalWrites, ShownIsAPrompt, ChunkOfKeys
  <2>2. keys[1] # "teardown"
    BY <2>1, TuiAssumption
  <2>3. \A c \in Prompts : reply[c] # "teardown" => reply'[c] # "teardown"
    BY <2>1, <2>2 DEF Settled, TypeOK
  <2>4. QED
    BY <1>1, <1>2, <2>1, <2>3 DEF Awaited
<1>5. ASSUME NEW answer \in {"run", "stop"}, NEW keys \in 1 .. MaxKeys,
             AnswerAttack(answer, keys)
      PROVE  Awaited'
  <2>1. /\ Shown \in Prompts /\ reply' = Settled(Shown, answer)
        /\ UNCHANGED <<asking, kind, awaiting>>
    BY <1>5, ShownIsAPrompt DEF AnswerAttack
  <2>2. \A c \in Prompts : reply[c] # "teardown" => reply'[c] # "teardown"
    BY <2>1 DEF Settled, TypeOK
  <2>3. QED
    BY <1>1, <1>2, <2>1, <2>2 DEF Awaited
<1>6. CASE GoOn
  <2>1. /\ awaiting' = IF kind[asking] = "approval" /\ reply[asking] # "teardown"
                      THEN awaiting \ {asking} ELSE awaiting
        /\ UNCHANGED <<kind, reply>>
    BY <1>6 DEF GoOn
  <2>2. awaiting' = {}
    BY <2>1 DEF Awaited
  <2>3. QED
    BY <2>2 DEF Awaited
<1>7. CASE Quit
  BY <1>7 DEF Quit, Awaited
<1>8. CASE UNCHANGED bridge
  BY <1>8 DEF bridge, Awaited
<1>9. CASE \/ Submit \/ PumpEvent \/ EmitOutput \/ EndStream \/ Leave
           \/ Fold \/ SleepOrEnd \/ Unsubscribe \/ CommitTurn
           \/ \E r \in recaps : RecapArrives(r)
           \/ Clear \/ EndWork \/ FinishResume
           \/ \E w \in {"compacting", "resuming"} : StartWork(w)
  BY <1>8, <1>9 DEF Submit, PumpEvent, EmitOutput, EndStream, Leave, Fold, SleepOrEnd,
                    Unsubscribe, CommitTurn, RecapArrives, Clear, EndWork, FinishResume,
                    StartWork
<1>10. CASE UNCHANGED vars
  BY <1>8, <1>10 DEF vars
<1>11. QED
  BY <1>3, <1>4, <1>5, <1>6, <1>7, <1>9, <1>10 DEF Next, Happens, Advance

\* While nobody quits, the question the run waits on is the one with the keyboard
\* (App.tsx: approvalQueue, attackQueue and their slice(1)), and an outcome is awaited of
\* no other (approvalBridges.ts: awaitingOutcome).
THEOREM QuestionsStayOnScreen == Spec => []PromptsStayAnswerable
<1>1. Init => OneQuestion /\ Awaited
  BY QuestionInit DEF Init, Awaited
<1>2. TypeOK /\ OneQuestion /\ Awaited /\ [Next]_vars => (OneQuestion /\ Awaited)'
  BY QuestionStep, AwaitedStep
<1>3. TypeOK /\ OneQuestion /\ Awaited => PromptsStayAnswerable
  BY DEF TypeOK, OneQuestion, Awaited, Asks, PromptsStayAnswerable, Shown
<1>4. QED
  BY <1>1, <1>2, <1>3, TypesHold, PTL DEF Spec

-----------------------------------------------------------------------------
(* What is produced, and what is folded. *)

LEMMA OutputInit ==
    ASSUME Init
    PROVE  Numbered /\ (reader = "off" => queue = <<>>)
BY DEF Init, Numbered

LEMMA OutputStep ==
    ASSUME TypeOK, Reading, Numbered, reader = "off" => queue = <<>>, [Next]_vars
    PROVE  Numbered' /\ (reader' = "off" => queue' = <<>>)
<1> USE BoundsAreNumbers
<1>1. /\ live \in Seq(1 .. MaxItems) /\ queue \in Seq(1 .. MaxItems)
      /\ made \in Nat /\ Len(live) \in Nat /\ Len(queue) \in Nat
  BY LenProperties DEF TypeOK
<1>1a. made \in Nat /\ Len(live) \in Nat /\ Len(queue) \in Nat /\ Len(live) + Len(queue) = made
  BY <1>1 DEF Numbered
<1>2. CASE Submit
  BY <1>2 DEF Submit, Numbered
<1>3. CASE PumpEvent \/ EmitOutput
  <2>1. /\ made < MaxItems /\ made' = made + 1 /\ queue' = Append(queue, made + 1)
        /\ live' = live /\ reader' = Woken /\ reader # "off"
    BY <1>3 DEF PumpEvent, EmitOutput, Reading
  <2>2. made + 1 \in 1 .. MaxItems
    BY <1>1, <2>1
  <2>3. /\ Len(queue') = Len(queue) + 1 /\ queue'[Len(queue) + 1] = made + 1
        /\ \A i \in 1 .. Len(queue) : queue'[i] = queue[i]
    BY <1>1, <2>1, <2>2, AppendProperties
  <2>4. QED
    <3>1. \A i \in 1 .. Len(queue') : i \in 1 .. Len(queue) \/ i = Len(queue) + 1
      BY <1>1, <2>3
    <3>2. \A i \in 1 .. Len(queue') : queue'[i] = Len(live') + i
      <4> SUFFICES ASSUME NEW i \in 1 .. Len(queue')
                   PROVE  queue'[i] = Len(live) + i
        BY <2>1
      <4>1. CASE i \in 1 .. Len(queue)
        BY <2>3, <4>1 DEF Numbered
      <4>2. CASE i = Len(queue) + 1
        <5>1. queue'[i] = made + 1
          BY <2>3, <4>2
        <5>2. made + 1 = Len(live) + (Len(queue) + 1)
          BY <1>1a
        <5>3. QED
          BY <4>2, <5>1, <5>2
      <4>3. QED
        BY <3>1, <4>1, <4>2
    <3>3. Len(live') + Len(queue') = made'
      BY <1>1, <2>1, <2>3 DEF Numbered
    <3>4. reader' # "off"
      BY <2>1 DEF Woken
    <3>5. QED
      BY <2>1, <3>2, <3>3, <3>4 DEF Numbered
<1>4. CASE Fold
  <2>1. /\ queue # <<>> /\ live' = Append(live, Head(queue)) /\ queue' = Tail(queue)
        /\ made' = made /\ reader' # "off"
    BY <1>4 DEF Fold
  <2>2. /\ Head(queue) \in 1 .. MaxItems /\ Head(queue) = queue[1] /\ Len(queue) >= 1
        /\ Len(queue') = Len(queue) - 1
        /\ \A i \in 1 .. Len(queue') : queue'[i] = queue[i + 1]
    BY <1>1, <2>1, HeadTailProperties, EmptySeq
  <2>3. /\ Len(live') = Len(live) + 1 /\ live'[Len(live) + 1] = Head(queue)
        /\ \A i \in 1 .. Len(live) : live'[i] = live[i]
    BY <1>1, <2>1, <2>2, AppendProperties
  <2>4. QED
    <3>1. Head(queue) = Len(live) + 1
      BY <1>1, <2>2 DEF Numbered
    <3>2. \A i \in 1 .. Len(live') : i \in 1 .. Len(live) \/ i = Len(live) + 1
      BY <1>1, <2>3
    <3>3. \A i \in 1 .. Len(live') : live'[i] = i
      BY <2>3, <3>1, <3>2 DEF Numbered
    <3>4. \A i \in 1 .. Len(queue') : i + 1 \in 1 .. Len(queue)
      BY <1>1, <2>2
    <3>5. \A i \in 1 .. Len(queue') : queue'[i] = Len(live') + i
      <4> SUFFICES ASSUME NEW i \in 1 .. Len(queue')
                   PROVE  queue'[i] = Len(live') + i
        OBVIOUS
      <4>1. queue'[i] = queue[i + 1] /\ queue[i + 1] = Len(live) + (i + 1)
        BY <2>2, <3>4 DEF Numbered
      <4>2. i \in Nat
        BY <1>1, <2>2
      <4>3. QED
        BY <1>1, <2>3, <4>1, <4>2
    <3>6. Len(live') + Len(queue') = made'
      <4>1. (Len(live) + 1) + (Len(queue) - 1) = made
        BY <1>1a
      <4>2. QED
        BY <2>1, <2>2, <2>3, <4>1
    <3>7. QED
      BY <2>1, <3>3, <3>5, <3>6 DEF Numbered
<1>5. CASE CommitTurn
  BY <1>5 DEF CommitTurn, Numbered
<1>6. CASE EndStream \/ SleepOrEnd \/ Unsubscribe
  BY <1>6 DEF EndStream, SleepOrEnd, Unsubscribe, Woken, Numbered, Reading
<1>7. CASE UNCHANGED stream
  BY <1>7 DEF stream, Numbered
<1>8. CASE \/ GoOn \/ Clear \/ EndWork \/ FinishResume \/ Quit \/ Leave
           \/ \E r \in recaps : RecapArrives(r)
           \/ \E k \in {"approval", "attack"}, rowed \in BOOLEAN : Ask(k, rowed)
           \/ \E keys \in Chunks : AnswerApproval(keys)
           \/ \E answer \in {"run", "stop"}, keys \in 1 .. MaxKeys : AnswerAttack(answer, keys)
           \/ \E w \in {"compacting", "resuming"} : StartWork(w)
  BY <1>7, <1>8 DEF GoOn, Clear, EndWork, FinishResume, Quit, Leave, RecapArrives, Ask,
                    AnswerApproval, AnswerAttack, StartWork
<1>9. CASE UNCHANGED vars
  BY <1>7, <1>9 DEF vars
<1>10. QED
  BY <1>2, <1>3, <1>4, <1>5, <1>6, <1>8, <1>9 DEF Next, Happens, Advance

\* Numbered items are the sequence of their numbers.
LEMMA NumberedIsWhole ==
    ASSUME TypeOK, Numbered
    PROVE  live \o queue = [i \in 1 .. made |-> i]
<1> USE BoundsAreNumbers
<1>1. /\ live \in Seq(Nat) /\ queue \in Seq(Nat) /\ made \in Nat
      /\ Len(live) \in Nat /\ Len(queue) \in Nat
  <2>1. 1 .. MaxItems \subseteq Nat
    OBVIOUS
  <2>2. live \in Seq(1 .. MaxItems) /\ queue \in Seq(1 .. MaxItems) /\ made \in Nat
    BY DEF TypeOK
  <2>3. QED
    BY <2>1, <2>2, SeqMonotonic, LenProperties
<1> DEFINE all == [i \in 1 .. made |-> i]
<1>2. all \in Seq(Nat) /\ Len(all) = made /\ \A i \in 1 .. made : all[i] = i
  BY <1>1
<1>3. /\ live \o queue \in Seq(Nat) /\ Len(live \o queue) = made
      /\ \A i \in 1 .. made : (live \o queue)[i] = i
  BY <1>1, ConcatProperties DEF Numbered
<1> HIDE DEF all
<1>4. live \o queue = all
  BY <1>2, <1>3, SeqEqual
<1>5. QED
  BY <1>4 DEF all

\* What a turn produces while it listens is folded into it, whole and in order, and a turn
\* that is in leaves nothing in the queue (mergeToolOutputIntoEvents).
THEOREM OutputStaysWhole == Spec => []OutputIsWhole
<1>1. Init => Numbered /\ (reader = "off" => queue = <<>>)
  BY OutputInit
<1>2. TypeOK /\ Reading /\ Numbered /\ (reader = "off" => queue = <<>>) /\ [Next]_vars
          => (Numbered /\ (reader = "off" => queue = <<>>))'
  BY OutputStep
<1>3. TypeOK /\ Numbered /\ (reader = "off" => queue = <<>>) => OutputIsWhole
  BY NumberedIsWhole DEF OutputIsWhole
<1>4. QED
  BY <1>1, <1>2, <1>3, TypesHold, PTL DEF Spec

-----------------------------------------------------------------------------
(* What is told, and when. *)

InOrder(s) ==
    \A i, j \in 1 .. Len(s) :
        i < j =>
            /\ s[j].kind # "restored"
            /\ s[i].kind = "turn" => s[i].turn <= s[j].turn
            /\ s[j].kind = "turn" /\ s[i].kind \in {"notice", "recap"} => s[i].turn < s[j].turn

\* Items of the last turn may be told after anything, a turn only after what was told of
\* turns before it.
LEMMA ToldNext ==
    ASSUME NEW a \in Seq(Item), NEW b \in Seq(Item), NEW n \in Nat, InOrder(a), InOrder(b),
           \A i \in 1 .. Len(a) : a[i].turn <= n,
           \A i \in 1 .. Len(b) : b[i].turn = n /\ b[i].kind # "restored",
           \A i \in 1 .. Len(a), j \in 1 .. Len(b) :
               b[j].kind = "turn" /\ a[i].kind \in {"notice", "recap"} => a[i].turn < n
    PROVE  /\ a \o b \in Seq(Item) /\ InOrder(a \o b)
           /\ \A i \in 1 .. Len(a \o b) : (a \o b)[i].turn <= n
<1>1. Len(a) \in Nat /\ Len(b) \in Nat
  BY LenProperties
<1>2. /\ a \o b \in Seq(Item) /\ Len(a \o b) = Len(a) + Len(b)
      /\ \A i \in 1 .. Len(a) + Len(b) :
            (a \o b)[i] = IF i <= Len(a) THEN a[i] ELSE b[i - Len(a)]
  BY ConcatProperties
<1>3. ASSUME NEW i \in 1 .. Len(a \o b)
      PROVE  \/ i \in 1 .. Len(a) /\ (a \o b)[i] = a[i]
             \/ i > Len(a) /\ i - Len(a) \in 1 .. Len(b) /\ (a \o b)[i] = b[i - Len(a)]
  BY <1>1, <1>2
<1>4. \A i \in 1 .. Len(a \o b) : (a \o b)[i].turn <= n
  BY <1>3
<1>5. ASSUME NEW i \in 1 .. Len(a \o b), NEW j \in 1 .. Len(a \o b), i < j
      PROVE  /\ (a \o b)[j].kind # "restored"
             /\ (a \o b)[i].kind = "turn" => (a \o b)[i].turn <= (a \o b)[j].turn
             /\ (a \o b)[j].kind = "turn" /\ (a \o b)[i].kind \in {"notice", "recap"}
                    => (a \o b)[i].turn < (a \o b)[j].turn
  <2>1. CASE i <= Len(a) /\ j <= Len(a)
    BY <1>1, <1>3, <1>5, <2>1 DEF InOrder
  <2>2. CASE i <= Len(a) /\ j > Len(a)
    BY <1>1, <1>3, <1>5, <2>2
  <2>3. CASE i > Len(a)
    <3>1. /\ i - Len(a) \in 1 .. Len(b) /\ j - Len(a) \in 1 .. Len(b)
          /\ i - Len(a) < j - Len(a)
          /\ (a \o b)[i] = b[i - Len(a)] /\ (a \o b)[j] = b[j - Len(a)]
      BY <1>1, <1>2, <1>3, <1>5, <2>3
    <3>2. QED
      BY <3>1 DEF InOrder
  <2>4. QED
    BY <1>1, <1>2, <2>1, <2>2, <2>3
<1>6. InOrder(a \o b)
  BY <1>5 DEF InOrder
<1>7. QED
  BY <1>2, <1>3, <1>4, <1>6

\* Notices of one turn are in order, and so is a single item.
LEMMA NoticesInOrder ==
    ASSUME NEW s, NEW n, \A i \in 1 .. Len(s) : s[i] = [kind |-> "notice", turn |-> n]
    PROVE  InOrder(s)
BY DEF InOrder

LEMMA OneInOrder ==
    ASSUME NEW s, Len(s) = 1
    PROVE  InOrder(s)
BY DEF InOrder

ToldInv == Told /\ TurnsReadInOrder

LEMMA ToldMeans ==
    /\ TurnsReadInOrder <=> InOrder(transcript)
    /\ TurnsReadInOrder' <=> InOrder(transcript')
BY DEF TurnsReadInOrder, InOrder

LEMMA ToldInit ==
    ASSUME Init
    PROVE  ToldInv
BY DEF Init, ToldInv, Told, TurnsReadInOrder

\* Notices, while a turn runs or not.
LEMMA NoticesTold ==
    ASSUME TypeOK, ToldInv, NEW n \in Nat, Notices(n),
           UNCHANGED <<running, turn, epoch, recaps>>
    PROVE  ToldInv'
<1>1. PICK items \in Seq(Item) :
        /\ \A i \in 1 .. Len(items) : items[i] = [kind |-> "notice", turn |-> turn]
        /\ IF running THEN deferred' = deferred \o items /\ transcript' = transcript
           ELSE transcript' = transcript \o items /\ deferred' = deferred
  BY NoticesWrite
<1>2. transcript \in Seq(Item) /\ deferred \in Seq(Item) /\ turn \in Nat
  BY BoundsAreNumbers DEF TypeOK
<1>3. CASE running
  <2>1. \A i \in 1 .. Len(deferred') : deferred'[i] = [kind |-> "notice", turn |-> turn]
    <3>1. Len(deferred) \in Nat /\ Len(items) \in Nat
      BY <1>2, LenProperties
    <3>2. /\ Len(deferred') = Len(deferred) + Len(items)
          /\ \A i \in 1 .. Len(deferred) + Len(items) :
                deferred'[i] = IF i <= Len(deferred) THEN deferred[i]
                               ELSE items[i - Len(deferred)]
      BY <1>1, <1>2, <1>3, ConcatProperties
    <3>3. \A i \in 1 .. Len(deferred) + Len(items) :
              i \in 1 .. Len(deferred) \/ (i > Len(deferred) /\ i - Len(deferred) \in 1 .. Len(items))
      BY <3>1
    <3>4. \A i \in 1 .. Len(deferred) : deferred[i] = [kind |-> "notice", turn |-> turn]
      BY DEF ToldInv, Told
    <3>5. ASSUME NEW i \in 1 .. Len(deferred) + Len(items)
          PROVE  deferred'[i] = [kind |-> "notice", turn |-> turn]
      <4>1. CASE i \in 1 .. Len(deferred)
        <5>1. i <= Len(deferred)
          BY <3>1, <4>1
        <5>2. QED
          BY <3>2, <3>4, <4>1, <5>1
      <4>2. CASE i > Len(deferred) /\ i - Len(deferred) \in 1 .. Len(items)
        <5>1. ~(i <= Len(deferred))
          BY <3>1, <4>2
        <5>2. QED
          BY <1>1, <3>2, <4>2, <5>1
      <4>3. QED
        BY <3>3, <4>1, <4>2
    <3>6. QED
      BY <3>2, <3>5
  <2>2. QED
    BY <1>1, <1>3, <2>1 DEF ToldInv, Told, TurnsReadInOrder
<1>4. CASE ~running
  <2>1. InOrder(transcript) /\ InOrder(items)
    BY <1>1, NoticesInOrder, ToldMeans DEF ToldInv
  <2>2. \A i \in 1 .. Len(items) :
            items[i].turn = turn /\ items[i].kind # "restored" /\ items[i].kind # "turn"
    BY <1>1
  <2>3. /\ InOrder(transcript')
        /\ \A i \in 1 .. Len(transcript') : transcript'[i].turn <= turn
    <3>1. \A i \in 1 .. Len(transcript) : transcript[i].turn <= turn
      BY DEF ToldInv, Told
    <3>2. transcript' = transcript \o items
      BY <1>1, <1>4
    <3>3. QED
      BY <1>2, <2>1, <2>2, <3>1, <3>2, ToldNext
  <2>4. QED
    BY <1>1, <1>4, <2>3, ToldMeans DEF ToldInv, Told
<1>5. QED
  BY <1>3, <1>4

LEMMA CommitTold ==
    ASSUME TypeOK, Reading, ToldInv, CommitTurn
    PROVE  ToldInv'
<1>1. /\ reader = "closing" /\ transcript' = (transcript \o Entry("turn", turn)) \o deferred
      /\ deferred' = <<>> /\ recaps' = recaps \cup {<<turn, epoch>>}
      /\ running' = FALSE /\ UNCHANGED <<turn, epoch>>
  BY DEF CommitTurn
<1>2. /\ running /\ transcript \in Seq(Item) /\ deferred \in Seq(Item)
      /\ turn \in 0 .. MaxTurns /\ turn \in Nat /\ epoch \in Nat
  BY <1>1, BoundsAreNumbers DEF TypeOK, Reading
<1> DEFINE entry == Entry("turn", turn)
<1>3. /\ entry \in Seq(Item) /\ Len(entry) = 1
      /\ entry[1] = [kind |-> "turn", turn |-> turn]
  BY <1>2, EntryIsOne
<1> HIDE DEF entry
<1>4. \A i \in 1 .. Len(entry) : entry[i].turn = turn /\ entry[i].kind # "restored"
  BY <1>3
<1>5. /\ InOrder(transcript) /\ InOrder(entry)
      /\ \A i \in 1 .. Len(transcript) :
            /\ transcript[i].turn <= turn
            /\ transcript[i].kind \in {"notice", "recap"} => transcript[i].turn < turn
  BY <1>2, <1>3, OneInOrder, ToldMeans DEF ToldInv, Told
<1>6. /\ transcript \o entry \in Seq(Item) /\ InOrder(transcript \o entry)
      /\ \A i \in 1 .. Len(transcript \o entry) : (transcript \o entry)[i].turn <= turn
  BY <1>2, <1>3, <1>4, <1>5, ToldNext
<1>7. \A i \in 1 .. Len(deferred) : deferred[i] = [kind |-> "notice", turn |-> turn]
  BY DEF ToldInv, Told
<1>8. /\ InOrder(deferred)
      /\ \A i \in 1 .. Len(deferred) :
            /\ deferred[i].turn = turn /\ deferred[i].kind # "restored"
            /\ deferred[i].kind # "turn"
  BY <1>7, NoticesInOrder
<1>9. /\ InOrder(transcript')
      /\ \A i \in 1 .. Len(transcript') : transcript'[i].turn <= turn
  <2> DEFINE before == transcript \o entry
  <2>1. before \in Seq(Item) /\ InOrder(before)
        /\ \A i \in 1 .. Len(before) : before[i].turn <= turn
    BY <1>6
  <2>2. transcript' = before \o deferred
    BY <1>1 DEF entry
  <2> HIDE DEF before
  <2>3. QED
    BY <1>2, <1>8, <2>1, <2>2, ToldNext
<1>10. \A r \in recaps' : r[2] <= epoch /\ (r[2] = epoch => r[1] = turn)
  BY <1>1, <1>2 DEF ToldInv, Told
<1>11. QED
  BY <1>1, <1>9, <1>10, ToldMeans DEF ToldInv, Told

LEMMA RecapTold ==
    ASSUME TypeOK, ToldInv, NEW r \in recaps, RecapArrives(r)
    PROVE  ToldInv'
<1>1. /\ recaps' = recaps \ {r}
      /\ transcript' = (IF r[2] = epoch THEN transcript \o Entry("recap", r[1]) ELSE transcript)
      /\ UNCHANGED <<running, turn, deferred, epoch>>
  BY DEF RecapArrives, app
<1>2. transcript \in Seq(Item) /\ turn \in 0 .. MaxTurns /\ turn \in Nat
  BY BoundsAreNumbers DEF TypeOK
<1>3. CASE r[2] # epoch
  BY <1>1, <1>3 DEF ToldInv, Told, TurnsReadInOrder
<1>4. CASE r[2] = epoch
  <2>1. r[1] = turn /\ ~running
    BY <1>4 DEF ToldInv, Told
  <2> DEFINE entry == Entry("recap", turn)
  <2>2. /\ entry \in Seq(Item) /\ Len(entry) = 1
        /\ entry[1] = [kind |-> "recap", turn |-> turn]
    BY <1>2, EntryIsOne
  <2>3. transcript' = transcript \o entry
    BY <1>1, <1>4, <2>1
  <2> HIDE DEF entry
  <2>4. /\ InOrder(entry) /\ InOrder(transcript)
        /\ \A i \in 1 .. Len(entry) :
              entry[i].turn = turn /\ entry[i].kind # "restored" /\ entry[i].kind # "turn"
    BY <2>2, OneInOrder, ToldMeans DEF ToldInv
  <2>5. /\ InOrder(transcript')
        /\ \A i \in 1 .. Len(transcript') : transcript'[i].turn <= turn
    BY <1>2, <2>2, <2>3, <2>4, ToldNext DEF ToldInv, Told
  <2>6. QED
    BY <1>1, <2>1, <2>5, ToldMeans DEF ToldInv, Told
<1>5. QED
  BY <1>3, <1>4

LEMMA BannerTold ==
    ASSUME TypeOK, ToldInv, NEW answer \in {"run", "stop"}, NEW keys \in 1 .. MaxKeys,
           AnswerAttack(answer, keys)
    PROVE  ToldInv'
<1>1. /\ transcript' = (IF answer = "run" THEN transcript \o Entry("banner", turn)
                        ELSE transcript)
      /\ UNCHANGED <<running, turn, deferred, epoch, recaps>>
  BY DEF AnswerAttack, app
<1>2. transcript \in Seq(Item) /\ turn \in 0 .. MaxTurns /\ turn \in Nat
  BY BoundsAreNumbers DEF TypeOK
<1>3. CASE answer # "run"
  BY <1>1, <1>3 DEF ToldInv, Told, TurnsReadInOrder
<1>4. CASE answer = "run"
  <2> DEFINE entry == Entry("banner", turn)
  <2>1. /\ entry \in Seq(Item) /\ Len(entry) = 1
        /\ entry[1] = [kind |-> "banner", turn |-> turn]
    BY <1>2, EntryIsOne
  <2>2. transcript' = transcript \o entry
    BY <1>1, <1>4
  <2> HIDE DEF entry
  <2>3. /\ InOrder(entry) /\ InOrder(transcript)
        /\ \A i \in 1 .. Len(entry) : entry[i].turn = turn /\ entry[i].kind = "banner"
    BY <2>1, OneInOrder, ToldMeans DEF ToldInv
  <2>4. /\ InOrder(transcript')
        /\ \A i \in 1 .. Len(transcript') : transcript'[i].turn <= turn
    <3>1. \A i \in 1 .. Len(transcript) : transcript[i].turn <= turn
      BY DEF ToldInv, Told
    <3>2. \A i \in 1 .. Len(entry) :
              entry[i].turn = turn /\ entry[i].kind # "restored" /\ entry[i].kind # "turn"
      BY <2>3
    <3>3. QED
      BY <1>2, <2>1, <2>2, <2>3, <3>1, <3>2, ToldNext
  <2>5. ASSUME running, NEW i \in 1 .. Len(transcript'),
               transcript'[i].kind \in {"turn", "notice", "recap"}
        PROVE  transcript'[i].turn < turn
    <3>1. /\ Len(transcript) \in Nat /\ Len(transcript') = Len(transcript) + 1
          /\ \A k \in 1 .. Len(transcript) + 1 :
                transcript'[k] = IF k <= Len(transcript) THEN transcript[k]
                                 ELSE entry[k - Len(transcript)]
      <4>1. Len(transcript) \in Nat
        BY <1>2, LenProperties
      <4>2. /\ Len(transcript \o entry) = Len(transcript) + Len(entry)
            /\ \A k \in 1 .. Len(transcript) + Len(entry) :
                  (transcript \o entry)[k] = IF k <= Len(transcript) THEN transcript[k]
                                             ELSE entry[k - Len(transcript)]
        BY <1>2, <2>1, ConcatProperties
      <4>3. QED
        BY <2>1, <2>2, <4>1, <4>2
    <3>2. CASE i <= Len(transcript)
      BY <2>5, <3>1, <3>2 DEF ToldInv, Told
    <3>3. CASE ~(i <= Len(transcript))
      <4>1. i - Len(transcript) = 1
        BY <3>1, <3>3
      <4>2. transcript'[i] = entry[1]
        BY <3>1, <3>3, <4>1
      <4>3. QED
        BY <2>1, <2>5, <4>2
    <3>4. QED
      BY <3>2, <3>3
  <2>6. QED
    BY <1>1, <2>4, <2>5, ToldMeans DEF ToldInv, Told
<1>5. QED
  BY <1>3, <1>4

LEMMA ToldStep ==
    ASSUME TypeOK, Reading, ToldInv, [Next]_vars
    PROVE  ToldInv'
<1> USE BoundsAreNumbers
<1>1. turn \in Nat /\ epoch \in Nat
  BY DEF TypeOK
<1>2. CASE Submit
  <2>1. /\ turn' = turn + 1 /\ epoch' = epoch + 1 /\ running' = TRUE /\ ~running
        /\ UNCHANGED <<transcript, deferred, recaps>>
    BY <1>2 DEF Submit
  <2>2. \A i \in 1 .. Len(transcript) : transcript[i].turn < turn'
    <3>1. transcript \in Seq(Item) /\ DOMAIN transcript = 1 .. Len(transcript)
      BY LenProperties DEF TypeOK
    <3>2. \A i \in 1 .. Len(transcript) : transcript[i].turn \in Nat
      <4>1. \A i \in 1 .. Len(transcript) : transcript[i] \in Item
        BY <3>1, ElementOfSeq
      <4>2. QED
        BY <4>1 DEF Item
    <3>3. QED
      BY <1>1, <2>1, <3>2 DEF ToldInv, Told
  <2>3. \A r \in recaps : r[2] \in Nat
    BY DEF TypeOK
  <2>4. deferred = <<>>
    BY <2>1 DEF ToldInv, Told
  <2>5. \A r \in recaps : r[2] <= epoch' /\ r[2] # epoch'
    BY <1>1, <2>1, <2>3 DEF ToldInv, Told
  <2>6. \A i \in 1 .. Len(transcript) : transcript[i].turn <= turn'
    <3>1. \A i \in 1 .. Len(transcript) : transcript[i].turn \in Nat
      <4>1. \A i \in 1 .. Len(transcript) : transcript[i] \in Item
        BY ElementOfSeq DEF TypeOK
      <4>2. QED
        BY <4>1 DEF Item
    <3>2. QED
      BY <1>1, <2>1, <3>1 DEF ToldInv, Told
  <2>7. TurnsReadInOrder'
    BY <2>1 DEF ToldInv, TurnsReadInOrder
  <2>8. \A i \in 1 .. Len(deferred') : deferred'[i] = [kind |-> "notice", turn |-> turn']
    BY <2>1, <2>4
  <2>9. QED
    BY <2>1, <2>2, <2>4, <2>5, <2>6, <2>7, <2>8 DEF ToldInv, Told
<1>3. CASE Clear \/ Leave
  <2>1. /\ epoch' = epoch + 1 /\ transcript' \in {transcript, <<>>}
        /\ UNCHANGED <<running, turn, deferred, recaps>>
    BY <1>3 DEF Clear, Leave, app
  <2>2. \A r \in recaps : r[2] \in Nat
    BY DEF TypeOK
  <2>3. QED
    BY <1>1, <2>1, <2>2 DEF ToldInv, Told, TurnsReadInOrder
<1>4. CASE FinishResume
  <2>1. /\ transcript' = Entry("restored", 0)
        /\ UNCHANGED <<running, turn, deferred, epoch, recaps>>
    BY <1>4 DEF FinishResume
  <2>2. Len(transcript') = 1 /\ transcript'[1] = [kind |-> "restored", turn |-> 0]
    BY <2>1, EntryIsOne
  <2>3. InOrder(transcript')
    BY <2>2, OneInOrder
  <2>4. QED
    BY <1>1, <2>1, <2>2, <2>3, ToldMeans DEF ToldInv, Told
<1>5. CASE CommitTurn
  BY <1>5, CommitTold
<1>6. CASE \E r \in recaps : RecapArrives(r)
  BY <1>6, RecapTold
<1>7. CASE \E answer \in {"run", "stop"}, keys \in 1 .. MaxKeys : AnswerAttack(answer, keys)
  BY <1>7, BannerTold
<1>8. CASE GoOn \/ Quit \/ \E keys \in Chunks : AnswerApproval(keys)
  <2>1. \E n \in Nat : Notices(n)
    BY <1>8, AnswerApprovalWrites DEF GoOn, Quit
  <2>2. UNCHANGED <<running, turn, epoch, recaps>>
    BY <1>8, AnswerApprovalWrites DEF GoOn, Quit, app
  <2>3. QED
    BY <2>1, <2>2, NoticesTold
<1>9. CASE UNCHANGED <<running, turn, screen>>
  BY <1>9 DEF screen, ToldInv, Told, TurnsReadInOrder
<1>10. CASE \/ PumpEvent \/ EmitOutput \/ EndStream \/ Fold \/ SleepOrEnd \/ Unsubscribe
            \/ EndWork
            \/ \E k \in {"approval", "attack"}, rowed \in BOOLEAN : Ask(k, rowed)
            \/ \E w \in {"compacting", "resuming"} : StartWork(w)
  BY <1>9, <1>10 DEF PumpEvent, EmitOutput, EndStream, Fold, SleepOrEnd, Unsubscribe, EndWork,
                     Ask, StartWork, app
<1>11. CASE UNCHANGED vars
  BY <1>9, <1>11 DEF vars, app
<1>12. QED
  BY <1>2, <1>3, <1>4, <1>5, <1>6, <1>7, <1>8, <1>10, <1>11 DEF Next, Happens, Advance

-----------------------------------------------------------------------------
(* Recaps, and the turns they are of. *)

\* What a recap of turn t may stand under.
IsHeading(item, t) == item.kind = "restored" \/ item = [kind |-> "turn", turn |-> t]

Headed(s, t) == \E i \in 1 .. Len(s) : IsHeading(s[i], t)

Grounded(s) ==
    \A j \in 1 .. Len(s) : s[j].kind = "recap" =>
        \E i \in 1 .. j - 1 : IsHeading(s[i], s[j].turn)

\* A recap that may still be shown has its turn on screen, or a conversation that was
\* resumed after it.
RecapsInv ==
    /\ Grounded(transcript)
    /\ \A r \in recaps : r[2] = epoch => Headed(transcript, r[1])

LEMMA GroundedMeans ==
    /\ RecapsHaveTheirTurns <=> Grounded(transcript)
    /\ RecapsHaveTheirTurns' <=> Grounded(transcript')
BY DEF RecapsHaveTheirTurns, Grounded, IsHeading

\* What follows a grounded transcript keeps it so, when its recaps have their turns there.
LEMMA GroundedNext ==
    ASSUME NEW a \in Seq(Item), NEW b \in Seq(Item), Grounded(a),
           \A i \in 1 .. Len(b) : b[i].kind = "recap" => Headed(a, b[i].turn)
    PROVE  /\ a \o b \in Seq(Item) /\ Grounded(a \o b)
           /\ \A t : Headed(a, t) \/ Headed(b, t) => Headed(a \o b, t)
<1>1. Len(a) \in Nat /\ Len(b) \in Nat
  BY LenProperties
<1>2. /\ a \o b \in Seq(Item) /\ Len(a \o b) = Len(a) + Len(b)
      /\ \A i \in 1 .. Len(a) + Len(b) :
            (a \o b)[i] = IF i <= Len(a) THEN a[i] ELSE b[i - Len(a)]
  BY ConcatProperties
<1>3. \A i \in 1 .. Len(a) : i \in 1 .. Len(a \o b) /\ (a \o b)[i] = a[i]
  BY <1>1, <1>2
<1>4. \A i \in 1 .. Len(b) :
          /\ Len(a) + i \in 1 .. Len(a \o b)
          /\ (a \o b)[Len(a) + i] = b[i]
  <2> SUFFICES ASSUME NEW i \in 1 .. Len(b)
               PROVE  /\ Len(a) + i \in 1 .. Len(a \o b)
                      /\ (a \o b)[Len(a) + i] = b[i]
    OBVIOUS
  <2>1. /\ Len(a) + i \in 1 .. Len(a) + Len(b) /\ ~(Len(a) + i <= Len(a))
        /\ (Len(a) + i) - Len(a) = i
    BY <1>1
  <2>2. QED
    BY <1>2, <2>1
<1>5. ASSUME NEW j \in 1 .. Len(a \o b), (a \o b)[j].kind = "recap"
      PROVE  \E i \in 1 .. j - 1 : IsHeading((a \o b)[i], (a \o b)[j].turn)
  <2>1. CASE j <= Len(a)
    <3>1. j \in 1 .. Len(a) /\ (a \o b)[j] = a[j]
      BY <1>1, <1>2, <1>3, <2>1
    <3>2. PICK i \in 1 .. j - 1 : IsHeading(a[i], a[j].turn)
      BY <1>5, <3>1 DEF Grounded
    <3>3. i \in 1 .. Len(a)
      BY <1>1, <3>1
    <3>4. QED
      BY <1>3, <3>1, <3>2, <3>3
  <2>2. CASE j > Len(a)
    <3>1. j - Len(a) \in 1 .. Len(b) /\ (a \o b)[j] = b[j - Len(a)]
      BY <1>1, <1>2, <2>2
    <3>2. PICK i \in 1 .. Len(a) : IsHeading(a[i], b[j - Len(a)].turn)
      BY <1>5, <3>1 DEF Headed
    <3>3. i \in 1 .. j - 1
      BY <1>1, <1>2, <2>2
    <3>4. QED
      BY <1>3, <3>1, <3>2, <3>3
  <2>3. QED
    BY <1>1, <1>2, <2>1, <2>2
<1>6. ASSUME NEW t, Headed(a, t) \/ Headed(b, t)
      PROVE  Headed(a \o b, t)
  BY <1>3, <1>4, <1>6 DEF Headed
<1>7. QED
  BY <1>2, <1>5, <1>6 DEF Grounded

LEMMA RecapsInit ==
    ASSUME Init
    PROVE  RecapsInv
BY DEF Init, RecapsInv, Grounded

\* Notices, and nothing else that is told.
LEMMA NoticesRecap ==
    ASSUME TypeOK, RecapsInv, NEW n \in Nat, Notices(n), UNCHANGED <<epoch, recaps>>
    PROVE  RecapsInv'
<1>1. PICK items \in Seq(Item) :
        /\ \A i \in 1 .. Len(items) : items[i] = [kind |-> "notice", turn |-> turn]
        /\ transcript' \in {transcript, transcript \o items}
  BY NoticesWrite
<1>2. transcript \in Seq(Item) /\ \A i \in 1 .. Len(items) : items[i].kind # "recap"
  BY <1>1 DEF TypeOK
<1>3. /\ Grounded(transcript \o items)
      /\ \A t : Headed(transcript, t) => Headed(transcript \o items, t)
  BY <1>2, GroundedNext DEF RecapsInv
<1>4. QED
  BY <1>1, <1>3 DEF RecapsInv

LEMMA CommitRecap ==
    ASSUME TypeOK, Reading, ToldInv, RecapsInv, CommitTurn
    PROVE  RecapsInv'
<1>1. /\ transcript' = (transcript \o Entry("turn", turn)) \o deferred
      /\ recaps' = recaps \cup {<<turn, epoch>>} /\ epoch' = epoch
  BY DEF CommitTurn
<1>2. transcript \in Seq(Item) /\ deferred \in Seq(Item) /\ turn \in 0 .. MaxTurns
  BY DEF TypeOK
<1> DEFINE entry == Entry("turn", turn)
           before == transcript \o entry
<1>3. /\ entry \in Seq(Item) /\ Len(entry) = 1
      /\ entry[1] = [kind |-> "turn", turn |-> turn]
  BY <1>2, EntryIsOne
<1>4. transcript' = before \o deferred
  BY <1>1
<1> HIDE DEF entry
<1>5. Headed(entry, turn) /\ \A i \in 1 .. Len(entry) : entry[i].kind # "recap"
  BY <1>3 DEF Headed, IsHeading
<1>6. /\ before \in Seq(Item) /\ Grounded(before)
      /\ \A t : Headed(transcript, t) \/ Headed(entry, t) => Headed(before, t)
  BY <1>2, <1>3, <1>5, GroundedNext DEF RecapsInv
<1> HIDE DEF before
<1>7. \A i \in 1 .. Len(deferred) : deferred[i].kind # "recap"
  BY DEF ToldInv, Told
<1>8. /\ Grounded(before \o deferred)
      /\ \A t : Headed(before, t) => Headed(before \o deferred, t)
  BY <1>2, <1>6, <1>7, GroundedNext
<1>9. \A r \in recaps' : r[2] = epoch => Headed(transcript', r[1])
  <2>1. \A t : Headed(transcript, t) \/ t = turn => Headed(transcript', t)
    BY <1>4, <1>5, <1>6, <1>8
  <2>2. \A r \in recaps' : r \in recaps \/ r[1] = turn
    BY <1>1
  <2>3. \A r \in recaps : r[2] = epoch => Headed(transcript, r[1])
    BY DEF RecapsInv
  <2>4. QED
    BY <2>1, <2>2, <2>3
<1>10. QED
  BY <1>1, <1>4, <1>8, <1>9 DEF RecapsInv

\* A recap, or what a banner grants.
LEMMA EntryRecap ==
    ASSUME TypeOK, RecapsInv, NEW k \in {"banner", "recap"}, NEW t \in 0 .. MaxTurns,
           k = "recap" => Headed(transcript, t),
           transcript' = transcript \o Entry(k, t), recaps' \subseteq recaps, epoch' = epoch
    PROVE  RecapsInv'
<1> DEFINE entry == Entry(k, t)
<1>1. /\ entry \in Seq(Item) /\ Len(entry) = 1 /\ entry[1] = [kind |-> k, turn |-> t]
  BY EntryIsOne
<1>2. transcript \in Seq(Item) /\ transcript' = transcript \o entry
  BY DEF TypeOK
<1> HIDE DEF entry
<1>3. \A i \in 1 .. Len(entry) : entry[i].kind = "recap" => Headed(transcript, entry[i].turn)
  BY <1>1
<1>4. /\ Grounded(transcript \o entry)
      /\ \A u : Headed(transcript, u) => Headed(transcript \o entry, u)
  BY <1>1, <1>2, <1>3, GroundedNext DEF RecapsInv
<1>5. QED
  BY <1>2, <1>4 DEF RecapsInv

LEMMA RecapsStep ==
    ASSUME TypeOK, Reading, ToldInv, RecapsInv, [Next]_vars
    PROVE  RecapsInv'
<1>1. epoch \in Nat /\ \A r \in recaps : r[1] \in 0 .. MaxTurns /\ r[2] \in Nat /\ r[2] <= epoch
  <2>1. epoch \in Nat /\ recaps \subseteq (1 .. MaxTurns) \X Nat
    BY DEF TypeOK
  <2>2. \A r \in (1 .. MaxTurns) \X Nat : r[1] \in 1 .. MaxTurns /\ r[2] \in Nat
    OBVIOUS
  <2>3. 1 .. MaxTurns \subseteq 0 .. MaxTurns
    BY BoundsAreNumbers
  <2>4. \A r \in recaps : r[2] <= epoch
    BY DEF ToldInv, Told
  <2>5. QED
    BY <2>1, <2>2, <2>3, <2>4
<1>2. CASE Submit \/ Clear \/ Leave
  <2>1. epoch' = epoch + 1 /\ recaps' = recaps /\ transcript' \in {transcript, <<>>}
    BY <1>2 DEF Submit, Clear, Leave
  <2>2. \A r \in recaps' : r[2] # epoch'
    BY <1>1, <2>1
  <2>3. Grounded(<<>>)
    BY DEF Grounded
  <2>4. QED
    BY <2>1, <2>2, <2>3 DEF RecapsInv
<1>3. CASE FinishResume
  <2>1. transcript' = Entry("restored", 0) /\ 0 \in 0 .. MaxTurns
    BY <1>3, BoundsAreNumbers DEF FinishResume
  <2>2. Len(transcript') = 1 /\ transcript'[1] = [kind |-> "restored", turn |-> 0]
    BY <2>1, EntryIsOne
  <2>3. Grounded(transcript') /\ \A t : Headed(transcript', t)
    BY <2>2 DEF Grounded, Headed, IsHeading
  <2>4. QED
    BY <2>3 DEF RecapsInv
<1>4. CASE CommitTurn
  BY <1>4, CommitRecap
<1>5. CASE \E r \in recaps : RecapArrives(r)
  <2>1. PICK r \in recaps : RecapArrives(r)
    BY <1>5
  <2>2. /\ recaps' \subseteq recaps /\ epoch' = epoch
        /\ transcript' = (IF r[2] = epoch THEN transcript \o Entry("recap", r[1]) ELSE transcript)
    BY <2>1 DEF RecapArrives
  <2>3. CASE r[2] = epoch
    <3>1. Headed(transcript, r[1]) /\ transcript' = transcript \o Entry("recap", r[1])
      BY <2>2, <2>3 DEF RecapsInv
    <3>2. PICK t \in 0 .. MaxTurns : t = r[1]
      BY <1>1
    <3>3. QED
      BY <2>2, <3>1, <3>2, EntryRecap
  <2>4. CASE r[2] # epoch
    BY <2>2, <2>4 DEF RecapsInv
  <2>5. QED
    BY <2>3, <2>4
<1>6. CASE \E answer \in {"run", "stop"}, keys \in 1 .. MaxKeys : AnswerAttack(answer, keys)
  <2>1. /\ transcript' \in {transcript, transcript \o Entry("banner", turn)}
        /\ UNCHANGED <<epoch, recaps>> /\ turn \in 0 .. MaxTurns
    BY <1>6 DEF AnswerAttack, TypeOK
  <2>2. CASE transcript' = transcript
    BY <2>1, <2>2 DEF RecapsInv
  <2>3. CASE transcript' = transcript \o Entry("banner", turn)
    BY <2>1, <2>3, EntryRecap
  <2>4. QED
    BY <2>1, <2>2, <2>3
<1>7. CASE GoOn \/ Quit \/ \E keys \in Chunks : AnswerApproval(keys)
  <2>1. \E n \in Nat : Notices(n)
    BY <1>7, AnswerApprovalWrites DEF GoOn, Quit
  <2>2. UNCHANGED <<epoch, recaps>>
    BY <1>7, AnswerApprovalWrites DEF GoOn, Quit
  <2>3. QED
    BY <2>1, <2>2, NoticesRecap
<1>8. CASE UNCHANGED screen
  BY <1>8 DEF screen, RecapsInv
<1>9. CASE \/ PumpEvent \/ EmitOutput \/ EndStream \/ Fold \/ SleepOrEnd \/ Unsubscribe
           \/ EndWork
           \/ \E k \in {"approval", "attack"}, rowed \in BOOLEAN : Ask(k, rowed)
           \/ \E w \in {"compacting", "resuming"} : StartWork(w)
  BY <1>8, <1>9 DEF PumpEvent, EmitOutput, EndStream, Fold, SleepOrEnd, Unsubscribe, EndWork,
                    Ask, StartWork
<1>10. CASE UNCHANGED vars
  BY <1>8, <1>10 DEF vars
<1>11. QED
  BY <1>2, <1>3, <1>4, <1>5, <1>6, <1>7, <1>9, <1>10 DEF Next, Happens, Advance

\* The transcript reads in the order in which things happened, whatever the person decides,
\* clears or resumes meanwhile, and however late a recap comes, and a recap stands under
\* its turn or under a conversation resumed since (App.tsx: deferredNotices, recapEpochRef).
THEOREM TranscriptsReadInOrder == Spec => []TranscriptReadsInOrder
<1>1. Init => ToldInv /\ RecapsInv
  BY ToldInit, RecapsInit
<1>2. TypeOK /\ Reading /\ ToldInv /\ RecapsInv /\ [Next]_vars => (ToldInv /\ RecapsInv)'
  BY ToldStep, RecapsStep
<1>3. ToldInv /\ RecapsInv => TranscriptReadsInOrder
  BY GroundedMeans DEF ToldInv, RecapsInv, TranscriptReadsInOrder
<1>4. QED
  BY <1>1, <1>2, <1>3, TypesHold, PTL DEF Spec
=============================================================================
