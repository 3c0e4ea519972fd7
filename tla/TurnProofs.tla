----------------------------- MODULE TurnProofs -----------------------------
(***************************************************************************)
(* What a session of either driver guarantees, for every bound.  The steps *)
(* the drivers share preserve SeamsInv, which is all the string driver     *)
(* needs.  The event driver needs more: that a stopped turn says so rests  *)
(* on no reason being recorded before the drain has given up (Unsaid), and *)
(* that rows are closed on each waiting call having its row (Rows).        *)
(***************************************************************************)
EXTENDS Turns, SequenceTheorems, WellFoundedInduction, TLAPS

\* How far a turn is: a fold is its first remedy of that kind and is counted
\* when it is done, and no turn is left in flight.
Counted ==
    /\ IF phase = "idle" THEN inFlight = 0 ELSE inFlight \in 1..1 + attempt + quota
    /\ phase = "folding" => attempt = 0 /\ folded
    /\ folded /\ phase \notin {"folding", "idle"} => attempt = 1
    /\ phase = "cooling" => quota < MaxQuotaCooldowns
    /\ phase = "prompting" => rounds < MaxDrainRounds
    /\ phase \in {"failed", "folding", "cooling"} => error # None

\* Whatever is recorded was recorded in the current attempt.
Dated ==
    /\ reason # None => reason.of = <<attempt, quota>>
    /\ agentReason # None => agentReason.of = <<attempt, quota>>
    /\ phase = "idle" /\ turns > 0 => reason # None

\* What the thread ends with at each phase.
Threaded ==
    /\ phase # "idle" => thread # <<>>
    /\ phase \in {"running", "prompting"} => ~EndsWith({"ai"})
    /\ phase \in {"failed", "folding", "cooling"} => ~EndsWith({"ai", "call"})
    /\ pending => EndsWith({"call"})
    /\ phase = "prompting" => pending
    /\ phase = "running" /\ run # "refused" => ~pending
    /\ upkeep # "none" => phase = "idle" /\ thread # <<>>

\* TypeOK in parts, as the provers take it.
Flags ==
    /\ pending \in BOOLEAN /\ text \in BOOLEAN /\ exhausted \in BOOLEAN
    /\ aborted \in BOOLEAN /\ folded \in BOOLEAN

Words ==
    /\ phase \in Phases
    /\ run \in {"none", "stream", "invoke", "resume", "fallback", "refused"}
    /\ upkeep \in {"none", "compact", "resume", "summarising"}

Numbers ==
    /\ attempt \in 0..1
    /\ quota \in 0..MaxQuotaCooldowns
    /\ rounds \in 0..MaxDrainRounds
    /\ inFlight \in 0..2 + MaxQuotaCooldowns
    /\ turns \in 0..MaxTurns
    /\ tools \in 0..MaxTools

Reports == error \in Errors /\ reason \in Reasons /\ agentReason \in Reasons

Lists == thread \in Seq(Kinds) /\ snapshot \in Seq(Kinds)

SeamsInv ==
    /\ Flags /\ Words /\ Numbers /\ Reports /\ Lists
    /\ Counted
    /\ Dated
    /\ Threaded
    /\ SummariesAreCurrent
    /\ ResultsFollowTheirCalls

LEMMA SeamsAreTyped == SeamsInv /\ mode \in Modes /\ open \in Nat => TypeOK
BY DEF SeamsInv, TypeOK, Flags, Words, Numbers, Reports, Lists

-----------------------------------------------------------------------------
(* Threads. *)

Sound(messages) ==
    \A i \in 1..Len(messages) :
        messages[i] = "tool" => i > 1 /\ messages[i - 1] = "call"

LEMMA Appended ==
    ASSUME NEW messages \in Seq(Kinds), NEW kind \in Kinds, Sound(messages),
           kind = "tool" => /\ messages # <<>>
                            /\ messages[Len(messages)] = "call"
    PROVE  LET longer == Append(messages, kind)
           IN  /\ longer \in Seq(Kinds)
               /\ longer # <<>>
               /\ longer[Len(longer)] = kind
               /\ Sound(longer)
<1> DEFINE longer == Append(messages, kind)
<1>1. /\ longer \in Seq(Kinds)
      /\ Len(longer) = Len(messages) + 1
      /\ longer[Len(messages) + 1] = kind
      /\ \A i \in 1..Len(messages) : longer[i] = messages[i]
  BY AppendProperties
<1>2. Len(messages) \in Nat /\ (messages # <<>> => Len(messages) > 0)
  BY EmptySeq, LenProperties
<1>3. Sound(longer)
  <2>1. SUFFICES ASSUME NEW i \in 1..Len(messages) + 1, longer[i] = "tool"
                 PROVE  i > 1 /\ longer[i - 1] = "call"
    BY <1>1 DEF Sound
  <2>2. CASE i \in 1..Len(messages)
    BY <1>1, <1>2, <2>1, <2>2 DEF Sound
  <2>3. CASE i = Len(messages) + 1
    <3>1. kind = "tool"
      BY <1>1, <2>1, <2>3
    <3>2. Len(messages) > 0 /\ messages[Len(messages)] = "call"
      BY <1>2, <3>1
    <3>3. longer[Len(messages)] = messages[Len(messages)]
      BY <1>1, <1>2, <3>2
    <3>4. QED
      BY <1>2, <2>3, <3>2, <3>3
  <2>4. QED
    BY <1>2, <2>1, <2>2, <2>3
<1>4. QED
  BY <1>1, <1>2, <1>3

LEMMA FoldedIsSound ==
    ASSUME NEW messages \in Seq(Kinds), NEW cut \in Cuts(messages),
           Sound(messages)
    PROVE  LET shorter == Folded(messages, cut)
           IN  /\ shorter \in Seq(Kinds)
               /\ shorter # <<>>
               /\ shorter[Len(shorter)] = messages[Len(messages)]
               /\ Sound(shorter)
<1> DEFINE tail == SubSeq(messages, cut + 1, Len(messages))
           n == Len(messages) - cut
           shorter == Folded(messages, cut)
<1>1. /\ Len(messages) \in Nat
      /\ cut \in 1..Len(messages) - 1
      /\ messages[cut + 1] # "tool"
  BY LenProperties DEF Cuts
<1>2. /\ tail \in Seq(Kinds)
      /\ Len(tail) = n
      /\ \A i \in 1..n : tail[i] = messages[cut + i]
  <2>1. \A i \in cut + 1..Len(messages) : messages[i] \in Kinds
    BY <1>1, ElementOfSeq
  <2>2. QED
    BY <1>1, <2>1, SubSeqProperties
<1>3. /\ <<"summary">> \in Seq(Kinds)
      /\ Len(<<"summary">>) = 1
      /\ <<"summary">>[1] = "summary"
  BY DEF Kinds
<1>4. /\ shorter \in Seq(Kinds)
      /\ Len(shorter) = 1 + n
      /\ shorter[1] = "summary"
      /\ \A i \in 2..1 + n : shorter[i] = messages[cut + i - 1]
  <2>1. /\ shorter \in Seq(Kinds)
        /\ Len(shorter) = 1 + n
        /\ \A i \in 1..1 + n : shorter[i] = IF i <= 1 THEN <<"summary">>[i]
                                            ELSE tail[i - 1]
    BY <1>2, <1>3, ConcatProperties DEF Folded
  <2>2. ASSUME NEW i \in 2..1 + n
        PROVE  shorter[i] = messages[cut + i - 1]
    <3>1. i - 1 \in 1..n /\ cut + (i - 1) = cut + i - 1 /\ ~(i <= 1)
      BY <1>1
    <3>2. shorter[i] = tail[i - 1]
      BY <1>1, <2>1, <3>1
    <3>3. tail[i - 1] = messages[cut + (i - 1)]
      BY <1>2, <3>1
    <3>4. QED
      BY <3>1, <3>2, <3>3
  <2>3. QED
    BY <1>1, <1>3, <2>1, <2>2
<1>5. shorter[Len(shorter)] = messages[Len(messages)]
  <2>1. 1 + n \in 2..1 + n /\ cut + (1 + n) - 1 = Len(messages)
    BY <1>1
  <2>2. QED
    BY <1>4, <2>1
<1>6. Sound(shorter)
  <2>1. SUFFICES ASSUME NEW i \in 1..1 + n, shorter[i] = "tool"
                 PROVE  i > 1 /\ shorter[i - 1] = "call"
    BY <1>4 DEF Sound
  <2>2. i # 1
    BY <1>4, <2>1
  <2>3. i \in 2..1 + n /\ messages[cut + i - 1] = "tool"
    BY <1>1, <1>4, <2>1, <2>2
  <2>4. i # 2
    BY <1>1, <2>3
  <2>5. /\ i - 1 \in 2..1 + n
        /\ cut + i - 1 \in 1..Len(messages)
        /\ cut + (i - 1) - 1 = (cut + i - 1) - 1
    BY <1>1, <2>3, <2>4
  <2>6. messages[(cut + i - 1) - 1] = "call"
    BY <2>3, <2>5 DEF Sound
  <2>7. QED
    BY <1>4, <2>3, <2>5, <2>6
<1>7. shorter # <<>>
  BY <1>1, <1>4
<1>8. QED
  BY <1>4, <1>5, <1>6, <1>7

-----------------------------------------------------------------------------
(* The first state, and the steps both drivers share. *)

LEMMA BoundsAreNumbers ==
    /\ MaxQuotaCooldowns \in Nat
    /\ MaxDrainRounds \in Nat /\ MaxDrainRounds > 0
    /\ MaxTurns \in Nat /\ MaxTools \in Nat
BY TurnBoundsAssumption

LEMMA NoneFits == None \in Errors /\ None \in Reasons
BY DEF Errors, Reasons

LEMMA NotedIsDated ==
    ASSUME Numbers, NEW known \in Reasons, NEW category \in Categories,
           known # None => known.of = <<attempt, quota>>
    PROVE  /\ Noted(known, category) \in Reasons
           /\ Noted(known, category) # None
           /\ Noted(known, category).of = <<attempt, quota>>
<1>1. category # "none"
  BY DEF Categories, Failures
<1>2. Reason(category) \in Reasons /\ Reason(category).of = <<attempt, quota>>
  <2>1. <<attempt, quota>> \in Nat \X Nat
    BY BoundsAreNumbers DEF Numbers
  <2>2. QED
    BY <2>1 DEF Reason, Reasons
<1>3. Reason(category) # None
  BY <1>1 DEF Reason, None
<1>4. QED
  BY <1>2, <1>3 DEF Noted

\* A step that leaves the messages alone.
LEMMA ThreadStays ==
    ASSUME SeamsInv, UNCHANGED <<thread, snapshot>>
    PROVE  Lists' /\ ResultsFollowTheirCalls'
BY DEF SeamsInv, Lists, ResultsFollowTheirCalls

LEMMA StartHolds ==
    ASSUME Init
    PROVE  SeamsInv
<1>1. Flags /\ Lists
  <2>1. Flags
    BY DEF Init, Flags
  <2>2. Lists
    BY DEF Init, Lists
  <2>3. QED
    BY <2>1, <2>2
<1>2. Words /\ Numbers /\ Reports
  BY BoundsAreNumbers, NoneFits DEF Init, Words, Numbers, Reports, Phases
<1>3. Counted /\ Dated /\ Threaded /\ SummariesAreCurrent
  BY DEF Init, Counted, Dated, Threaded, SummariesAreCurrent
<1>4. ResultsFollowTheirCalls
  BY DEF Init, ResultsFollowTheirCalls
<1>5. QED
  BY <1>1, <1>2, <1>3, <1>4 DEF SeamsInv

LEMMA StartTurnStep ==
    ASSUME SeamsInv, NEW how \in {"stream", "invoke"}, StartTurn(how)
    PROVE  SeamsInv'
<1>1. /\ thread' \in Seq(Kinds)
      /\ thread' # <<>>
      /\ thread'[Len(thread')] = "human"
      /\ ResultsFollowTheirCalls'
  BY Appended DEF StartTurn, SeamsInv, Lists, Kinds, ResultsFollowTheirCalls,
                  Sound
<1>2. Flags' /\ Lists'
  BY <1>1 DEF SeamsInv, Flags, Lists, StartTurn
<1>3. Words' /\ Reports'
  BY NoneFits DEF SeamsInv, Words, Reports, StartTurn, ResetReasons, Phases
<1>4. Numbers' /\ Counted'
  BY BoundsAreNumbers
     DEF SeamsInv, Numbers, Counted, StartTurn, PromptIsFree
<1>5. Dated' /\ Threaded' /\ SummariesAreCurrent'
  BY <1>1 DEF StartTurn, PromptIsFree, ResetReasons, Dated, Threaded,
              SummariesAreCurrent, EndsWith, None
<1>6. QED
  BY <1>1, <1>2, <1>3, <1>4, <1>5 DEF SeamsInv

-----------------------------------------------------------------------------
(* The graph's own steps. *)

\* What a step of the graph that adds a message does to the thread.
LEMMA MessageAdded ==
    ASSUME SeamsInv, NEW kind \in Kinds, thread' = Append(thread, kind),
           kind = "tool" => EndsWith({"call"}),
           snapshot' = snapshot
    PROVE  /\ Lists'
           /\ ResultsFollowTheirCalls'
           /\ thread' # <<>>
           /\ thread'[Len(thread')] = kind
BY Appended DEF SeamsInv, Lists, ResultsFollowTheirCalls, Sound, EndsWith

LEMMA ChunkStep ==
    ASSUME SeamsInv, Chunk
    PROVE  SeamsInv'
<1>1. Lists' /\ ResultsFollowTheirCalls'
  BY ThreadStays DEF Chunk, thread_, Steady, idle_
<1>2. Flags'
  BY DEF SeamsInv, Flags, Chunk, thread_, Steady
<1>3. Words' /\ Reports' /\ Numbers' /\ Counted'
  BY DEF SeamsInv, Words, Reports, Numbers, Counted, Chunk, thread_, ending_,
         Steady, idle_
<1>4. Dated' /\ Threaded' /\ SummariesAreCurrent'
  BY DEF SeamsInv, Dated, Threaded, SummariesAreCurrent, EndsWith, Chunk,
         thread_, ending_, Steady, idle_
<1>5. QED
  BY <1>1, <1>2, <1>3, <1>4 DEF SeamsInv

LEMMA CallToolStep ==
    ASSUME SeamsInv, CallTool
    PROVE  SeamsInv'
<1>1. /\ Lists' /\ ResultsFollowTheirCalls'
      /\ thread' # <<>> /\ thread'[Len(thread')] = "call"
  BY MessageAdded DEF CallTool, Kinds, Steady, idle_
<1>2. Flags'
  BY DEF SeamsInv, Flags, CallTool, Steady
<1>3. Words' /\ Reports' /\ Numbers' /\ Counted'
  BY BoundsAreNumbers
     DEF SeamsInv, Words, Reports, Numbers, Counted, CallTool, ending_,
         Steady, idle_
<1>4. Dated' /\ Threaded' /\ SummariesAreCurrent'
  BY <1>1 DEF SeamsInv, Dated, Threaded, SummariesAreCurrent, EndsWith,
              CallTool, AtTheModel, Live, ending_, Steady, idle_
<1>5. QED
  BY <1>1, <1>2, <1>3, <1>4 DEF SeamsInv

LEMMA ToolReturnsStep ==
    ASSUME SeamsInv, ToolReturns
    PROVE  SeamsInv'
<1>1. /\ Lists' /\ ResultsFollowTheirCalls'
      /\ thread' # <<>> /\ thread'[Len(thread')] = "tool"
  BY MessageAdded DEF ToolReturns, Kinds, Steady, idle_
<1>2. Flags'
  BY DEF SeamsInv, Flags, ToolReturns, Steady
<1>3. Words' /\ Reports' /\ Numbers' /\ Counted'
  BY DEF SeamsInv, Words, Reports, Numbers, Counted, ToolReturns, ending_,
         Steady, idle_
<1>4. Dated' /\ Threaded' /\ SummariesAreCurrent'
  BY <1>1 DEF SeamsInv, Dated, Threaded, SummariesAreCurrent, EndsWith,
              ToolReturns, Live, ending_, Steady, idle_
<1>5. QED
  BY <1>1, <1>2, <1>3, <1>4 DEF SeamsInv

LEMMA AnswerStep ==
    ASSUME SeamsInv, NEW withText \in BOOLEAN,
           NEW category \in {"none", "output_truncated"},
           Answer(withText, category)
    PROVE  SeamsInv'
<1>1. /\ Lists' /\ ResultsFollowTheirCalls'
      /\ thread' # <<>> /\ thread'[Len(thread')] = "ai"
  BY MessageAdded DEF Answer, Kinds, Steady, idle_
<1>2. Flags'
  BY DEF SeamsInv, Flags, Answer, Steady
<1>3. /\ agentReason' \in Reasons
      /\ agentReason' # None => agentReason'.of = <<attempt, quota>>
  BY NotedIsDated DEF SeamsInv, Reports, Dated, Answer, Categories
<1>4. Words' /\ Reports' /\ Numbers' /\ Counted'
  BY <1>3 DEF SeamsInv, Words, Reports, Numbers, Counted, Answer, AtTheModel,
              Live, Phases, Steady, idle_
<1>5. Dated' /\ Threaded' /\ SummariesAreCurrent'
  BY <1>1, <1>3 DEF SeamsInv, Dated, Threaded, SummariesAreCurrent, EndsWith,
                    Answer, AtTheModel, Live, Steady, idle_
<1>6. QED
  BY <1>1, <1>2, <1>4, <1>5 DEF SeamsInv

LEMMA SuspendStep ==
    ASSUME SeamsInv, NEW withText \in BOOLEAN, Suspend(withText)
    PROVE  SeamsInv'
<1>1. /\ Lists' /\ ResultsFollowTheirCalls'
      /\ thread' # <<>> /\ thread'[Len(thread')] = "call"
  BY MessageAdded DEF Suspend, Kinds, Steady, idle_
<1>2. Flags'
  BY DEF SeamsInv, Flags, Suspend, Steady
<1>3. Words' /\ Reports' /\ Numbers' /\ Counted'
  BY BoundsAreNumbers
     DEF SeamsInv, Words, Reports, Numbers, Counted, Suspend, AtTheModel,
         Live, Phases, ending_, Steady, idle_
<1>4. Dated' /\ Threaded' /\ SummariesAreCurrent'
  BY <1>1 DEF SeamsInv, Dated, Threaded, SummariesAreCurrent, EndsWith,
              Suspend, AtTheModel, Live, ending_, Steady, idle_
<1>5. QED
  BY <1>1, <1>2, <1>3, <1>4 DEF SeamsInv

LEMMA GraphSteps ==
    ASSUME SeamsInv, GraphStep
    PROVE  SeamsInv'
BY ChunkStep, CallToolStep, ToolReturnsStep, AnswerStep, SuspendStep
   DEF GraphStep

\* The failure of a run, with whatever its driver has noted of it.
LEMMA FailsStep ==
    ASSUME SeamsInv, NEW e \in Errors \ {None}, NEW noted \in Reasons,
           noted # None => noted.of = <<attempt, quota>>,
           Fails(e, noted)
    PROVE  SeamsInv'
<1>1. Lists' /\ ResultsFollowTheirCalls'
  BY ThreadStays DEF Fails, thread_, Steady, idle_
<1>2. Flags'
  BY DEF SeamsInv, Flags, Fails, thread_, Steady
<1>3. /\ agentReason' \in Reasons
      /\ agentReason' # None => agentReason'.of = <<attempt, quota>>
  BY NotedIsDated
     DEF SeamsInv, Reports, Dated, Fails, Categories, Failures
<1>4. Words' /\ Reports' /\ Numbers' /\ Counted'
  BY <1>3 DEF SeamsInv, Words, Reports, Numbers, Counted, Fails, AtTheModel,
              Live, Phases, Steady, idle_
<1>5. Dated' /\ Threaded' /\ SummariesAreCurrent'
  BY <1>3 DEF SeamsInv, Dated, Threaded, SummariesAreCurrent, EndsWith, Fails,
              AtTheModel, Live, thread_, Steady, idle_
<1>6. QED
  BY <1>1, <1>2, <1>4, <1>5 DEF SeamsInv

-----------------------------------------------------------------------------
(* Steps the drivers take alike, though each has its own guards. *)

LEMMA StutterHolds ==
    ASSUME SeamsInv, UNCHANGED vars
    PROVE  SeamsInv'
<1>1. Lists' /\ ResultsFollowTheirCalls'
  BY ThreadStays DEF vars, thread_, idle_
<1>2. Flags'
  BY DEF SeamsInv, Flags, vars, thread_, turn_
<1>3. Words' /\ Reports' /\ Numbers' /\ Counted'
  BY DEF SeamsInv, Words, Reports, Numbers, Counted, vars, turn_, ending_, idle_
<1>4. Dated' /\ Threaded' /\ SummariesAreCurrent'
  BY DEF SeamsInv, Dated, Threaded, SummariesAreCurrent, EndsWith, vars,
         thread_, turn_, ending_, idle_
<1>5. QED
  BY <1>1, <1>2, <1>3, <1>4 DEF SeamsInv

LEMMA EscHolds ==
    ASSUME SeamsInv, aborted' = TRUE,
           UNCHANGED <<thread_, phase, turn_, ending_, idle_, tools>>
    PROVE  SeamsInv'
<1>1. Lists' /\ ResultsFollowTheirCalls'
  BY ThreadStays DEF thread_, idle_
<1>2. Flags'
  BY DEF SeamsInv, Flags, thread_, turn_
<1>3. Words' /\ Reports' /\ Numbers' /\ Counted'
  BY DEF SeamsInv, Words, Reports, Numbers, Counted, turn_, ending_, idle_
<1>4. Dated' /\ Threaded' /\ SummariesAreCurrent'
  BY DEF SeamsInv, Dated, Threaded, SummariesAreCurrent, EndsWith,
         thread_, turn_, ending_, idle_
<1>5. QED
  BY <1>1, <1>2, <1>3, <1>4 DEF SeamsInv

\* The run is over, with no failure and no new message.
LEMMA RunStopsHolds ==
    ASSUME SeamsInv, phase = "running", phase' = "draining",
           agentReason' \in {agentReason, Noted(agentReason, "cancelled")},
           text' \in BOOLEAN,
           UNCHANGED <<thread_, run, error, aborted, reason, tools, Steady>>
    PROVE  SeamsInv'
<1>1. Lists' /\ ResultsFollowTheirCalls'
  BY ThreadStays DEF thread_, Steady, idle_
<1>2. Flags'
  BY DEF SeamsInv, Flags, thread_, Steady
<1>3. /\ agentReason' \in Reasons
      /\ agentReason' # None => agentReason'.of = <<attempt, quota>>
  BY NotedIsDated DEF SeamsInv, Reports, Dated, Categories
<1>4. Words' /\ Reports' /\ Numbers' /\ Counted'
  BY <1>3 DEF SeamsInv, Words, Reports, Numbers, Counted, Phases, Steady, idle_
<1>5. Dated' /\ Threaded' /\ SummariesAreCurrent'
  BY <1>3 DEF SeamsInv, Dated, Threaded, SummariesAreCurrent, EndsWith,
              thread_, Steady, idle_
<1>6. QED
  BY <1>1, <1>2, <1>4, <1>5 DEF SeamsInv

LEMMA PromptHolds ==
    ASSUME SeamsInv, phase = "draining", rounds < MaxDrainRounds, pending,
           phase' = "prompting",
           UNCHANGED <<thread_, turn_, aborted, ending_, idle_, tools>>
    PROVE  SeamsInv'
<1>1. Lists' /\ ResultsFollowTheirCalls'
  BY ThreadStays DEF thread_, idle_
<1>2. Flags'
  BY DEF SeamsInv, Flags, thread_, turn_
<1>3. Words' /\ Reports' /\ Numbers' /\ Counted'
  BY DEF SeamsInv, Words, Reports, Numbers, Counted, Phases, turn_, ending_,
         idle_
<1>4. Dated' /\ Threaded' /\ SummariesAreCurrent'
  BY DEF SeamsInv, Dated, Threaded, SummariesAreCurrent, EndsWith,
         thread_, turn_, ending_, idle_
<1>5. QED
  BY <1>1, <1>2, <1>3, <1>4 DEF SeamsInv

\* Only a refused run leaves the call it was to answer suspended.
LEMMA ResumeHolds ==
    ASSUME SeamsInv, phase = "prompting",
           phase' = "running",
           run' \in {"resume", "refused"},
           pending' \in BOOLEAN, pending' => run' = "refused",
           rounds' = rounds + 1,
           aborted' \in BOOLEAN,
           UNCHANGED <<thread, attempt, quota, text, exhausted, error, inFlight,
                       folded, ending_, idle_, tools>>
    PROVE  SeamsInv'
<1>1. Lists' /\ ResultsFollowTheirCalls'
  BY ThreadStays DEF idle_
<1>2. Flags'
  BY DEF SeamsInv, Flags
<1>3. Words' /\ Reports' /\ Numbers' /\ Counted'
  BY BoundsAreNumbers
     DEF SeamsInv, Words, Reports, Numbers, Counted, Phases, ending_, idle_
<1>4. Dated' /\ SummariesAreCurrent'
  BY DEF SeamsInv, Dated, SummariesAreCurrent, Threaded, ending_, idle_
<1>5. Threaded'
  BY DEF SeamsInv, Threaded, EndsWith, idle_
<1>6. QED
  BY <1>1, <1>2, <1>3, <1>4, <1>5 DEF SeamsInv

LEMMA GuardHolds ==
    ASSUME SeamsInv, phase = "draining", exhausted' = TRUE,
           reason' = Noted(reason, "interrupt_drain_guard"),
           UNCHANGED <<thread_, phase, run, attempt, quota, rounds, text, error,
                       inFlight, folded, aborted, agentReason, idle_, tools>>
    PROVE  SeamsInv'
<1>1. Lists' /\ ResultsFollowTheirCalls'
  BY ThreadStays DEF thread_, idle_
<1>2. Flags'
  BY DEF SeamsInv, Flags, thread_
<1>3. reason' \in Reasons /\ reason' # None /\ reason'.of = <<attempt, quota>>
  BY NotedIsDated DEF SeamsInv, Reports, Dated, Categories
<1>4. Words' /\ Reports' /\ Numbers' /\ Counted'
  BY <1>3 DEF SeamsInv, Words, Reports, Numbers, Counted, idle_
<1>5. Dated' /\ Threaded' /\ SummariesAreCurrent'
  BY <1>3 DEF SeamsInv, Dated, Threaded, SummariesAreCurrent, EndsWith,
              thread_, idle_
<1>6. QED
  BY <1>1, <1>2, <1>4, <1>5 DEF SeamsInv

-----------------------------------------------------------------------------
(* The seams. *)

\* A turn that is over for a reason of its last attempt.
LEMMA EndingHolds ==
    ASSUME SeamsInv, phase # "idle",
           phase' = "idle", inFlight' = 0,
           reason' \in Reasons, reason' # None,
           reason'.of = <<attempt, quota>>,
           error' \in Errors,
           snapshot' \in Seq(Kinds),
           UNCHANGED <<thread_, run, attempt, quota, rounds, text, exhausted,
                       folded, aborted, agentReason, upkeep, turns, tools>>
    PROVE  SeamsInv'
<1>1. Flags'
  BY DEF SeamsInv, Flags, thread_
<1>2. Lists' /\ ResultsFollowTheirCalls'
  BY DEF SeamsInv, Lists, ResultsFollowTheirCalls, thread_
<1>3. Words' /\ Reports' /\ Numbers' /\ Counted'
  BY BoundsAreNumbers
     DEF SeamsInv, Words, Reports, Numbers, Counted, Phases
<1>4. Dated' /\ Threaded' /\ SummariesAreCurrent'
  BY DEF SeamsInv, Dated, Threaded, SummariesAreCurrent, EndsWith, thread_
<1>5. QED
  BY <1>1, <1>2, <1>3, <1>4 DEF SeamsInv

LEMMA EndTurnHolds ==
    ASSUME SeamsInv, NEW category \in Categories, phase # "idle",
           EndTurn(category),
           error' \in Errors,
           UNCHANGED <<thread_, run, attempt, quota, rounds, text, exhausted,
                       folded, aborted, agentReason, idle_, tools>>
    PROVE  SeamsInv'
<1>1. /\ reason' \in Reasons
      /\ reason' # None
      /\ reason'.of = <<attempt, quota>>
  BY NotedIsDated DEF SeamsInv, Reports, Dated, EndTurn
<1>2. QED
  BY <1>1, EndingHolds DEF EndTurn, SeamsInv, Lists, idle_

LEMMA OverriddenHolds ==
    ASSUME SeamsInv, phase # "idle", Overridden,
           snapshot' \in Seq(Kinds),
           UNCHANGED <<thread_, run, attempt, quota, rounds, text, exhausted,
                       error, folded, aborted, agentReason, upkeep, turns, tools>>
    PROVE  SeamsInv'
<1>1. /\ reason' \in Reasons
      /\ reason' # None
      /\ reason'.of = <<attempt, quota>>
  <2>1. reason' = Noted(None, "context_overflow")
    BY DEF Overridden, Noted
  <2>2. QED
    BY <2>1, NotedIsDated, NoneFits DEF SeamsInv, Categories, Failures
<1>2. QED
  BY <1>1, EndingHolds DEF Overridden, SeamsInv, Reports

LEMMA BeginFoldStep ==
    ASSUME SeamsInv, BeginFold
    PROVE  SeamsInv'
<1>1. Flags'
  BY DEF SeamsInv, Flags, BeginFold, thread_
<1>2. Lists' /\ ResultsFollowTheirCalls'
  BY DEF SeamsInv, Lists, ResultsFollowTheirCalls, BeginFold, thread_
<1>3. Words' /\ Reports' /\ Numbers' /\ Counted'
  BY DEF SeamsInv, Words, Reports, Numbers, Counted, BeginFold, WorthFolding,
         Phases, ending_
<1>4. Dated' /\ Threaded' /\ SummariesAreCurrent'
  BY DEF SeamsInv, Dated, Threaded, SummariesAreCurrent, EndsWith, BeginFold,
         thread_, ending_
<1>5. QED
  BY <1>1, <1>2, <1>3, <1>4 DEF SeamsInv

LEMMA FoldFailsStep ==
    ASSUME SeamsInv, FoldFails
    PROVE  SeamsInv'
BY OverriddenHolds DEF FoldFails

LEMMA OverflowsAgainStep ==
    ASSUME SeamsInv, OverflowsAgain
    PROVE  SeamsInv'
BY OverriddenHolds DEF OverflowsAgain, SeamsInv, Lists, idle_

LEMMA BeginCooldownStep ==
    ASSUME SeamsInv, BeginCooldown
    PROVE  SeamsInv'
<1>1. Lists' /\ ResultsFollowTheirCalls'
  BY ThreadStays DEF BeginCooldown, thread_, idle_
<1>2. Flags'
  BY DEF SeamsInv, Flags, BeginCooldown, thread_, turn_
<1>3. Words' /\ Reports' /\ Numbers' /\ Counted'
  BY DEF SeamsInv, Words, Reports, Numbers, Counted, BeginCooldown,
         WorthWaiting, Phases, ending_, turn_, idle_
<1>4. Dated' /\ Threaded' /\ SummariesAreCurrent'
  BY DEF SeamsInv, Dated, Threaded, SummariesAreCurrent, EndsWith,
         BeginCooldown, thread_, ending_, turn_, idle_
<1>5. QED
  BY <1>1, <1>2, <1>3, <1>4 DEF SeamsInv

LEMMA GiveUpStep ==
    ASSUME SeamsInv, GiveUp
    PROVE  SeamsInv'
<1>1. error.category \in Categories /\ error' \in Errors
  <2>1. error \in Errors \ {None}
    BY DEF GiveUp, SeamsInv, Counted, Reports
  <2>2. QED
    BY <2>1 DEF Errors, Categories, GiveUp
<1>2. QED
  BY <1>1, EndTurnHolds DEF GiveUp

\* The seams up to a retry, which each driver begins in its own way.
LEMMA SeamSteps ==
    ASSUME SeamsInv,
           BeginFold \/ FoldFails \/ OverflowsAgain \/ BeginCooldown \/ GiveUp
    PROVE  SeamsInv'
BY BeginFoldStep, FoldFailsStep, OverflowsAgainStep, BeginCooldownStep,
   GiveUpStep

\* A turn runs again on its folded thread.
LEMMA FoldRetryHolds ==
    ASSUME SeamsInv, phase = "folding",
           NEW cut \in Cuts(snapshot), WriteFold(cut),
           NEW how \in {"stream", "invoke", "refused"},
           RetryWith(how, attempt + 1, quota),
           text' \in BOOLEAN,
           inFlight' \in {inFlight, inFlight + 1},
           snapshot' = <<>>,
           UNCHANGED <<folded, aborted, upkeep, turns, tools>>
    PROVE  SeamsInv'
<1>1. /\ snapshot = thread /\ snapshot \in Seq(Kinds) /\ thread # <<>>
      /\ ~EndsWith({"ai", "call"}) /\ ~pending
  BY DEF SeamsInv, SummariesAreCurrent, Lists, Threaded, EndsWith
<1>2. /\ thread' \in Seq(Kinds) /\ thread' # <<>>
      /\ thread'[Len(thread')] = thread[Len(thread)]
      /\ ResultsFollowTheirCalls'
  BY <1>1, FoldedIsSound
     DEF SeamsInv, WriteFold, ResultsFollowTheirCalls, Sound
<1>3. Flags'
  BY DEF SeamsInv, Flags, WriteFold, RetryWith
<1>4. Lists'
  BY <1>2 DEF Lists
<1>5. Words' /\ Reports' /\ Numbers' /\ Counted'
  BY BoundsAreNumbers, NoneFits
     DEF SeamsInv, Words, Reports, Numbers, Counted, RetryWith, ResetReasons,
         Phases
<1>6. Dated' /\ Threaded' /\ SummariesAreCurrent'
  BY <1>1, <1>2 DEF SeamsInv, Dated, Threaded, SummariesAreCurrent, EndsWith,
                    RetryWith, ResetReasons, WriteFold
<1>7. QED
  BY <1>2, <1>3, <1>4, <1>5, <1>6 DEF SeamsInv

\* A turn runs again after a cooldown.
LEMMA CooldownRetryHolds ==
    ASSUME SeamsInv, phase = "cooling",
           NEW how \in {"stream", "invoke", "refused"},
           RetryWith(how, attempt, quota + 1),
           text' \in BOOLEAN,
           inFlight' \in {inFlight, inFlight + 1},
           UNCHANGED <<thread_, folded, aborted, idle_, tools>>
    PROVE  SeamsInv'
<1>1. ~EndsWith({"ai", "call"}) /\ ~pending
  BY DEF SeamsInv, Threaded, EndsWith
<1>2. Lists' /\ ResultsFollowTheirCalls'
  BY ThreadStays DEF thread_, idle_
<1>3. Flags'
  BY DEF SeamsInv, Flags, RetryWith, thread_
<1>4. Words' /\ Reports' /\ Numbers' /\ Counted'
  BY BoundsAreNumbers, NoneFits
     DEF SeamsInv, Words, Reports, Numbers, Counted, RetryWith, ResetReasons,
         Phases, idle_
<1>5. Dated' /\ Threaded' /\ SummariesAreCurrent'
  BY <1>1 DEF SeamsInv, Dated, Threaded, SummariesAreCurrent, EndsWith,
              RetryWith, ResetReasons, thread_, idle_
<1>6. QED
  BY <1>2, <1>3, <1>4, <1>5 DEF SeamsInv

-----------------------------------------------------------------------------
(* Between turns. *)

LEMMA BeginUpkeepStep ==
    ASSUME SeamsInv, NEW what \in {"compact", "resume"}, BeginUpkeep(what)
    PROVE  SeamsInv'
<1>1. Lists' /\ ResultsFollowTheirCalls'
  BY ThreadStays DEF BeginUpkeep, thread_
<1>2. Flags'
  BY DEF SeamsInv, Flags, BeginUpkeep, thread_, turn_
<1>3. Words' /\ Reports' /\ Numbers' /\ Counted'
  BY DEF SeamsInv, Words, Reports, Numbers, Counted, BeginUpkeep, turn_,
         ending_
<1>4. Dated' /\ Threaded' /\ SummariesAreCurrent'
  BY DEF SeamsInv, Dated, Threaded, SummariesAreCurrent, EndsWith, BeginUpkeep,
         PromptIsFree, thread_, turn_, ending_
<1>5. QED
  BY <1>1, <1>2, <1>3, <1>4 DEF SeamsInv

\* A step of upkeep leaves the turn as it was; the thread it leaves is either
\* the one it found or one that nothing is suspended on or cut apart in.
LEMMA UpkeepHolds ==
    ASSUME SeamsInv, During, phase = "idle", pending' = pending,
           upkeep' \in {"none", "summarising"},
           snapshot' \in Seq(Kinds),
           thread' \in Seq(Kinds), thread' # <<>>,
           pending => thread'[Len(thread')] = "call",
           upkeep' = "summarising" => snapshot' = thread',
           ResultsFollowTheirCalls'
    PROVE  SeamsInv'
<1>1. Flags'
  BY DEF SeamsInv, Flags, During, turn_
<1>2. Lists'
  BY DEF Lists
<1>3. Words' /\ Reports' /\ Numbers' /\ Counted'
  BY DEF SeamsInv, Words, Reports, Numbers, Counted, During, turn_, ending_
<1>4. Dated' /\ Threaded' /\ SummariesAreCurrent'
  BY DEF SeamsInv, Dated, Threaded, SummariesAreCurrent, EndsWith, During,
         turn_, ending_
<1>5. QED
  BY <1>1, <1>2, <1>3, <1>4 DEF SeamsInv

LEMMA UpkeepSteps ==
    ASSUME SeamsInv, Upkeep
    PROVE  SeamsInv'
<1>1. CASE \E what \in {"compact", "resume"} : BeginUpkeep(what)
  BY <1>1, BeginUpkeepStep
<1> DEFINE Working == /\ phase = "idle" /\ thread # <<>>
                      /\ thread \in Seq(Kinds) /\ snapshot \in Seq(Kinds)
                      /\ pending => thread[Len(thread)] = "call"
<1>2. upkeep # "none" => Working
  BY DEF SeamsInv, Threaded, Lists, EndsWith
<1>3. CASE UpkeepRefused
  <2>1. Working /\ UNCHANGED <<thread, snapshot, pending>> /\ upkeep' = "none"
    BY <1>2, <1>3 DEF UpkeepRefused, thread_
  <2>2. ResultsFollowTheirCalls'
    BY <2>1, ThreadStays
  <2>3. QED
    BY <1>3, <2>1, <2>2, UpkeepHolds DEF UpkeepRefused
<1>4. CASE ReadConversation
  <2>1. Working /\ UNCHANGED <<thread, pending>> /\ snapshot' = thread
    BY <1>2, <1>4 DEF ReadConversation, thread_
  <2>2. ResultsFollowTheirCalls'
    BY <2>1 DEF SeamsInv, ResultsFollowTheirCalls
  <2>3. QED
    BY <1>4, <2>1, <2>2, UpkeepHolds DEF ReadConversation
<1>5. CASE EndCompaction
  <2>1. /\ Working /\ snapshot = thread /\ upkeep' = "none"
        /\ snapshot' = <<>> /\ snapshot' \in Seq(Kinds)
    BY <1>2, <1>5 DEF EndCompaction, SeamsInv, SummariesAreCurrent
  <2>2. CASE UNCHANGED thread_
    <3>1. UNCHANGED <<thread, pending>> /\ ResultsFollowTheirCalls'
      BY <2>2 DEF SeamsInv, ResultsFollowTheirCalls, thread_
    <3>2. QED
      BY <1>5, <2>1, <3>1, UpkeepHolds DEF EndCompaction
  <2>3. ASSUME NEW cut \in Cuts(snapshot), WriteFold(cut)
        PROVE  SeamsInv'
    <3>1. /\ thread' \in Seq(Kinds) /\ thread' # <<>>
          /\ thread'[Len(thread')] = thread[Len(thread)]
          /\ ResultsFollowTheirCalls'
      BY <2>1, <2>3, FoldedIsSound
         DEF SeamsInv, WriteFold, ResultsFollowTheirCalls, Sound
    <3>2. pending' = pending
      BY <2>3 DEF WriteFold
    <3>3. QED
      BY <1>5, <2>1, <3>1, <3>2, UpkeepHolds DEF EndCompaction
  <2>4. QED
    BY <1>5, <2>2, <2>3 DEF EndCompaction
<1>6. CASE ResumeConversation
  <2>1. /\ Working /\ ~pending /\ pending' = pending /\ upkeep' = "none"
        /\ snapshot' = snapshot /\ thread' = <<"human", "ai">>
    BY <1>2, <1>6 DEF ResumeConversation
  <2>2. thread' \in Seq(Kinds) /\ thread' # <<>> /\ ResultsFollowTheirCalls'
    BY <2>1 DEF Kinds, ResultsFollowTheirCalls
  <2>3. QED
    BY <1>6, <2>1, <2>2, UpkeepHolds DEF ResumeConversation
<1>7. QED
  BY <1>1, <1>3, <1>4, <1>5, <1>6 DEF Upkeep
-----------------------------------------------------------------------------
(* Turns as their callers see them: what the drivers need to implement Turn. *)

Silent == reason = None /\ agentReason = None

\* Nobody has said how the turn ends while it may still ask, and nobody says
\* that it was stopped at a question before it is.
Quiet ==
    /\ phase = "running" /\ run # "fallback" => Silent
    /\ phase = "prompting" => Silent
    /\ phase = "draining" /\ pending /\ ~exhausted
         /\ run \notin {"fallback", "refused"} => Silent
    /\ phase # "idle" => "approval_stop" \notin
            {reason.category, agentReason.category, error.category}

Working == Phases \ {"idle", "prompting"}

LEMMA TurnBegins == Init => Abstract!Init
BY DEF Init, Abstract!Init, Abstract!Unsaid, Status, Reported, None

LEMMA TurnStarts ==
    ASSUME NEW how, StartTurn(how)
    PROVE  Abstract!Begin
BY DEF StartTurn, PromptIsFree, Abstract!Begin, Abstract!Unsaid, Status, None

LEMMA TurnStutters ==
    ASSUME phase \in Working, phase' \in Working,
           UNCHANGED <<rounds, attempt, quota>>
    PROVE  UNCHANGED Abstract!vars
BY DEF Working, Abstract!vars, Status

LEMMA TurnIsLeftAlone ==
    ASSUME UNCHANGED <<phase, upkeep, rounds, attempt, quota, reason, agentReason>>
    PROVE  UNCHANGED Abstract!vars
BY DEF Abstract!vars, Status, Reported

LEMMA TurnAsks ==
    ASSUME phase = "draining", phase' = "prompting", rounds < MaxDrainRounds,
           UNCHANGED <<rounds, attempt, quota>>
    PROVE  Abstract!Ask
BY DEF Abstract!Ask, Status

LEMMA TurnTakesAnswers ==
    ASSUME phase = "prompting", phase' = "running", rounds' = rounds + 1,
           UNCHANGED <<attempt, quota>>
    PROVE  Abstract!TakeAnswer
BY DEF Abstract!TakeAnswer, Status

LEMMA TurnRetries ==
    ASSUME NEW how, NEW folds, NEW waits, RetryWith(how, folds, waits),
           phase \in Working,
           \/ attempt = 0 /\ folds = 1 /\ waits = quota
           \/ quota < MaxQuotaCooldowns /\ folds = attempt /\ waits = quota + 1
    PROVE  Abstract!Retry
<1>1. Status = "working" /\ Status' = "working" /\ phase # "idle" /\ phase' # "idle"
  BY DEF Status, RetryWith, Working
<1>2. <<attempt', quota'>> = <<folds, waits>> /\ rounds' = 0
  BY DEF RetryWith
<1>3. QED
  BY <1>1, <1>2 DEF Abstract!Retry

\* An end is told with the try it belongs to.
LEMMA TurnEnds ==
    ASSUME SeamsInv, SeamsInv', reason' # None,
           phase # "idle", phase' = "idle",
           UNCHANGED <<upkeep, rounds, attempt, quota>>,
           Reported'.category = "approval_stop" <=> phase = "prompting"
    PROVE  Abstract!Next
<1>1. Reported' \in Reasons /\ Reported' # None /\ Reported'.of = <<attempt, quota>>
  BY DEF SeamsInv, Reports, Dated, Reported
<1>2. /\ Reported'.category \in Categories
      /\ Reported' = [category |-> Reported'.category, of |-> <<attempt, quota>>]
  BY <1>1 DEF Reasons
<1>3. Status = (IF phase = "prompting" THEN "asking" ELSE "working") /\ Status' = "idle"
  BY DEF Status, SeamsInv, Threaded
<1>4. Abstract!End(Reported'.category)
  BY <1>2, <1>3 DEF Abstract!End
<1>5. QED
  BY <1>2, <1>4 DEF Abstract!Next

\* A failing turn gives up with its own failure.
LEMMA SeamsEndTurns ==
    ASSUME SeamsInv, SeamsInv', Quiet, GiveUp \/ FoldFails \/ OverflowsAgain
    PROVE  Abstract!Next
<1>1. /\ reason' # None /\ phase # "idle" /\ phase # "prompting" /\ phase' = "idle"
      /\ UNCHANGED <<upkeep, rounds, attempt, quota, agentReason>>
  BY DEF GiveUp, FoldFails, OverflowsAgain, EndTurn, Overridden, Noted, Reason, None, idle_
<1>2. reason'.category # "approval_stop"
  BY <1>1 DEF GiveUp, FoldFails, OverflowsAgain, EndTurn, Overridden, Noted, Reason, Quiet
<1>3. Reported'.category # "approval_stop"
  BY <1>1, <1>2 DEF Reported, Quiet
<1>4. QED
  BY <1>1, <1>3, TurnEnds

LEMMA SeamsGoOn ==
    ASSUME BeginFold \/ BeginCooldown
    PROVE  UNCHANGED Abstract!vars
BY TurnStutters DEF BeginFold, BeginCooldown, turn_, Working, Phases

LEMMA GraphGoesOn ==
    ASSUME SeamsInv, GraphStep
    PROVE  UNCHANGED Abstract!vars
<1>1. phase = "running" /\ phase' \in {"running", "draining"}
      /\ UNCHANGED <<rounds, attempt, quota>>
  BY DEF GraphStep, Chunk, CallTool, ToolReturns, Answer, Suspend, AtTheModel,
         Live, Steady
<1>2. QED
  BY <1>1, TurnStutters DEF Working, Phases

LEMMA UpkeepTakesTurns ==
    ASSUME SeamsInv, Upkeep
    PROVE  Abstract!Next \/ UNCHANGED Abstract!vars
<1>1. CASE \E what \in {"compact", "resume"} : BeginUpkeep(what)
  <2>1. Abstract!Hold
    BY <1>1 DEF BeginUpkeep, PromptIsFree, Abstract!Hold, Status, turn_, ending_,
                Reported
  <2>2. QED
    BY <2>1 DEF Abstract!Next
<1>2. CASE UpkeepRefused \/ EndCompaction \/ ResumeConversation
  <2>1. phase = "idle"
    BY <1>2 DEF UpkeepRefused, EndCompaction, ResumeConversation, SeamsInv, Threaded
  <2>2. Abstract!Release
    BY <1>2, <2>1 DEF UpkeepRefused, EndCompaction, ResumeConversation, During,
                Abstract!Release, Status, turn_, ending_, Reported
  <2>3. QED
    BY <2>2 DEF Abstract!Next
<1>3. CASE ReadConversation
  <2>1. phase = "idle"
    BY <1>3 DEF ReadConversation, SeamsInv, Threaded
  <2>2. QED
    BY <1>3, <2>1 DEF ReadConversation, During, Abstract!vars, Status, turn_,
                      ending_, Reported
<1>4. QED
  BY <1>1, <1>2, <1>3 DEF Upkeep

-----------------------------------------------------------------------------
(* The string driver. *)

TextInv == SeamsInv /\ mode \in Modes \ {"events"} /\ open = 0

LEMMA FirstRunFits ==
    ASSUME TextInv
    PROVE  FirstRun \in {"stream", "invoke"}
BY DEF TextInv, FirstRun

-----------------------------------------------------------------------------
(* The steps of this driver. *)

LEMMA RunEndsStep ==
    ASSUME SeamsInv, TextRunCancelled \/ ChunkAfterEsc
    PROVE  SeamsInv'
<1>1. CASE TextRunCancelled
  <2>1. text' \in BOOLEAN
    BY <1>1 DEF TextRunCancelled, Streams
  <2>2. QED
    BY <1>1, <2>1, RunStopsHolds DEF TextRunCancelled
<1>2. CASE ChunkAfterEsc
  <2>1. text' \in BOOLEAN
    BY <1>2 DEF ChunkAfterEsc, SeamsInv, Flags
  <2>2. agentReason' = agentReason /\ reason' = reason
    BY <1>2 DEF ChunkAfterEsc, ending_
  <2>3. QED
    BY <1>2, <2>1, <2>2, RunStopsHolds DEF ChunkAfterEsc, AtTheModel, Live
<1>3. QED
  BY <1>1, <1>2

LEMMA DrainStep ==
    ASSUME SeamsInv, TextOpenPrompt \/ TextResume \/ TextGuardExhausted
    PROVE  SeamsInv'
<1>1. CASE TextOpenPrompt
  BY <1>1, PromptHolds DEF TextOpenPrompt, Draining
<1>2. CASE TextResume
  <2>1. aborted' \in BOOLEAN /\ pending' \in BOOLEAN
    BY <1>2 DEF TextResume
  <2>2. QED
    BY <1>2, <2>1, ResumeHolds DEF TextResume
<1>3. CASE TextGuardExhausted
  BY <1>3, GuardHolds DEF TextGuardExhausted, Draining
<1>4. QED
  BY <1>1, <1>2, <1>3

LEMMA TextApprovalStopStep ==
    ASSUME SeamsInv, TextApprovalStop
    PROVE  SeamsInv'
<1>1. error' \in Errors /\ "approval_stop" \in Categories
  BY DEF TextApprovalStop, Errors, Categories, Failures
<1>2. QED
  BY <1>1, EndTurnHolds DEF TextApprovalStop

LEMMA TextFinishStep ==
    ASSUME SeamsInv, TextFinish
    PROVE  SeamsInv'
<1>1. error' \in Errors
  BY DEF TextFinish, SeamsInv, Reports
<1>2. {"completed", "interrupt_drain_guard", "empty_response"} \subseteq Categories
  BY DEF Categories
<1>3. PICK category \in Categories : EndTurn(category)
  BY <1>2 DEF TextFinish
<1>4. QED
  BY <1>1, <1>3, EndTurnHolds DEF TextFinish, TextDrained

LEMMA FallbackStep ==
    ASSUME SeamsInv, Fallback
    PROVE  SeamsInv'
<1>1. Lists' /\ ResultsFollowTheirCalls'
  BY ThreadStays DEF Fallback, thread_, idle_
<1>2. Flags'
  BY DEF SeamsInv, Flags, Fallback, thread_
<1>3. Words' /\ Reports' /\ Numbers' /\ Counted'
  BY DEF SeamsInv, Words, Reports, Numbers, Counted, Fallback, FallsBack,
         TextDrained, Phases, ending_, idle_
<1>4. Dated' /\ Threaded' /\ SummariesAreCurrent'
  BY DEF SeamsInv, Dated, Threaded, SummariesAreCurrent, EndsWith, Fallback,
         FallsBack, TextDrained, thread_, ending_, idle_
<1>5. QED
  BY <1>1, <1>2, <1>3, <1>4 DEF SeamsInv

LEMMA TextRunFailsStep ==
    ASSUME SeamsInv, TextRunFails
    PROVE  SeamsInv'
<1>1. PICK e \in Errors \ {None} :
        Fails(e, IF Streaming /\ run # "fallback"
                 THEN Noted(reason, e.category) ELSE reason)
  BY DEF TextRunFails
<1>2. e.category \in Categories
  BY <1>1 DEF Errors, Categories
<1>3. PICK noted \in Reasons : /\ noted # None => noted.of = <<attempt, quota>>
                               /\ Fails(e, noted)
  BY <1>1, <1>2, NotedIsDated DEF SeamsInv, Reports, Dated
<1>4. QED
  BY <1>1, <1>3, FailsStep

LEMMA TextRetryStep ==
    ASSUME TextInv, TextFoldDone \/ TextCooled
    PROVE  SeamsInv'
<1>1. CASE TextFoldDone
  BY <1>1, FirstRunFits, FoldRetryHolds DEF TextFoldDone, TextInv
<1>2. CASE TextCooled
  BY <1>2, FirstRunFits, CooldownRetryHolds DEF TextCooled, TextInv
<1>3. QED
  BY <1>1, <1>2

-----------------------------------------------------------------------------
(* The theorems. *)

LEMMA TextInvStep ==
    ASSUME TextInv, [TextNext]_allVars
    PROVE  TextInv'
<1>1. SeamsInv /\ mode \in Modes \ {"events"} /\ open = 0
  BY DEF TextInv
<1>2. UNCHANGED <<mode, open>>
  BY DEF TextNext, allVars
<1>3. CASE TextStart
  BY <1>1, <1>2, <1>3, FirstRunFits, StartTurnStep DEF TextStart, TextInv
<1>4. CASE TextPressEsc
  BY <1>1, <1>2, <1>4, EscHolds DEF TextPressEsc, TextInv
<1>5. CASE Upkeep
  BY <1>1, <1>2, <1>5, UpkeepSteps DEF TextInv
<1>6. CASE TextProgress
  <2>1. SeamsInv'
    BY <1>1, <1>6, GraphSteps, RunEndsStep, TextRunFailsStep, DrainStep,
       TextApprovalStopStep, FallbackStep, TextFinishStep,
       TextRetryStep, SeamSteps
       DEF TextProgress, TextRetrying
  <2>2. QED
    BY <1>1, <1>2, <2>1 DEF TextInv
<1>7. CASE UNCHANGED allVars
  BY <1>1, <1>2, <1>7, StutterHolds DEF allVars, TextInv
<1>8. QED
  BY <1>3, <1>4, <1>5, <1>6, <1>7 DEF TextNext

LEMMA TextInvBegins == TextInit => TextInv
BY StartHolds DEF TextInit, TextInv, Init

LEMMA TextInvHolds == TextSpec => []TextInv
<1>1. TextInit => TextInv
  BY TextInvBegins
<1>2. TextInv /\ [TextNext]_allVars => TextInv'
  BY TextInvStep
<1>3. QED
  BY <1>1, <1>2, PTL DEF TextSpec

\* Every variable of the driver keeps its type: retries, rounds and nested
\* calls stay within their bounds, whatever the bounds are.
THEOREM TextTypeCorrect == TextSpec => []TypeOK
<1>1. TextInv => TypeOK
  BY SeamsAreTyped DEF TextInv
<1>2. QED
  BY <1>1, TextInvHolds, PTL

\* A turn that is over says how it ended, from its last attempt.
THEOREM TextEndingsAreTheLastAttempts == TextSpec => []EndingsAreCurrent
<1>1. TextInv => EndingsAreCurrent
  BY DEF TextInv, SeamsInv, Dated, EndingsAreCurrent, Reported
<1>2. QED
  BY <1>1, TextInvHolds, PTL

\* No tool result loses its call, to a fold or to a /compact.
THEOREM TextResultsKeepTheirCalls == TextSpec => []ResultsFollowTheirCalls
<1>1. TextInv => ResultsFollowTheirCalls
  BY DEF TextInv, SeamsInv
<1>2. QED
  BY <1>1, TextInvHolds, PTL

LEMMA TextOnlyBeginFoldFolds ==
    ASSUME [TextNext]_allVars, phase # "folding", phase' = "folding"
    PROVE  BeginFold
<1>1. CASE TextStart \/ TextPressEsc \/ Upkeep \/ UNCHANGED allVars
  BY <1>1 DEF TextStart, StartTurn, TextPressEsc, Upkeep, BeginUpkeep, UpkeepRefused,
              ReadConversation, EndCompaction, ResumeConversation, During,
              allVars, vars
<1>2. CASE GraphStep \/ TextRunCancelled \/ ChunkAfterEsc \/ TextRunFails
  BY <1>2 DEF GraphStep, Chunk, CallTool, ToolReturns, Answer, Suspend,
              TextRunCancelled, ChunkAfterEsc, TextRunFails, Fails
<1>3. CASE TextOpenPrompt \/ TextResume \/ TextApprovalStop \/ TextGuardExhausted \/ Fallback \/ TextFinish
  BY <1>3 DEF TextOpenPrompt, TextResume, TextApprovalStop, TextGuardExhausted, Fallback,
              TextFinish, EndTurn
<1>4. CASE TextRetrying
  BY <1>4 DEF TextRetrying, TextFoldDone, FoldFails, OverflowsAgain, BeginCooldown,
              TextCooled, GiveUp, EndTurn, Overridden, RetryWith
<1>5. QED
  BY <1>1, <1>2, <1>3, <1>4 DEF TextNext, TextProgress

LEMMA TextFoldsOnce ==
    ASSUME TextInv, [TextNext]_allVars, folded, phase # "folding"
    PROVE  phase' # "folding"
<1> SUFFICES ASSUME phase' = "folding"
             PROVE  FALSE
  OBVIOUS
<1>1. BeginFold
  BY TextOnlyBeginFoldFolds
<1>2. QED
  BY <1>1 DEF TextInv, SeamsInv, Counted, BeginFold, WorthFolding

\* A turn is retried once after an overflow, however many cooldowns come
\* between.
THEOREM TextTurnsFoldOnce == TextSpec => FoldsOnce
<1>1. TextInv /\ [TextNext]_allVars
        => [folded /\ phase # "folding" => phase' # "folding"]_vars
  BY TextFoldsOnce
<1>2. QED
  BY <1>1, TextInvHolds, PTL DEF TextSpec, FoldsOnce

\* NeverAsksAfterTheModel in its parts: a run that asks the model anew, and a
\* thread it may be asked on.
Asks == phase # "running" /\ phase' = "running" /\ run' \notin {"resume", "refused"}

Askable == thread' # <<>> /\ thread'[Len(thread')] \notin {"ai", "call"}

LEMMA TextAsks ==
    ASSUME TextInv, [TextNext]_allVars, Asks
    PROVE  Askable
<1> USE DEF Asks, Askable
<1>1. CASE TextStart
  BY <1>1, Appended
     DEF TextStart, StartTurn, TextInv, SeamsInv, Lists, Kinds,
         ResultsFollowTheirCalls, Sound
<1>2. CASE Fallback
  BY <1>2 DEF Fallback, FallsBack, TextDrained, TextInv, SeamsInv, Threaded,
                    EndsWith, thread_
<1>3. CASE TextFoldDone
  <2>1. /\ snapshot = thread /\ snapshot \in Seq(Kinds) /\ thread # <<>>
        /\ thread[Len(thread)] \notin {"ai", "call"}
    BY <1>3 DEF TextFoldDone, TextInv, SeamsInv, SummariesAreCurrent, Lists,
                      Threaded, EndsWith
  <2>2. PICK cut \in Cuts(snapshot) : WriteFold(cut)
    BY <1>3 DEF TextFoldDone
  <2>3. QED
    BY <2>1, <2>2, FoldedIsSound
       DEF WriteFold, TextInv, SeamsInv, ResultsFollowTheirCalls, Sound
<1>4. CASE TextCooled
  BY <1>4 DEF TextCooled, TextInv, SeamsInv, Threaded, EndsWith, thread_
<1>5. CASE TextPressEsc \/ Upkeep \/ UNCHANGED allVars \/ TextOpenPrompt \/ TextResume
  BY <1>5 DEF TextPressEsc, Upkeep, BeginUpkeep, UpkeepRefused,
            ReadConversation, EndCompaction, ResumeConversation, During,
            TextOpenPrompt, TextResume, allVars, vars
<1>6. CASE GraphStep \/ TextRunCancelled \/ ChunkAfterEsc \/ TextRunFails
  BY <1>6 DEF GraphStep, Chunk, CallTool, ToolReturns, Answer, Suspend,
            AtTheModel, Live, TextRunCancelled, ChunkAfterEsc, TextRunFails, Fails
<1>7. CASE TextApprovalStop \/ TextGuardExhausted \/ TextFinish
  BY <1>7 DEF TextApprovalStop, TextGuardExhausted, TextFinish, EndTurn
<1>8. CASE BeginFold \/ FoldFails \/ OverflowsAgain \/ BeginCooldown \/ GiveUp
  BY <1>8 DEF BeginFold, FoldFails, OverflowsAgain, BeginCooldown,
            GiveUp, EndTurn, Overridden
<1>9. QED
  BY <1>1, <1>2, <1>3, <1>4, <1>5, <1>6, <1>7, <1>8
     DEF TextNext, TextProgress, TextRetrying

\* The model is never asked to go on from its own message: the fallback looks
\* at the thread, and a run fails only where it waits for the model.
THEOREM TextIsNotAskedAfterTheModel == TextSpec => NeverAsksAfterTheModel
<1>1. TextInv /\ [TextNext]_allVars => [Asks => Askable]_vars
  BY TextAsks
<1>2. QED
  BY <1>1, TextInvHolds, PTL DEF TextSpec, NeverAsksAfterTheModel, Asks, Askable

-----------------------------------------------------------------------------
(* The string driver is a Turn. *)

\* The string driver hands its runs no signal, falls back only when it
\* streams, and calls a turn empty only at its end.
TextQuiet ==
    /\ Quiet
    /\ run # "refused"
    /\ mode = "invoke" => run # "fallback"
    /\ phase # "idle" => reason.category # "empty_response"
    /\ exhausted => rounds = MaxDrainRounds
    /\ JudgedAfterTheDrain

LEMMA ReasonOfNoted ==
    ASSUME NEW known, NEW category
    PROVE  Noted(known, category).category \in {known.category, category}
BY DEF Noted, Reason, None

LEMMA TextQuietStep ==
    ASSUME TextInv, TextQuiet, [TextNext]_allVars
    PROVE  TextQuiet'
<1> USE DEF TextQuiet, Quiet, Silent, JudgedAfterTheDrain
<1>1. CASE TextStart
  BY <1>1 DEF TextStart, StartTurn, FirstRun, Streaming, ResetReasons, TextNext, None
<1>2. CASE TextPressEsc \/ UNCHANGED allVars
  BY <1>2 DEF TextPressEsc, allVars, vars, thread_, turn_, ending_, idle_, TextNext
<1>3. CASE Upkeep
  <2>1. phase = "idle" /\ phase' = "idle" /\ pending' = pending
    BY <1>3 DEF Upkeep, BeginUpkeep, PromptIsFree, UpkeepRefused, ReadConversation,
                EndCompaction, ResumeConversation, During, WriteFold, thread_,
                TextInv, SeamsInv, Threaded
  <2>2. UNCHANGED <<run, reason, agentReason, mode, exhausted, rounds>>
    BY <1>3 DEF Upkeep, BeginUpkeep, UpkeepRefused, ReadConversation,
                EndCompaction, ResumeConversation, During, turn_, ending_,
                allVars, vars, TextNext
  <2>3. QED
    BY <2>1, <2>2
<1>4. CASE GraphStep
  <2>1. CASE \E withText \in BOOLEAN, category \in {"none", "output_truncated"} :
                Answer(withText, category)
    <3>1. PICK category \in {"none", "output_truncated"} :
              agentReason' = IF category = "none" THEN agentReason
                             ELSE Noted(agentReason, category)
      BY <2>1 DEF Answer
    <3>2. agentReason'.category \in {agentReason.category, "output_truncated"}
      BY <3>1, ReasonOfNoted
    <3>3. /\ phase = "running" /\ phase' = "draining" /\ ~pending'
          /\ UNCHANGED <<run, reason, error, mode, exhausted, rounds>>
      BY <2>1 DEF Answer, Steady, AtTheModel, Live, TextInv, SeamsInv, Threaded, TextNext, allVars
    <3>4. QED
      BY <3>2, <3>3
  <2>2. CASE Chunk \/ CallTool \/ ToolReturns \/ \E withText \in BOOLEAN : Suspend(withText)
    BY <2>2 DEF Chunk, Steady, CallTool, ToolReturns, Suspend, AtTheModel, Live, ending_,
                TextNext, allVars
  <2>3. QED
    BY <1>4, <2>1, <2>2 DEF GraphStep
<1>5. CASE TextRunCancelled
  <2>1. agentReason'.category \in {agentReason.category, "cancelled"}
    BY <1>5, ReasonOfNoted DEF TextRunCancelled
  <2>2. ~pending' /\ phase = "running" /\ phase' = "draining"
        /\ UNCHANGED <<run, reason, error, mode, exhausted, rounds>>
    BY <1>5 DEF TextRunCancelled, Steady, TextInv, SeamsInv, Threaded, thread_, TextNext, allVars
  <2>3. QED
    BY <2>1, <2>2
<1>6. CASE ChunkAfterEsc
  BY <1>6 DEF ChunkAfterEsc, Steady, AtTheModel, Live, TextInv, SeamsInv, Threaded, thread_,
              ending_, TextNext, allVars
<1>7. CASE TextRunFails
  <2>1. PICK e \in Errors \ {None} :
          Fails(e, IF Streaming /\ run # "fallback"
                   THEN Noted(reason, e.category) ELSE reason)
    BY <1>7 DEF TextRunFails
  <2>2. /\ phase = "running" /\ phase' = "failed" /\ error' = e
        /\ e.category \notin {"approval_stop", "empty_response"}
        /\ UNCHANGED <<run, mode, exhausted, rounds>>
    BY <1>7, <2>1 DEF Fails, Steady, AtTheModel, Live, Errors, Failures, TextNext, allVars
  <2>3. reason'.category \in {reason.category, e.category}
    BY <2>1, ReasonOfNoted DEF Fails
  <2>4. agentReason'.category \in {agentReason.category, "stream_cut"}
    BY <2>1, ReasonOfNoted DEF Fails
  <2>5. QED
    BY <2>2, <2>3, <2>4
<1>8. CASE TextOpenPrompt \/ TextResume
  <2>1. rounds \in Nat /\ MaxDrainRounds \in Nat /\ rounds < MaxDrainRounds
    BY <1>8, BoundsAreNumbers DEF TextOpenPrompt, TextResume, TextInv, SeamsInv, Counted, Numbers
  <2>2. ~exhausted
    BY <2>1
  <2>3. CASE TextOpenPrompt
    BY <2>2, <2>3 DEF TextOpenPrompt, Draining, thread_, turn_, ending_, TextNext, allVars
  <2>4. CASE TextResume
    BY <2>2, <2>4 DEF TextResume, ending_, TextNext, allVars
  <2>5. QED
    BY <1>8, <2>3, <2>4
<1>9. CASE TextGuardExhausted
  <2>1. reason'.category \in {reason.category, "interrupt_drain_guard"}
    BY <1>9, ReasonOfNoted DEF TextGuardExhausted
  <2>2. QED
    BY <1>9, <2>1 DEF TextGuardExhausted, Draining, thread_, TextNext, allVars
<1>10. CASE TextApprovalStop
  BY <1>10, ReasonOfNoted DEF TextApprovalStop, EndTurn, TextNext, allVars
<1>11. CASE TextFinish
  <2>1. /\ phase = "draining" /\ phase' = "idle" /\ pending' = pending
        /\ UNCHANGED <<run, mode, exhausted, rounds>>
    BY <1>11 DEF TextFinish, TextDrained, EndTurn, thread_, TextNext, allVars
  <2>2. mode = "invoke" => exhausted \/ ~pending
    BY <1>11 DEF TextFinish, TextDrained, Streaming
  <2>3. exhausted \/ text => reason'.category # "empty_response"
    BY <1>11, <2>1, ReasonOfNoted DEF TextFinish, EndTurn
  <2>4. QED
    BY <2>1, <2>2, <2>3
<1>12. CASE Fallback
  BY <1>12 DEF Fallback, FallsBack, Streaming, TextDrained, ending_, TextNext, allVars
<1>13. CASE TextFoldDone \/ TextCooled
  BY <1>13 DEF TextFoldDone, TextCooled, RetryWith, ResetReasons, FirstRun, Streaming, None, TextNext, allVars
<1>14. CASE BeginFold \/ BeginCooldown
  BY <1>14 DEF BeginFold, BeginCooldown, turn_, ending_, TextNext, allVars
<1>15. CASE FoldFails \/ OverflowsAgain
  BY <1>15 DEF FoldFails, OverflowsAgain, Overridden, Reason, TextNext, allVars
<1>16. CASE GiveUp
  <2>1. error.category # "empty_response"
    BY <1>16 DEF GiveUp, TextInv, SeamsInv, Reports, Counted, Errors, Failures, None
  <2>2. reason'.category \in {reason.category, error.category} /\ phase # "idle"
    BY <1>16, ReasonOfNoted DEF GiveUp, EndTurn
  <2>3. QED
    BY <1>16, <2>1, <2>2 DEF GiveUp, EndTurn, TextNext, allVars
<1>17. QED
  BY <1>1, <1>2, <1>3, <1>4, <1>5, <1>6, <1>7, <1>8, <1>9, <1>10, <1>11, <1>12,
     <1>13, <1>14, <1>15, <1>16 DEF TextNext, TextProgress, TextRetrying

LEMMA TextQuietBegins == TextInit => TextQuiet
BY DEF TextInit, Init, TextQuiet, Quiet, Silent, JudgedAfterTheDrain, None

LEMMA TextQuietHolds == TextSpec => []TextQuiet
<1>1. TextInit => TextQuiet
  BY TextQuietBegins
<1>2. TextInv /\ TextQuiet /\ [TextNext]_allVars => TextQuiet'
  BY TextQuietStep
<1>3. QED
  BY <1>1, <1>2, TextInvHolds, PTL DEF TextSpec

\* Without streaming no turn is called empty while a call of it waits for an
\* approval.
THEOREM TextEmptinessIsJudgedLate == TextSpec => []JudgedAfterTheDrain
<1>1. TextQuiet => JudgedAfterTheDrain
  BY DEF TextQuiet
<1>2. QED
  BY <1>1, TextQuietHolds, PTL

LEMMA TextRefines ==
    ASSUME TextInv, TextInv', TextQuiet, [TextNext]_allVars
    PROVE  Abstract!Next \/ UNCHANGED Abstract!vars
<1> USE DEF TextInv, TextQuiet
<1>1. CASE TextStart
  BY <1>1, TurnStarts DEF TextStart, Abstract!Next
<1>2. CASE TextPressEsc \/ UNCHANGED allVars
  BY <1>2, TurnIsLeftAlone DEF TextPressEsc, allVars, vars, turn_, ending_, idle_
<1>3. CASE Upkeep
  BY <1>3, UpkeepTakesTurns
<1>4. CASE GraphStep
  BY <1>4, GraphGoesOn
<1>5. CASE TextRunCancelled \/ ChunkAfterEsc \/ TextRunFails \/ TextGuardExhausted \/ Fallback
  <2>1. phase \in {"running", "draining"} /\ phase' \in {"running", "draining", "failed"}
        /\ UNCHANGED <<rounds, attempt, quota>>
    BY <1>5 DEF TextRunCancelled, ChunkAfterEsc, AtTheModel, Live, TextRunFails, Fails,
                TextGuardExhausted, Draining, Fallback, FallsBack, TextDrained, Steady
  <2>2. QED
    BY <2>1, TurnStutters DEF Working, Phases
<1>6. CASE TextOpenPrompt
  BY <1>6, TurnAsks DEF TextOpenPrompt, Draining, turn_, Abstract!Next
<1>7. CASE TextResume
  BY <1>7, TurnTakesAnswers DEF TextResume, Abstract!Next
<1>8. CASE TextApprovalStop
  <2>1. reason' = Reason("approval_stop") /\ agentReason' = None
    BY <1>8 DEF TextApprovalStop, EndTurn, Noted, Quiet, Silent
  <2>2. QED
    BY <1>8, <2>1, TurnEnds DEF TextApprovalStop, EndTurn, Reported, Reason, None, idle_
<1>9. CASE TextFinish
  <2>1. /\ reason' # None /\ phase = "draining" /\ phase' = "idle"
        /\ UNCHANGED <<upkeep, rounds, attempt, quota, agentReason>>
    BY <1>9 DEF TextFinish, TextDrained, EndTurn, Noted, Reason, None, idle_
  <2>2. reason'.category # "approval_stop"
    BY <1>9, <2>1, ReasonOfNoted DEF TextFinish, EndTurn, Quiet
  <2>3. Reported'.category # "approval_stop"
    BY <2>1, <2>2 DEF Reported, Quiet
  <2>4. QED
    BY <2>1, <2>3, TurnEnds
<1>10. CASE TextFoldDone
  <2>1. attempt = 0
    BY <1>10 DEF TextFoldDone, SeamsInv, Counted
  <2>2. QED
    BY <1>10, <2>1, TurnRetries DEF TextFoldDone, Working, Phases, Abstract!Next
<1>11. CASE TextCooled
  <2>1. quota < MaxQuotaCooldowns
    BY <1>11 DEF TextCooled, SeamsInv, Counted
  <2>2. QED
    BY <1>11, <2>1, TurnRetries DEF TextCooled, Working, Phases, Abstract!Next
<1>12. CASE BeginFold \/ BeginCooldown
  BY <1>12, SeamsGoOn
<1>13. CASE GiveUp \/ FoldFails \/ OverflowsAgain
  BY <1>13, SeamsEndTurns
<1>14. QED
  BY <1>1, <1>2, <1>3, <1>4, <1>5, <1>6, <1>7, <1>8, <1>9, <1>10, <1>11, <1>12, <1>13
     DEF TextNext, TextProgress, TextRetrying

\* The string driver implements Turn: one ending per turn, from its last try,
\* with the tries and questions Turn allows and nobody else on the thread.
THEOREM TextTurnIsATurn == TextSpec => ImplementsTurn
<1>1. TextInit => Abstract!Init
  BY TurnBegins DEF TextInit
<1>2. TextInv /\ TextInv' /\ TextQuiet /\ [TextNext]_allVars
        => [Abstract!Next]_Abstract!vars
  BY TextRefines
<1>3. QED
  BY <1>1, <1>2, TextInvHolds, TextQuietHolds, PTL
     DEF TextSpec, ImplementsTurn, Abstract!Spec

-----------------------------------------------------------------------------
(* The event driver. *)

Fine == {"completed", "empty_response"}

\* A call that waits for its result has a row.
Rows ==
    /\ open \in Nat
    /\ phase # "idle" /\ EndsWith({"call"}) => open > 0

\* The runner says nothing of a turn before its end, or the drain's.
Unsaid ==
    /\ agentReason.category \notin Fine
    /\ phase # "idle" => reason.category \in {"none", "interrupt_drain_guard"}
    /\ phase # "idle" /\ ~exhausted => reason = None
    /\ phase \in {"running", "prompting"} => ~exhausted
    /\ phase = "idle" /\ aborted => reason.category \notin Fine

EventInv ==
    /\ SeamsInv
    /\ Rows
    /\ Unsaid
    /\ OrdinaryEndsCloseTheRows

LEMMA CategoryOfNoted ==
    ASSUME NEW known, NEW category
    PROVE  Noted(known, category).category \in {known.category, category}
BY DEF Noted, Reason, None

-----------------------------------------------------------------------------
(* The graph. *)

LEMMA GraphMovesStep ==
    ASSUME EventInv, GraphMoves
    PROVE  EventInv'
<1>1. SeamsInv'
  BY GraphSteps DEF GraphMoves, GraphStep, EventInv
<1>2. phase = "running" /\ thread \in Seq(Kinds) /\ reason = None /\ reason' = reason
  BY DEF GraphMoves, Chunk, CallTool, ToolReturns, Answer, Suspend, AtTheModel,
         Live, ending_, EventInv, SeamsInv, Lists, Unsaid
<1>3. CASE Chunk /\ UNCHANGED open
  <2>1. Rows'
    BY <1>3 DEF EventInv, Rows, Chunk, EndsWith, thread_
  <2>2. Unsaid' /\ OrdinaryEndsCloseTheRows'
    BY <1>2, <1>3 DEF EventInv, Unsaid, OrdinaryEndsCloseTheRows, Chunk,
                      ending_, Steady
  <2>3. QED
    BY <1>1, <2>1, <2>2 DEF EventInv
<1>4. ASSUME NEW category \in {"none", "output_truncated"},
             Answer(FALSE, category), UNCHANGED open
      PROVE  EventInv'
  <2>1. ~EndsWith({"call"})'
    <3>1. thread'[Len(thread')] = "ai"
      BY <1>4, <1>2, MessageAdded DEF Answer, Kinds, Steady, idle_, EventInv
    <3>2. QED
      BY <3>1 DEF EndsWith
  <2>2. Rows'
    BY <1>4, <2>1 DEF EventInv, Rows
  <2>3. agentReason'.category \notin Fine
    BY <1>4, CategoryOfNoted DEF EventInv, Unsaid, Answer, Fine
  <2>4. Unsaid' /\ OrdinaryEndsCloseTheRows'
    BY <1>2, <1>4, <2>3 DEF EventInv, Unsaid, OrdinaryEndsCloseTheRows, Answer,
                            Steady, None
  <2>5. QED
    BY <1>1, <2>2, <2>4 DEF EventInv
<1>5. CASE (CallTool \/ Suspend(FALSE)) /\ ShowCall
  <2>1. Rows'
    BY <1>5 DEF EventInv, Rows, ShowCall
  <2>2. /\ phase' \in {"running", "draining"}
        /\ UNCHANGED <<reason, agentReason, exhausted>>
    BY <1>2, <1>5 DEF CallTool, Suspend, ending_, Steady
  <2>3. Unsaid' /\ OrdinaryEndsCloseTheRows'
    BY <1>2, <2>2 DEF EventInv, Unsaid, OrdinaryEndsCloseTheRows
  <2>4. QED
    BY <1>1, <2>1, <2>3 DEF EventInv
<1>6. CASE ToolReturns /\ EndCall
  <2>1. open > 0 /\ open' \in Nat
    BY <1>2, <1>6 DEF EventInv, Rows, ToolReturns, Live, EndCall
  <2>2. ~EndsWith({"call"})'
    <3>1. thread'[Len(thread')] = "tool"
      BY <1>6, MessageAdded DEF ToolReturns, Kinds, Steady, idle_, EventInv
    <3>2. QED
      BY <3>1 DEF EndsWith
  <2>3. Rows'
    BY <2>1, <2>2 DEF Rows
  <2>4. Unsaid' /\ OrdinaryEndsCloseTheRows'
    BY <1>2, <1>6 DEF EventInv, Unsaid, OrdinaryEndsCloseTheRows, ToolReturns,
                      ending_, Steady
  <2>5. QED
    BY <1>1, <2>3, <2>4 DEF EventInv
<1>7. QED
  BY <1>3, <1>4, <1>5, <1>6 DEF GraphMoves

LEMMA RunCancelledStep ==
    ASSUME EventInv, EventRunCancelled
    PROVE  EventInv'
<1>1. SeamsInv'
  <2>1. text' \in BOOLEAN
    BY DEF EventInv, SeamsInv, Flags, EventRunCancelled
  <2>2. QED
    BY <2>1, RunStopsHolds DEF EventInv, EventRunCancelled
<1>2. Rows'
  BY DEF EventInv, Rows, EventRunCancelled, EndsWith, thread_
<1>3. agentReason'.category \notin Fine
  BY CategoryOfNoted DEF EventInv, Unsaid, EventRunCancelled, Fine
<1>4. Unsaid' /\ OrdinaryEndsCloseTheRows'
  BY <1>3 DEF EventInv, Unsaid, OrdinaryEndsCloseTheRows, EventRunCancelled, Steady
<1>5. QED
  BY <1>1, <1>2, <1>4 DEF EventInv

LEMMA EventRunFailsStep ==
    ASSUME EventInv, EventRunFails
    PROVE  EventInv'
<1>1. PICK e \in Errors \ {None} : Fails(e, reason)
  BY DEF EventRunFails
<1>2. SeamsInv'
  BY <1>1, FailsStep DEF EventInv, SeamsInv, Reports, Dated
<1>3. Rows'
  BY <1>1 DEF EventInv, Rows, EventRunFails, Fails, EndsWith, AtTheModel, Live, thread_
<1>4. agentReason'.category \notin Fine
  BY <1>1, CategoryOfNoted DEF EventInv, Unsaid, Fails, Fine
<1>5. Unsaid' /\ OrdinaryEndsCloseTheRows'
  BY <1>1, <1>4 DEF EventInv, Unsaid, OrdinaryEndsCloseTheRows, Fails,
                    AtTheModel, Live, Steady
<1>6. QED
  BY <1>2, <1>3, <1>5 DEF EventInv

-----------------------------------------------------------------------------
(* Esc, and the drain. *)

LEMMA PressEscStep ==
    ASSUME EventInv, EventPressEsc
    PROVE  EventInv'
<1>1. SeamsInv'
  BY EscHolds DEF EventInv, EventPressEsc
<1>2. Rows'
  BY DEF EventInv, Rows, EventPressEsc, EndsWith, thread_
<1>3. Unsaid' /\ OrdinaryEndsCloseTheRows'
  BY DEF EventInv, Unsaid, OrdinaryEndsCloseTheRows, EventPressEsc, turn_, ending_
<1>4. QED
  BY <1>1, <1>2, <1>3 DEF EventInv

LEMMA OpenPromptStep ==
    ASSUME EventInv, EventOpenPrompt
    PROVE  EventInv'
<1>1. SeamsInv'
  BY PromptHolds DEF EventInv, EventOpenPrompt, Suspended
<1>2. Rows'
  BY DEF EventInv, Rows, EventOpenPrompt, Suspended, EndsWith, thread_
<1>3. Unsaid' /\ OrdinaryEndsCloseTheRows'
  BY DEF EventInv, Unsaid, OrdinaryEndsCloseTheRows, EventOpenPrompt, Suspended,
         turn_, ending_
<1>4. QED
  BY <1>1, <1>2, <1>3 DEF EventInv

LEMMA ResumeStep ==
    ASSUME EventInv, EventResume
    PROVE  EventInv'
<1>1. SeamsInv'
  <2>1. /\ aborted \in BOOLEAN
        /\ pending' \in BOOLEAN /\ aborted' \in BOOLEAN
    BY DEF EventInv, SeamsInv, Flags, EventResume
  <2>2. run' \in {"resume", "refused"} /\ (pending' => run' = "refused")
    BY DEF EventResume, Signalled
  <2>3. QED
    BY <2>1, <2>2, ResumeHolds DEF EventInv, EventResume
<1>2. Rows'
  BY DEF EventInv, Rows, EventResume, EndsWith
<1>3. Unsaid' /\ OrdinaryEndsCloseTheRows'
  BY DEF EventInv, Unsaid, OrdinaryEndsCloseTheRows, EventResume, ending_
<1>4. QED
  BY <1>1, <1>2, <1>3 DEF EventInv

LEMMA GuardExhaustedStep ==
    ASSUME EventInv, EventGuardExhausted
    PROVE  EventInv'
<1>1. SeamsInv'
  BY GuardHolds DEF EventInv, EventGuardExhausted
<1>2. Rows'
  BY DEF EventInv, Rows, EventGuardExhausted, EndsWith, thread_
<1>3. reason'.category = "interrupt_drain_guard"
  BY DEF EventInv, Unsaid, EventGuardExhausted, Noted, Reason
<1>4. Unsaid' /\ OrdinaryEndsCloseTheRows'
  BY <1>3 DEF EventInv, Unsaid, OrdinaryEndsCloseTheRows, EventGuardExhausted, Fine
<1>5. QED
  BY <1>1, <1>2, <1>4 DEF EventInv

-----------------------------------------------------------------------------
(* The ends of a turn. *)

LEMMA EventApprovalStopStep ==
    ASSUME EventInv, EventApprovalStop
    PROVE  EventInv'
<1>1. /\ error' \in Errors /\ "approval_stop" \in Categories
      /\ error' # None
  BY DEF EventApprovalStop, Errors, Categories, Failures, None
<1>2. SeamsInv'
  BY <1>1, EndTurnHolds DEF EventInv, EventApprovalStop
<1>3. Rows'
  BY DEF EventInv, Rows, EventApprovalStop, EndTurn
<1>4. reason'.category = "approval_stop"
  BY DEF EventInv, Unsaid, EventApprovalStop, EndTurn, Noted, Reason
<1>5. Unsaid' /\ OrdinaryEndsCloseTheRows'
  BY <1>1, <1>4 DEF EventInv, Unsaid, OrdinaryEndsCloseTheRows, EventApprovalStop,
                    EndTurn, Fine
<1>6. QED
  BY <1>2, <1>3, <1>5 DEF EventInv

LEMMA EventFinishStep ==
    ASSUME EventInv, EventFinish
    PROVE  EventInv'
<1>1. SeamsInv'
  <2>1. Ending \in Categories
    BY DEF Ending, Categories
  <2>2. error' \in Errors
    BY DEF EventInv, SeamsInv, Reports, EventFinish
  <2>3. QED
    BY <2>1, <2>2, EndTurnHolds DEF EventInv, EventFinish, EventDrained
<1>2. Rows'
  BY DEF Rows, EventFinish, CloseRows, EndTurn
<1>3. ASSUME aborted
      PROVE  reason'.category \in {"none", "interrupt_drain_guard", "cancelled"}
  <2>1. Ending = "cancelled"
    BY <1>3 DEF Ending
  <2>2. reason'.category \in {reason.category, "cancelled"}
    BY <2>1, CategoryOfNoted DEF EventFinish, EndTurn
  <2>3. QED
    BY <2>2 DEF EventInv, Unsaid, EventFinish, EventDrained
<1>4. Unsaid' /\ OrdinaryEndsCloseTheRows'
  BY <1>3 DEF EventInv, Unsaid, OrdinaryEndsCloseTheRows, EventFinish, CloseRows,
              EndTurn, Fine
<1>5. QED
  BY <1>1, <1>2, <1>4 DEF EventInv

LEMMA AbandonStep ==
    ASSUME EventInv, Abandon
    PROVE  EventInv'
<1>1. SeamsInv'
  <2>1. "abandoned" \in Categories /\ error' \in Errors
    BY DEF EventInv, SeamsInv, Reports, Abandon, Categories
  <2>2. QED
    BY <2>1, EndTurnHolds DEF EventInv, Abandon, Live
<1>2. Rows'
  BY DEF EventInv, Rows, Abandon, EndTurn
<1>3. reason'.category = "abandoned"
  BY DEF EventInv, Unsaid, Abandon, Live, EndTurn, Noted, Reason
<1>4. Unsaid' /\ OrdinaryEndsCloseTheRows'
  BY <1>3 DEF EventInv, Unsaid, OrdinaryEndsCloseTheRows, Abandon, EndTurn, Fine
<1>5. QED
  BY <1>1, <1>2, <1>4 DEF EventInv

-----------------------------------------------------------------------------
(* The seams. *)

LEMMA EventRetryStep ==
    ASSUME EventInv, EventFoldDone \/ EventCooled
    PROVE  EventInv'
<1>1. Signalled("stream") \in {"stream", "invoke", "refused"}
  BY DEF Signalled
<1>2. text' \in BOOLEAN /\ inFlight' = inFlight /\ open' = open
  BY DEF EventInv, SeamsInv, Flags, EventFoldDone, EventCooled
<1>3. SeamsInv'
  BY <1>1, <1>2, FoldRetryHolds, CooldownRetryHolds DEF EventInv, EventFoldDone, EventCooled
<1>4. Rows'
  <2>1. ~EndsWith({"call"})'
    <3>1. /\ thread # <<>> /\ thread \in Seq(Kinds)
          /\ thread[Len(thread)] \notin {"call"}
      BY DEF EventInv, SeamsInv, Threaded, Lists, EndsWith, EventFoldDone, EventCooled
    <3>2. CASE EventCooled
      BY <3>1, <3>2 DEF EventCooled, EndsWith, thread_
    <3>3. CASE EventFoldDone
      <4>1. snapshot = thread
        BY <3>3 DEF EventFoldDone, EventInv, SeamsInv, SummariesAreCurrent
      <4>2. PICK cut \in Cuts(snapshot) : WriteFold(cut)
        BY <3>3 DEF EventFoldDone
      <4>3. thread'[Len(thread')] = thread[Len(thread)]
        BY <3>1, <4>1, <4>2, FoldedIsSound
           DEF WriteFold, EventInv, SeamsInv, ResultsFollowTheirCalls, Sound
      <4>4. QED
        BY <3>1, <4>3 DEF EndsWith
    <3>4. QED
      BY <3>2, <3>3
  <2>2. QED
    BY <1>2, <2>1 DEF EventInv, Rows
<1>5. Unsaid' /\ OrdinaryEndsCloseTheRows'
  BY DEF EventInv, Unsaid, OrdinaryEndsCloseTheRows, EventFoldDone, EventCooled,
         RetryWith, ResetReasons, None, Fine
<1>6. QED
  BY <1>3, <1>4, <1>5 DEF EventInv

LEMMA SeamStep ==
    ASSUME EventInv, UNCHANGED open,
           BeginFold \/ FoldFails \/ OverflowsAgain \/ BeginCooldown \/ GiveUp
    PROVE  EventInv'
<1>1. SeamsInv'
  BY SeamSteps DEF EventInv
<1>2. /\ phase # "idle" /\ error # None /\ error' = error
      /\ UNCHANGED <<thread, agentReason, exhausted, aborted>>
  BY DEF EventInv, SeamsInv, Counted, BeginFold, FoldFails, OverflowsAgain,
         BeginCooldown, GiveUp, thread_, turn_, ending_
<1>3. Rows'
  BY <1>2 DEF EventInv, Rows, EndsWith
<1>4. CASE BeginFold \/ BeginCooldown
  <2>1. reason' = reason /\ phase' \in {"folding", "cooling"}
    BY <1>4 DEF BeginFold, BeginCooldown, ending_
  <2>2. Unsaid' /\ OrdinaryEndsCloseTheRows'
    BY <1>2, <2>1 DEF EventInv, Unsaid, OrdinaryEndsCloseTheRows
  <2>3. QED
    BY <1>1, <1>3, <2>2 DEF EventInv
<1>5. CASE FoldFails \/ OverflowsAgain \/ GiveUp
  <2>1. reason'.category \notin Fine /\ phase' = "idle"
    <3>1. error.category \notin Fine
      BY <1>2 DEF EventInv, SeamsInv, Reports, Errors, Failures, Fine
    <3>2. CASE GiveUp
      BY <3>1, <3>2, CategoryOfNoted
         DEF GiveUp, EndTurn, EventInv, Unsaid, Fine
    <3>3. CASE FoldFails \/ OverflowsAgain
      BY <3>3 DEF FoldFails, OverflowsAgain, Overridden, Reason, Fine
    <3>4. QED
      BY <1>5, <3>2, <3>3 DEF GiveUp, FoldFails, OverflowsAgain, EndTurn, Overridden
  <2>2. Unsaid' /\ OrdinaryEndsCloseTheRows'
    BY <1>2, <2>1 DEF EventInv, Unsaid, OrdinaryEndsCloseTheRows
  <2>3. QED
    BY <1>1, <1>3, <2>2 DEF EventInv
<1>6. QED
  BY <1>4, <1>5

-----------------------------------------------------------------------------
(* The theorems. *)

LEMMA StartStep ==
    ASSUME EventInv, EventStart
    PROVE  EventInv'
<1>1. SeamsInv'
  BY StartTurnStep DEF EventInv, EventStart
<1>2. thread'[Len(thread')] = "human"
  BY Appended DEF EventStart, StartTurn, EventInv, SeamsInv, Lists, Kinds,
                  ResultsFollowTheirCalls, Sound
<1>3. Rows'
  BY <1>2 DEF Rows, EventStart, EndsWith
<1>4. Unsaid' /\ OrdinaryEndsCloseTheRows'
  BY DEF Unsaid, OrdinaryEndsCloseTheRows, EventStart, StartTurn, ResetReasons,
         None, Fine
<1>5. QED
  BY <1>1, <1>3, <1>4 DEF EventInv

LEMMA UpkeepStep ==
    ASSUME EventInv, Upkeep, UNCHANGED open
    PROVE  EventInv'
<1>1. SeamsInv'
  BY UpkeepSteps DEF EventInv
<1>2. /\ phase = "idle" /\ phase' = "idle"
      /\ UNCHANGED <<reason, agentReason, error, exhausted, aborted>>
  BY DEF EventInv, SeamsInv, Threaded, Upkeep, BeginUpkeep, PromptIsFree,
         UpkeepRefused, ReadConversation, EndCompaction, ResumeConversation,
         During, turn_, ending_
<1>3. Rows'
  BY <1>2 DEF EventInv, Rows
<1>4. Unsaid' /\ OrdinaryEndsCloseTheRows'
  BY <1>2 DEF EventInv, Unsaid, OrdinaryEndsCloseTheRows
<1>5. QED
  BY <1>1, <1>3, <1>4 DEF EventInv

LEMMA EventInvStep ==
    ASSUME EventInv, [EventNext]_allVars
    PROVE  EventInv'
<1>1. CASE EventProgress
  BY <1>1, GraphMovesStep, RunCancelledStep, EventRunFailsStep, OpenPromptStep,
     ResumeStep, EventApprovalStopStep, GuardExhaustedStep, EventFinishStep, EventRetryStep,
     SeamStep
     DEF EventProgress, EventRetrying
<1>2. CASE UNCHANGED allVars
  <2>1. SeamsInv'
    BY <1>2, StutterHolds DEF EventInv, allVars
  <2>2. Rows'
    BY <1>2 DEF EventInv, Rows, EndsWith, allVars, vars, thread_
  <2>3. Unsaid' /\ OrdinaryEndsCloseTheRows'
    BY <1>2 DEF EventInv, Unsaid, OrdinaryEndsCloseTheRows, allVars, vars,
                turn_, ending_
  <2>4. QED
    BY <2>1, <2>2, <2>3 DEF EventInv
<1>3. QED
  BY <1>1, <1>2, StartStep, PressEscStep, AbandonStep, UpkeepStep DEF EventNext

LEMMA EventInvBegins == EventInit => EventInv
<1> SUFFICES ASSUME EventInit
             PROVE  EventInv
  OBVIOUS
<1>1. SeamsInv /\ Rows
  BY StartHolds DEF EventInit, Init, Rows
<1>2. Unsaid /\ OrdinaryEndsCloseTheRows
  BY DEF EventInit, Init, Unsaid, OrdinaryEndsCloseTheRows, None, Fine
<1>3. QED
  BY <1>1, <1>2 DEF EventInv

LEMMA EventInvHolds == EventSpec => []EventInv
<1>1. EventInit => EventInv
  BY EventInvBegins
<1>2. EventInv /\ [EventNext]_allVars => EventInv'
  BY EventInvStep
<1>3. QED
  BY <1>1, <1>2, PTL DEF EventSpec

\* Every variable of the driver keeps its type; above all, no row is closed
\* twice.
THEOREM EventTypeCorrect == EventSpec => []TypeOK
<1>1. EventInit => mode = "events"
  BY DEF EventInit
<1>2. mode = "events" /\ [EventNext]_allVars => (mode = "events")'
  BY DEF EventNext, allVars
<1>3. EventInv /\ mode = "events" => TypeOK
  BY SeamsAreTyped DEF EventInv, Rows, Modes
<1>4. QED
  BY <1>1, <1>2, <1>3, EventInvHolds, PTL DEF EventSpec

\* A summary replaces exactly the messages it was made of.
THEOREM EventSummariesStayCurrent == EventSpec => []SummariesAreCurrent
<1>1. EventInv => SummariesAreCurrent
  BY DEF EventInv, SeamsInv
<1>2. QED
  BY <1>1, EventInvHolds, PTL

\* No fold takes a call away from its result.
THEOREM EventResultsKeepTheirCalls == EventSpec => []ResultsFollowTheirCalls
<1>1. EventInv => ResultsFollowTheirCalls
  BY DEF EventInv, SeamsInv
<1>2. QED
  BY <1>1, EventInvHolds, PTL

\* A turn the user stopped is reported as neither finished nor empty.
THEOREM EventStopsAreReported == EventSpec => []StoppedTurnsSaySo
<1>1. EventInv => StoppedTurnsSaySo
  BY DEF EventInv, Unsaid, StoppedTurnsSaySo, Reported, Fine
<1>2. QED
  BY <1>1, EventInvHolds, PTL

\* An ordinary end leaves no row of its turn running.
THEOREM EventRowsAreClosed == EventSpec => []OrdinaryEndsCloseTheRows
<1>1. EventInv => OrdinaryEndsCloseTheRows
  BY DEF EventInv
<1>2. QED
  BY <1>1, EventInvHolds, PTL

LEMMA EventOnlyBeginFoldFolds ==
    ASSUME [EventNext]_allVars, phase # "folding", phase' = "folding"
    PROVE  BeginFold
<1>1. CASE EventStart \/ EventPressEsc \/ Abandon \/ Upkeep \/ UNCHANGED allVars
  BY <1>1 DEF EventStart, StartTurn, EventPressEsc, Abandon, EndTurn, Upkeep, BeginUpkeep,
              UpkeepRefused, ReadConversation, EndCompaction,
              ResumeConversation, During, allVars, vars
<1>2. CASE GraphMoves \/ EventRunCancelled \/ EventRunFails
  BY <1>2 DEF GraphMoves, Chunk, CallTool, ToolReturns, Answer, Suspend,
              EventRunCancelled, EventRunFails, Fails
<1>3. CASE EventOpenPrompt \/ EventResume \/ EventApprovalStop \/ EventGuardExhausted \/ EventFinish
  BY <1>3 DEF EventOpenPrompt, EventResume, EventApprovalStop, EventGuardExhausted, EventFinish, EndTurn
<1>4. CASE EventRetrying
  BY <1>4 DEF EventRetrying, EventFoldDone, FoldFails, OverflowsAgain, BeginCooldown,
              EventCooled, GiveUp, EndTurn, Overridden, RetryWith
<1>5. QED
  BY <1>1, <1>2, <1>3, <1>4 DEF EventNext, EventProgress

LEMMA EventFoldsOnce ==
    ASSUME EventInv, [EventNext]_allVars, folded, phase # "folding"
    PROVE  phase' # "folding"
<1> SUFFICES ASSUME phase' = "folding"
             PROVE  FALSE
  OBVIOUS
<1>1. BeginFold
  BY EventOnlyBeginFoldFolds
<1>2. QED
  BY <1>1 DEF EventInv, SeamsInv, Counted, BeginFold, WorthFolding

\* A turn is retried once after an overflow, however many cooldowns come
\* between.
THEOREM EventTurnsFoldOnce == EventSpec => FoldsOnce
<1>1. EventInv /\ [EventNext]_allVars
        => [folded /\ phase # "folding" => phase' # "folding"]_vars
  BY EventFoldsOnce
<1>2. QED
  BY <1>1, EventInvHolds, PTL DEF EventSpec, FoldsOnce

LEMMA RunsAreRefused ==
    ASSUME EventInv, [EventNext]_allVars,
           aborted, phase # "idle", phase # "running", phase' = "running"
    PROVE  run' = "refused"
<1>1. CASE EventStart \/ EventPressEsc \/ Abandon \/ Upkeep \/ UNCHANGED allVars
  BY <1>1 DEF EventStart, StartTurn, PromptIsFree, EventPressEsc, Abandon, EndTurn,
            Upkeep, BeginUpkeep, UpkeepRefused, ReadConversation,
            EndCompaction, ResumeConversation, During, allVars, vars
<1>2. CASE GraphMoves \/ EventRunCancelled \/ EventRunFails
  BY <1>2 DEF GraphMoves, Chunk, CallTool, ToolReturns, Answer, Suspend,
            AtTheModel, Live, EventRunCancelled, EventRunFails, Fails
<1>3. CASE EventOpenPrompt \/ EventApprovalStop \/ EventGuardExhausted \/ EventFinish
  BY <1>3 DEF EventOpenPrompt, EventApprovalStop, EventGuardExhausted, EventFinish, EndTurn
<1>4. CASE BeginFold \/ FoldFails \/ OverflowsAgain \/ BeginCooldown \/ GiveUp
  BY <1>4 DEF BeginFold, FoldFails, OverflowsAgain, BeginCooldown,
            GiveUp, EndTurn, Overridden
<1>5. CASE EventResume \/ EventFoldDone \/ EventCooled
  BY <1>5 DEF EventResume, EventFoldDone, EventCooled, RetryWith, Signalled
<1>6. QED
  BY <1>1, <1>2, <1>3, <1>4, <1>5 DEF EventNext, EventProgress, EventRetrying

LEMMA EventHeedsEsc ==
    ASSUME EventInv, [EventNext]_allVars
    PROVE  HeedsEsc
BY RunsAreRefused DEF HeedsEsc

\* Esc is final: whatever the turn waited for when it came, the run that
\* follows is one that LangGraph refuses.
THEOREM EventEscIsFinal == EventSpec => EscEndsTheTurn
<1>1. EventInv /\ [EventNext]_allVars
        => [mode = "events" => HeedsEsc]_vars
  BY EventHeedsEsc
<1>2. QED
  BY <1>1, EventInvHolds, PTL DEF EventSpec, EscEndsTheTurn

-----------------------------------------------------------------------------
(* The event driver is a Turn. *)

\* A run is refused only under the turn's aborted signal; the event driver
\* has no fallback.
EventQuiet ==
    /\ Quiet
    /\ run # "fallback"
    /\ phase # "idle" /\ run = "refused" => aborted
    /\ exhausted => rounds = MaxDrainRounds

LEMMA EventQuietStep ==
    ASSUME EventInv, EventQuiet, [EventNext]_allVars
    PROVE  EventQuiet'
<1> USE DEF EventQuiet, Quiet, Silent
<1>1. CASE EventStart
  BY <1>1 DEF EventStart, StartTurn, ResetReasons, None
<1>2. CASE EventPressEsc \/ UNCHANGED allVars
  BY <1>2 DEF EventPressEsc, allVars, vars, thread_, turn_, ending_, idle_
<1>3. CASE Upkeep
  <2>1. phase = "idle" /\ phase' = "idle" /\ UNCHANGED <<run, exhausted, rounds>>
    BY <1>3 DEF Upkeep, BeginUpkeep, PromptIsFree, UpkeepRefused, ReadConversation,
                EndCompaction, ResumeConversation, During, turn_,
                EventInv, SeamsInv, Threaded
  <2>2. QED
    BY <2>1
<1>4. CASE GraphMoves
  <2>1. CASE \E category \in {"none", "output_truncated"} : Answer(FALSE, category)
    <3>1. PICK category \in {"none", "output_truncated"} :
              agentReason' = IF category = "none" THEN agentReason
                             ELSE Noted(agentReason, category)
      BY <2>1 DEF Answer
    <3>2. agentReason'.category \in {agentReason.category, "output_truncated"}
      BY <3>1, CategoryOfNoted
    <3>3. /\ phase = "running" /\ phase' = "draining" /\ ~pending'
          /\ UNCHANGED <<run, reason, error, aborted, exhausted, rounds>>
      BY <2>1 DEF Answer, Steady, AtTheModel, Live, EventInv, SeamsInv, Threaded
    <3>4. QED
      BY <3>2, <3>3
  <2>2. CASE Chunk \/ CallTool \/ ToolReturns \/ Suspend(FALSE)
    <3>1. /\ phase = "running" /\ phase' \in {"running", "draining"} /\ run # "refused"
          /\ UNCHANGED <<run, reason, agentReason, error, aborted, exhausted, rounds>>
      BY <2>2 DEF Chunk, CallTool, ToolReturns, Suspend, Steady, AtTheModel, Live, ending_
    <3>2. QED
      BY <3>1
  <2>3. QED
    BY <1>4, <2>1, <2>2 DEF GraphMoves
<1>5. CASE EventRunCancelled
  <2>1. agentReason'.category \in {agentReason.category, "cancelled"}
    BY <1>5, CategoryOfNoted DEF EventRunCancelled
  <2>2. /\ phase = "running" /\ phase' = "draining"
        /\ UNCHANGED <<run, reason, error, aborted, exhausted, rounds, pending>>
        /\ run # "refused" => ~pending
    BY <1>5 DEF EventRunCancelled, Steady, EventInv, SeamsInv, Threaded, thread_
  <2>3. QED
    BY <2>1, <2>2
<1>6. CASE EventRunFails
  <2>1. PICK e \in Errors \ {None} : Fails(e, reason)
    BY <1>6 DEF EventRunFails
  <2>2. /\ phase = "running" /\ phase' = "failed" /\ error' = e
        /\ e.category # "approval_stop"
        /\ UNCHANGED <<run, reason, aborted, exhausted, rounds>>
    BY <2>1 DEF Fails, Steady, AtTheModel, Live
  <2>3. agentReason'.category \in {agentReason.category, "stream_cut"}
    BY <2>1, CategoryOfNoted DEF Fails
  <2>4. QED
    BY <2>2, <2>3
<1>7. CASE EventOpenPrompt \/ EventResume
  <2>1. rounds \in Nat /\ MaxDrainRounds \in Nat /\ rounds < MaxDrainRounds
    BY <1>7, BoundsAreNumbers DEF EventOpenPrompt, Suspended, EventResume, EventInv, SeamsInv,
                                  Counted, Numbers
  <2>2. ~exhausted
    BY <2>1
  <2>3. CASE EventOpenPrompt
    BY <2>2, <2>3 DEF EventOpenPrompt, Suspended, thread_, turn_, ending_
  <2>4. CASE EventResume
    BY <2>2, <2>4 DEF EventResume, Signalled, ending_
  <2>5. QED
    BY <1>7, <2>3, <2>4
<1>8. CASE EventGuardExhausted
  <2>1. reason'.category \in {reason.category, "interrupt_drain_guard"}
    BY <1>8, CategoryOfNoted DEF EventGuardExhausted
  <2>2. QED
    BY <1>8, <2>1 DEF EventGuardExhausted, thread_
<1>9. CASE EventApprovalStop \/ EventFinish \/ Abandon
  BY <1>9 DEF EventApprovalStop, EventFinish, Abandon, EndTurn
<1>10. CASE EventFoldDone \/ EventCooled
  BY <1>10 DEF EventFoldDone, EventCooled, RetryWith, ResetReasons, Signalled, None
<1>11. CASE BeginFold \/ BeginCooldown
  BY <1>11 DEF BeginFold, BeginCooldown, turn_, ending_
<1>12. CASE FoldFails \/ OverflowsAgain \/ GiveUp
  BY <1>12 DEF FoldFails, OverflowsAgain, Overridden, GiveUp, EndTurn
<1>13. QED
  BY <1>1, <1>2, <1>3, <1>4, <1>5, <1>6, <1>7, <1>8, <1>9, <1>10, <1>11, <1>12
     DEF EventNext, EventProgress, EventRetrying

LEMMA EventQuietBegins == EventInit => EventQuiet
BY DEF EventInit, Init, EventQuiet, Quiet, Silent, None

LEMMA EventQuietHolds == EventSpec => []EventQuiet
<1>1. EventInit => EventQuiet
  BY EventQuietBegins
<1>2. EventInv /\ EventQuiet /\ [EventNext]_allVars => EventQuiet'
  BY EventQuietStep
<1>3. QED
  BY <1>1, <1>2, EventInvHolds, PTL DEF EventSpec

LEMMA EventRefines ==
    ASSUME EventInv, EventInv', EventQuiet, [EventNext]_allVars
    PROVE  Abstract!Next \/ UNCHANGED Abstract!vars
<1> USE DEF EventInv, EventQuiet
<1>1. CASE EventStart
  BY <1>1, TurnStarts DEF EventStart, Abstract!Next
<1>2. CASE EventPressEsc \/ UNCHANGED allVars
  BY <1>2, TurnIsLeftAlone DEF EventPressEsc, allVars, vars, turn_, ending_, idle_
<1>3. CASE Upkeep
  BY <1>3, UpkeepTakesTurns
<1>4. CASE GraphMoves
  <2>1. GraphStep
    BY <1>4 DEF GraphMoves, GraphStep
  <2>2. QED
    BY <2>1, GraphGoesOn
<1>5. CASE EventRunCancelled \/ EventRunFails \/ EventGuardExhausted
  <2>1. phase \in {"running", "draining"} /\ phase' \in {"running", "draining", "failed"}
        /\ UNCHANGED <<rounds, attempt, quota>>
    BY <1>5 DEF EventRunCancelled, EventRunFails, Fails, AtTheModel, Live, EventGuardExhausted, Steady
  <2>2. QED
    BY <2>1, TurnStutters DEF Working, Phases
<1>6. CASE EventOpenPrompt
  BY <1>6, TurnAsks DEF EventOpenPrompt, Suspended, turn_, Abstract!Next
<1>7. CASE EventResume
  BY <1>7, TurnTakesAnswers DEF EventResume, Abstract!Next
<1>8. CASE EventApprovalStop
  <2>1. reason' = Reason("approval_stop") /\ agentReason' = None
    BY <1>8 DEF EventApprovalStop, EndTurn, Noted, Quiet, Silent
  <2>2. QED
    BY <1>8, <2>1, TurnEnds DEF EventApprovalStop, EndTurn, Reported, Reason, None, idle_
<1>9. CASE EventFinish \/ Abandon
  <2>1. /\ reason' # None /\ phase \in {"draining", "running"} /\ phase' = "idle"
        /\ UNCHANGED <<upkeep, rounds, attempt, quota, agentReason>>
    BY <1>9 DEF EventFinish, EventDrained, Abandon, Live, EndTurn, Noted, Reason, None, idle_
  <2>2. reason'.category # "approval_stop"
    BY <1>9, <2>1, CategoryOfNoted DEF EventFinish, Ending, Abandon, EndTurn, Quiet
  <2>3. Reported'.category # "approval_stop"
    BY <2>1, <2>2 DEF Reported, Quiet
  <2>4. QED
    BY <2>1, <2>3, TurnEnds
<1>10. CASE EventFoldDone
  <2>1. attempt = 0
    BY <1>10 DEF EventFoldDone, SeamsInv, Counted
  <2>2. QED
    BY <1>10, <2>1, TurnRetries DEF EventFoldDone, Working, Phases, Abstract!Next
<1>11. CASE EventCooled
  <2>1. quota < MaxQuotaCooldowns
    BY <1>11 DEF EventCooled, SeamsInv, Counted
  <2>2. QED
    BY <1>11, <2>1, TurnRetries DEF EventCooled, Working, Phases, Abstract!Next
<1>12. CASE BeginFold \/ BeginCooldown
  BY <1>12, SeamsGoOn
<1>13. CASE GiveUp \/ FoldFails \/ OverflowsAgain
  BY <1>13, SeamsEndTurns
<1>14. QED
  BY <1>1, <1>2, <1>3, <1>4, <1>5, <1>6, <1>7, <1>8, <1>9, <1>10, <1>11, <1>12, <1>13
     DEF EventNext, EventProgress, EventRetrying

\* The event driver implements Turn, whatever Esc and a consumer that leaves
\* do to it.
THEOREM EventTurnIsATurn == EventSpec => ImplementsTurn
<1>1. EventInit => Abstract!Init
  BY TurnBegins DEF EventInit
<1>2. EventInv /\ EventInv' /\ EventQuiet /\ [EventNext]_allVars
        => [Abstract!Next]_Abstract!vars
  BY EventRefines
<1>3. QED
  BY <1>1, <1>2, EventInvHolds, EventQuietHolds, PTL
     DEF EventSpec, ImplementsTurn, Abstract!Spec

LEMMA EventAsks ==
    ASSUME EventInv, [EventNext]_allVars, Asks
    PROVE  Askable
<1> USE DEF Asks, Askable
<1>1. CASE EventStart
  BY <1>1, Appended
     DEF EventStart, StartTurn, EventInv, SeamsInv, Lists, Kinds,
         ResultsFollowTheirCalls, Sound
<1>2. CASE EventFoldDone
  <2>1. /\ snapshot = thread /\ snapshot \in Seq(Kinds) /\ thread # <<>>
        /\ thread[Len(thread)] \notin {"ai", "call"}
    BY <1>2 DEF EventFoldDone, EventInv, SeamsInv, SummariesAreCurrent, Lists,
                Threaded, EndsWith
  <2>2. PICK cut \in Cuts(snapshot) : WriteFold(cut)
    BY <1>2 DEF EventFoldDone
  <2>3. QED
    BY <2>1, <2>2, FoldedIsSound
       DEF WriteFold, EventInv, SeamsInv, ResultsFollowTheirCalls, Sound
<1>3. CASE EventCooled
  BY <1>3 DEF EventCooled, EventInv, SeamsInv, Threaded, EndsWith, thread_
<1>4. CASE EventResume
  BY <1>4 DEF EventResume, Signalled
<1>5. CASE EventPressEsc \/ Abandon \/ Upkeep \/ UNCHANGED allVars \/ EventOpenPrompt
  BY <1>5 DEF EventPressEsc, Abandon, EndTurn, Upkeep, BeginUpkeep, UpkeepRefused,
              ReadConversation, EndCompaction, ResumeConversation, During,
              EventOpenPrompt, allVars, vars
<1>6. CASE GraphMoves \/ EventRunCancelled \/ EventRunFails
  BY <1>6 DEF GraphMoves, Chunk, CallTool, ToolReturns, Answer, Suspend,
              AtTheModel, Live, EventRunCancelled, EventRunFails, Fails
<1>7. CASE EventApprovalStop \/ EventGuardExhausted \/ EventFinish
  BY <1>7 DEF EventApprovalStop, EventGuardExhausted, EventFinish, EndTurn
<1>8. CASE BeginFold \/ FoldFails \/ OverflowsAgain \/ BeginCooldown \/ GiveUp
  BY <1>8 DEF BeginFold, FoldFails, OverflowsAgain, BeginCooldown,
              GiveUp, EndTurn, Overridden
<1>9. QED
  BY <1>1, <1>2, <1>3, <1>4, <1>5, <1>6, <1>7, <1>8
     DEF EventNext, EventProgress, EventRetrying

\* The event driver has no fallback; its retries ask on a folded thread or on
\* the one that failed while it waited for the model.
THEOREM EventsAreNotAskedAfterTheModel == EventSpec => NeverAsksAfterTheModel
<1>1. EventInv /\ [EventNext]_allVars => [Asks => Askable]_vars
  BY EventAsks
<1>2. QED
  BY <1>1, EventInvHolds, PTL DEF EventSpec, NeverAsksAfterTheModel, Asks, Askable

-----------------------------------------------------------------------------
(* A session of either driver: what each of them keeps, and that a session *)
(* keeps its driver.                                                       *)

SessionInv ==
    /\ mode # "events" => TextInv /\ TextQuiet
    /\ mode = "events" => EventInv /\ EventQuiet

LEMMA ASessionKeepsItsDriver ==
    ASSUME [TurnNext]_allVars
    PROVE  /\ mode' = mode
           /\ mode # "events" => [TextNext]_allVars
           /\ mode = "events" => [EventNext]_allVars
BY DEF TurnNext, TextNext, EventNext, allVars

LEMMA SessionInvStep ==
    ASSUME SessionInv, [TurnNext]_allVars
    PROVE  SessionInv'
<1>1. CASE mode = "events"
  <2>1. EventInv' /\ EventQuiet'
    BY <1>1, ASessionKeepsItsDriver, EventInvStep, EventQuietStep DEF SessionInv
  <2>2. QED
    BY <1>1, <2>1, ASessionKeepsItsDriver DEF SessionInv
<1>2. CASE mode # "events"
  <2>1. TextInv' /\ TextQuiet'
    BY <1>2, ASessionKeepsItsDriver, TextInvStep, TextQuietStep DEF SessionInv
  <2>2. QED
    BY <1>2, <2>1, ASessionKeepsItsDriver DEF SessionInv
<1>3. QED
  BY <1>1, <1>2

LEMMA SessionInvHolds == TurnSpec => []SessionInv
<1>1. TextInit => TextInv /\ TextQuiet /\ mode # "events"
  BY TextInvBegins, TextQuietBegins DEF TextInit
<1>2. EventInit => EventInv /\ EventQuiet /\ mode = "events"
  BY EventInvBegins, EventQuietBegins DEF EventInit
<1>3. TurnInit => SessionInv
  BY <1>1, <1>2 DEF TurnInit, SessionInv
<1>4. SessionInv /\ [TurnNext]_allVars => SessionInv'
  BY SessionInvStep
<1>5. QED
  BY <1>3, <1>4, PTL DEF TurnSpec

\* Retries, rounds, nested calls and rows stay within their types and bounds.
THEOREM SessionTypeCorrect == TurnSpec => []TypeOK
<1>1. SessionInv => TypeOK
  BY SeamsAreTyped DEF SessionInv, TextInv, EventInv, Rows, Modes
<1>2. QED
  BY <1>1, SessionInvHolds, PTL

\* No fold, of a turn or of a compaction, leaves a result without its call.
THEOREM ResultsKeepTheirCalls == TurnSpec => []ResultsFollowTheirCalls
<1>1. SessionInv => ResultsFollowTheirCalls
  BY DEF SessionInv, TextInv, EventInv, SeamsInv
<1>2. QED
  BY <1>1, SessionInvHolds, PTL

\* While a summary is being written, nobody else touches the thread.
THEOREM SummariesStayCurrent == TurnSpec => []SummariesAreCurrent
<1>1. SessionInv => SummariesAreCurrent
  BY DEF SessionInv, TextInv, EventInv, SeamsInv
<1>2. QED
  BY <1>1, SessionInvHolds, PTL

\* No turn that does not stream is called empty while a call of it waits.
THEOREM EmptinessIsJudgedLate == TurnSpec => []JudgedAfterTheDrain
<1>1. SessionInv => JudgedAfterTheDrain
  BY DEF SessionInv, TextQuiet, JudgedAfterTheDrain
<1>2. QED
  BY <1>1, SessionInvHolds, PTL

\* A turn the user stopped is reported as neither finished nor empty.
THEOREM StopsAreReported == TurnSpec => []StoppedTurnsSaySo
<1>1. SessionInv => StoppedTurnsSaySo
  BY DEF SessionInv, EventInv, Unsaid, StoppedTurnsSaySo, Reported, Fine
<1>2. QED
  BY <1>1, SessionInvHolds, PTL

\* An ordinary end leaves no row of its turn running.
THEOREM RowsAreClosed == TurnSpec => []OrdinaryEndsCloseTheRows
<1>1. SessionInv => OrdinaryEndsCloseTheRows
  BY DEF SessionInv, TextInv, EventInv, OrdinaryEndsCloseTheRows
<1>2. QED
  BY <1>1, SessionInvHolds, PTL

\* Whatever driver a session has, the model never goes on from its own message.
THEOREM TheModelIsNotAskedAfterItself == TurnSpec => NeverAsksAfterTheModel
<1>1. SessionInv /\ [TurnNext]_allVars => [Asks => Askable]_vars
  BY ASessionKeepsItsDriver, TextAsks, EventAsks DEF SessionInv
<1>2. QED
  BY <1>1, SessionInvHolds, PTL DEF TurnSpec, NeverAsksAfterTheModel, Asks, Askable

\* Esc is final in a session of events.
THEOREM EscIsFinal == TurnSpec => EscEndsTheTurn
<1>1. SessionInv /\ [TurnNext]_allVars => [mode = "events" => HeedsEsc]_vars
  BY ASessionKeepsItsDriver, EventHeedsEsc DEF SessionInv
<1>2. QED
  BY <1>1, SessionInvHolds, PTL DEF TurnSpec, EscEndsTheTurn

\* A turn is retried after an overflow once, by either driver.
THEOREM TurnsFoldOnce == TurnSpec => FoldsOnce
<1>1. SessionInv /\ [TurnNext]_allVars
        => [folded /\ phase # "folding" => phase' # "folding"]_vars
  BY ASessionKeepsItsDriver, TextFoldsOnce, EventFoldsOnce DEF SessionInv
<1>2. QED
  BY <1>1, SessionInvHolds, PTL DEF TurnSpec, FoldsOnce

\* A turn that is over says how it ended, from its last attempt.
THEOREM EndingsAreTheLastAttempts == TurnSpec => []EndingsAreCurrent
<1>1. SessionInv => EndingsAreCurrent
  BY DEF SessionInv, TextInv, EventInv, SeamsInv, Dated, EndingsAreCurrent, Reported
<1>2. QED
  BY <1>1, SessionInvHolds, PTL

\* Both drivers implement Turn, and a session is a sequence of its turns.
THEOREM SessionsAreTurns == TurnSpec => ImplementsTurn
<1>1. TurnInit => Abstract!Init
  BY TurnBegins DEF TurnInit, TextInit, EventInit
<1>2. SessionInv /\ SessionInv' /\ [TurnNext]_allVars
        => [Abstract!Next]_Abstract!vars
  BY ASessionKeepsItsDriver, TextRefines, EventRefines DEF SessionInv
<1>3. QED
  BY <1>1, <1>2, SessionInvHolds, PTL DEF TurnSpec, ImplementsTurn, Abstract!Spec

-----------------------------------------------------------------------------
(* Why a turn cannot go on for ever: what is left of it is a list of six   *)
(* counts, of which every step lowers one and raises none before it.       *)

Bit(b) == IF b THEN 1 ELSE 0

RetriesLeft == (1 - attempt) + (MaxQuotaCooldowns - quota)

CallsLeft == MaxTools - tools

RoundsLeft == MaxDrainRounds - rounds

FallbacksLeft == Bit(run # "fallback")

PhasesLeft ==
    CASE phase = "running" -> 4 [] phase = "draining" -> 3 [] phase = "prompting" -> 2
      [] phase = "failed" -> 1 [] OTHER -> 0

\* What may happen once in a phase: first text, the drain giving up, Esc, a result.
TurnsLeft ==
    (Bit(~text) + Bit(~exhausted)) + (Bit(~aborted) + Bit(EndsWith({"call"})))

Remaining ==
    <<RetriesLeft, CallsLeft, RoundsLeft, FallbacksLeft, PhasesLeft, TurnsLeft>>

\* The lexicographic order of such lists.
Fewer == LexProductOrdering(OpToRel(<, Nat), Nat, 6)

\* Every step of a turn that does not end it lowers what is left of it, whatever
\* fails, is retried, suspends or is stopped, and whoever takes the step.
TurnsWindDown ==
    [][phase # "idle" /\ phase' # "idle" => <<Remaining', Remaining>> \in Fewer]_allVars

LEMMA FewerIsWellFounded == IsWellFoundedOn(Fewer, [1..6 -> Nat])
BY NatLessThanWellFounded, WFLexProductOrdering DEF Fewer

LEMMA RemainingIsCounted ==
    ASSUME SeamsInv
    PROVE  /\ RetriesLeft \in Nat /\ CallsLeft \in Nat /\ RoundsLeft \in Nat
           /\ FallbacksLeft \in Nat /\ PhasesLeft \in Nat /\ TurnsLeft \in Nat
<1>1. RetriesLeft \in Nat /\ CallsLeft \in Nat /\ RoundsLeft \in Nat
  BY BoundsAreNumbers DEF SeamsInv, Numbers, RetriesLeft, CallsLeft, RoundsLeft
<1>2. FallbacksLeft \in Nat /\ PhasesLeft \in Nat /\ TurnsLeft \in Nat
  BY DEF FallbacksLeft, PhasesLeft, TurnsLeft, Bit
<1>3. QED
  BY <1>1, <1>2

\* What is left below a bound.
LEMMA WhatIsLeft ==
    ASSUME NEW m \in Nat, NEW k \in 0..m
    PROVE  m - k \in Nat
OBVIOUS

LEMMA RemainingStaysCounted ==
    ASSUME SeamsInv'
    PROVE  /\ RetriesLeft' \in Nat /\ CallsLeft' \in Nat /\ RoundsLeft' \in Nat
           /\ FallbacksLeft' \in Nat /\ PhasesLeft' \in Nat /\ TurnsLeft' \in Nat
<1>1. /\ attempt' \in 0..1 /\ quota' \in 0..MaxQuotaCooldowns
      /\ rounds' \in 0..MaxDrainRounds /\ tools' \in 0..MaxTools
  BY DEF SeamsInv, Numbers
<1>2. RetriesLeft' \in Nat
  <2>1. 1 - attempt' \in Nat /\ MaxQuotaCooldowns - quota' \in Nat
    BY <1>1, BoundsAreNumbers, WhatIsLeft
  <2>2. QED
    BY <2>1 DEF RetriesLeft
<1>3. CallsLeft' \in Nat
  BY <1>1, BoundsAreNumbers, WhatIsLeft DEF CallsLeft
<1>4. RoundsLeft' \in Nat
  BY <1>1, BoundsAreNumbers, WhatIsLeft DEF RoundsLeft
<1>5. FallbacksLeft' \in Nat /\ PhasesLeft' \in Nat /\ TurnsLeft' \in Nat
  BY DEF FallbacksLeft, PhasesLeft, TurnsLeft, Bit
<1>6. QED
  BY <1>2, <1>3, <1>4, <1>5

\* What one step may do to the counts.
Lowers ==
    \/ RetriesLeft' < RetriesLeft
    \/ /\ RetriesLeft' = RetriesLeft
       /\ \/ CallsLeft' < CallsLeft
          \/ /\ CallsLeft' = CallsLeft
             /\ \/ RoundsLeft' < RoundsLeft
                \/ /\ RoundsLeft' = RoundsLeft
                   /\ \/ FallbacksLeft' < FallbacksLeft
                      \/ /\ FallbacksLeft' = FallbacksLeft
                         /\ \/ PhasesLeft' < PhasesLeft
                            \/ PhasesLeft' = PhasesLeft /\ TurnsLeft' < TurnsLeft

LEMMA LowersIsFewer ==
    ASSUME SeamsInv, SeamsInv', Lowers
    PROVE  <<Remaining', Remaining>> \in Fewer
<1> DEFINE a == Remaining'
           b == Remaining
<1>1. a \in [1..6 -> Nat] /\ b \in [1..6 -> Nat]
  BY RemainingIsCounted, RemainingStaysCounted DEF Remaining
<1>2. /\ a[1] = RetriesLeft' /\ a[2] = CallsLeft' /\ a[3] = RoundsLeft'
      /\ a[4] = FallbacksLeft' /\ a[5] = PhasesLeft' /\ a[6] = TurnsLeft'
      /\ b[1] = RetriesLeft /\ b[2] = CallsLeft /\ b[3] = RoundsLeft
      /\ b[4] = FallbacksLeft /\ b[5] = PhasesLeft /\ b[6] = TurnsLeft
  BY DEF Remaining
<1> HIDE DEF a, b
<1>3. PICK j \in 1..6 : a[j] < b[j] /\ \A i \in 1..(j - 1) : a[i] = b[i]
  <2>1. \/ a[1] < b[1]
        \/ a[1] = b[1] /\ a[2] < b[2]
        \/ a[1] = b[1] /\ a[2] = b[2] /\ a[3] < b[3]
        \/ a[1] = b[1] /\ a[2] = b[2] /\ a[3] = b[3] /\ a[4] < b[4]
        \/ a[1] = b[1] /\ a[2] = b[2] /\ a[3] = b[3] /\ a[4] = b[4] /\ a[5] < b[5]
        \/ /\ a[1] = b[1] /\ a[2] = b[2] /\ a[3] = b[3] /\ a[4] = b[4] /\ a[5] = b[5]
           /\ a[6] < b[6]
    BY <1>2 DEF Lowers
  <2>2. QED
    BY <2>1
<1>4. <<a[j], b[j]>> \in OpToRel(<, Nat)
  BY <1>1, <1>3 DEF OpToRel
<1>5. <<a, b>> \in LexProductOrdering(OpToRel(<, Nat), Nat, 6)
  BY <1>1, <1>3, <1>4 DEF LexProductOrdering
<1>6. QED
  BY <1>5 DEF Fewer, a, b

\* The steps of the graph.
LEMMA GraphLowers ==
    ASSUME SeamsInv, SeamsInv', UNCHANGED mode, allVars' # allVars,
           \/ Chunk /\ UNCHANGED open
           \/ CallTool
           \/ ToolReturns
           \/ \E withText \in BOOLEAN, category \in {"none", "output_truncated"} :
                  Answer(withText, category)
           \/ \E withText \in BOOLEAN : Suspend(withText)
    PROVE  phase' # "idle" => Lowers
<1> USE BoundsAreNumbers DEF Lowers, RetriesLeft, CallsLeft, RoundsLeft, FallbacksLeft, Steady
<1>1. /\ attempt \in Nat /\ quota \in Nat /\ rounds \in Nat /\ tools \in Nat
      /\ Flags /\ thread \in Seq(Kinds)
  BY DEF SeamsInv, Numbers, Lists
<1>2. CASE Chunk /\ UNCHANGED open
  <2>1. /\ text' = TRUE /\ text = FALSE
        /\ UNCHANGED <<thread, phase, run, exhausted, aborted, attempt, quota, rounds, tools>>
    BY <1>1, <1>2 DEF Chunk, Flags, allVars, vars, thread_, turn_, ending_, idle_
  <2>2. TurnsLeft' < TurnsLeft /\ PhasesLeft' = PhasesLeft
    BY <2>1 DEF TurnsLeft, PhasesLeft, Bit, EndsWith
  <2>3. QED
    BY <2>1, <2>2
<1>3. CASE CallTool \/ \E withText \in BOOLEAN : Suspend(withText)
  BY <1>1, <1>3 DEF CallTool, Suspend
<1>4. CASE ToolReturns
  <2>1. /\ EndsWith({"call"}) /\ thread' = Append(thread, "tool")
        /\ UNCHANGED <<phase, run, text, exhausted, aborted, attempt, quota, rounds, tools>>
    BY <1>4 DEF ToolReturns
  <2>2. ~EndsWith({"call"})'
    BY <1>1, <2>1 DEF EndsWith
  <2>3. TurnsLeft' < TurnsLeft /\ PhasesLeft' = PhasesLeft
    BY <1>1, <2>1, <2>2 DEF TurnsLeft, PhasesLeft, Bit, Flags
  <2>4. QED
    BY <2>1, <2>3
<1>5. CASE \E withText \in BOOLEAN, category \in {"none", "output_truncated"} :
              Answer(withText, category)
  <2>1. /\ phase = "running" /\ phase' = "draining"
        /\ UNCHANGED <<run, attempt, quota, rounds, tools>>
    BY <1>5 DEF Answer, AtTheModel, Live
  <2>2. PhasesLeft' < PhasesLeft
    BY <2>1 DEF PhasesLeft
  <2>3. QED
    BY <2>1, <2>2
<1>6. QED
  BY <1>2, <1>3, <1>4, <1>5

\* A step to a later phase of the same try.
LEMMA AdvanceLowers ==
    ASSUME PhasesLeft' < PhasesLeft, UNCHANGED <<run, attempt, quota, rounds, tools>>
    PROVE  Lowers
BY DEF Lowers, RetriesLeft, CallsLeft, RoundsLeft, FallbacksLeft

\* The next round of the drain, and the next try.
LEMMA RoundLowers ==
    ASSUME SeamsInv, rounds' = rounds + 1, UNCHANGED <<attempt, quota, tools>>
    PROVE  Lowers
<1>1. rounds \in Nat
  BY DEF SeamsInv, Numbers
<1>2. QED
  BY <1>1, BoundsAreNumbers DEF Lowers, RetriesLeft, CallsLeft, RoundsLeft

LEMMA RetryLowers ==
    ASSUME SeamsInv, NEW how, \/ RetryWith(how, attempt + 1, quota)
                              \/ RetryWith(how, attempt, quota + 1)
    PROVE  Lowers
<1>1. attempt \in Nat /\ quota \in Nat
  BY DEF SeamsInv, Numbers
<1>2. QED
  BY <1>1, BoundsAreNumbers DEF Lowers, RetriesLeft, RetryWith

\* Esc, and the drain giving up.
LEMMA OnceLowers ==
    ASSUME SeamsInv,
           \/ ~aborted /\ aborted' = TRUE /\ UNCHANGED exhausted
           \/ ~exhausted /\ exhausted' = TRUE /\ UNCHANGED aborted,
           UNCHANGED <<thread, phase, run, text, attempt, quota, rounds, tools>>
    PROVE  Lowers
<1>1. Flags
  BY DEF SeamsInv
<1>2. TurnsLeft' < TurnsLeft /\ PhasesLeft' = PhasesLeft
  BY <1>1 DEF TurnsLeft, PhasesLeft, Bit, EndsWith, Flags
<1>3. QED
  BY <1>2 DEF Lowers, RetriesLeft, CallsLeft, RoundsLeft, FallbacksLeft

\* The seams of a failed try: a remedy, or the end.
LEMMA SeamLowers ==
    ASSUME BeginFold \/ FoldFails \/ OverflowsAgain \/ BeginCooldown \/ GiveUp,
           phase' # "idle"
    PROVE  Lowers
<1>1. /\ phase = "failed" /\ phase' \in {"folding", "cooling"}
      /\ UNCHANGED <<run, attempt, quota, rounds, tools>>
  BY DEF BeginFold, FoldFails, OverflowsAgain, BeginCooldown, GiveUp, EndTurn, Overridden, turn_
<1>2. PhasesLeft' < PhasesLeft
  BY <1>1 DEF PhasesLeft
<1>3. QED
  BY <1>1, <1>2, AdvanceLowers

LEMMA TextLowers ==
    ASSUME SeamsInv, SeamsInv', TextNext, allVars' # allVars, phase # "idle", phase' # "idle"
    PROVE  Lowers
<1>0. UNCHANGED <<mode, open>> /\ (TextStart \/ TextProgress \/ TextPressEsc \/ Upkeep)
  BY DEF TextNext
<1>1. CASE TextStart \/ Upkeep
  <2>1. Upkeep => upkeep # "none" \/ phase = "idle"
    BY DEF Upkeep, BeginUpkeep, UpkeepRefused, ReadConversation, EndCompaction,
           ResumeConversation, PromptIsFree
  <2>2. QED
    BY <1>1, <2>1 DEF TextStart, StartTurn, PromptIsFree, SeamsInv, Threaded
<1>2. CASE TextPressEsc
  BY <1>2, OnceLowers DEF TextPressEsc, thread_, turn_
<1>3. CASE GraphStep
  BY <1>0, <1>3, GraphLowers DEF GraphStep
<1>4. CASE TextRunCancelled \/ ChunkAfterEsc
  <2>1. /\ phase = "running" /\ phase' = "draining"
        /\ UNCHANGED <<run, attempt, quota, rounds, tools>>
    BY <1>4 DEF TextRunCancelled, ChunkAfterEsc, AtTheModel, Live, Steady
  <2>2. PhasesLeft' < PhasesLeft
    BY <2>1 DEF PhasesLeft
  <2>3. QED
    BY <2>1, <2>2, AdvanceLowers
<1>5. CASE TextRunFails
  <2>1. /\ phase = "running" /\ phase' = "failed"
        /\ UNCHANGED <<run, attempt, quota, rounds, tools>>
    BY <1>5 DEF TextRunFails, Fails, AtTheModel, Live, Steady
  <2>2. PhasesLeft' < PhasesLeft
    BY <2>1 DEF PhasesLeft
  <2>3. QED
    BY <2>1, <2>2, AdvanceLowers
<1>6. CASE TextOpenPrompt
  <2>1. /\ phase = "draining" /\ phase' = "prompting"
        /\ UNCHANGED <<run, attempt, quota, rounds, tools>>
    BY <1>6 DEF TextOpenPrompt, Draining, turn_
  <2>2. PhasesLeft' < PhasesLeft
    BY <2>1 DEF PhasesLeft
  <2>3. QED
    BY <2>1, <2>2, AdvanceLowers
<1>7. CASE TextResume
  BY <1>7, RoundLowers DEF TextResume, idle_
<1>8. CASE TextGuardExhausted
  BY <1>8, OnceLowers DEF TextGuardExhausted, thread_
<1>9. CASE Fallback
  <2>1. /\ run # "fallback" /\ run' = "fallback"
        /\ UNCHANGED <<attempt, quota, rounds, tools>>
    BY <1>9 DEF Fallback, FallsBack
  <2>2. QED
    BY <2>1 DEF Lowers, RetriesLeft, CallsLeft, RoundsLeft, FallbacksLeft, Bit
<1>10. CASE TextFoldDone \/ TextCooled
  BY <1>10, RetryLowers DEF TextFoldDone, TextCooled
<1>11. CASE BeginFold \/ FoldFails \/ OverflowsAgain \/ BeginCooldown \/ GiveUp
  BY <1>11, SeamLowers
<1>12. CASE TextApprovalStop \/ TextFinish
  BY <1>12 DEF TextApprovalStop, TextFinish, EndTurn
<1>13. QED
  BY <1>0, <1>1, <1>2, <1>3, <1>4, <1>5, <1>6, <1>7, <1>8, <1>9, <1>10, <1>11, <1>12
     DEF TextProgress, TextRetrying

LEMMA EventLowers ==
    ASSUME SeamsInv, SeamsInv', EventNext, allVars' # allVars, phase # "idle", phase' # "idle"
    PROVE  Lowers
<1>0. /\ UNCHANGED mode
      /\ EventStart \/ EventProgress \/ EventPressEsc \/ Abandon \/ Upkeep
  BY DEF EventNext
<1>1. CASE EventStart \/ Upkeep
  <2>1. Upkeep => upkeep # "none" \/ phase = "idle"
    BY DEF Upkeep, BeginUpkeep, UpkeepRefused, ReadConversation, EndCompaction,
           ResumeConversation, PromptIsFree
  <2>2. QED
    BY <1>1, <2>1 DEF EventStart, StartTurn, PromptIsFree, SeamsInv, Threaded
<1>2. CASE EventPressEsc
  BY <1>2, OnceLowers DEF EventPressEsc, thread_, turn_
<1>3. CASE GraphMoves
  BY <1>0, <1>3, GraphLowers DEF GraphMoves
<1>4. CASE EventRunCancelled
  <2>1. /\ phase = "running" /\ phase' = "draining"
        /\ UNCHANGED <<run, attempt, quota, rounds, tools>>
    BY <1>4 DEF EventRunCancelled, Steady
  <2>2. PhasesLeft' < PhasesLeft
    BY <2>1 DEF PhasesLeft
  <2>3. QED
    BY <2>1, <2>2, AdvanceLowers
<1>5. CASE EventRunFails
  <2>1. /\ phase = "running" /\ phase' = "failed"
        /\ UNCHANGED <<run, attempt, quota, rounds, tools>>
    BY <1>5 DEF EventRunFails, Fails, AtTheModel, Live, Steady
  <2>2. PhasesLeft' < PhasesLeft
    BY <2>1 DEF PhasesLeft
  <2>3. QED
    BY <2>1, <2>2, AdvanceLowers
<1>6. CASE EventOpenPrompt
  <2>1. /\ phase = "draining" /\ phase' = "prompting"
        /\ UNCHANGED <<run, attempt, quota, rounds, tools>>
    BY <1>6 DEF EventOpenPrompt, Suspended, turn_
  <2>2. PhasesLeft' < PhasesLeft
    BY <2>1 DEF PhasesLeft
  <2>3. QED
    BY <2>1, <2>2, AdvanceLowers
<1>7. CASE EventResume
  BY <1>7, RoundLowers DEF EventResume, idle_
<1>8. CASE EventGuardExhausted
  BY <1>8, OnceLowers DEF EventGuardExhausted, thread_
<1>9. CASE EventFoldDone \/ EventCooled
  BY <1>9, RetryLowers DEF EventFoldDone, EventCooled
<1>10. CASE BeginFold \/ FoldFails \/ OverflowsAgain \/ BeginCooldown \/ GiveUp
  BY <1>10, SeamLowers
<1>11. CASE EventApprovalStop \/ EventFinish \/ Abandon
  BY <1>11 DEF EventApprovalStop, EventFinish, Abandon, EndTurn
<1>12. QED
  BY <1>0, <1>1, <1>2, <1>3, <1>4, <1>5, <1>6, <1>7, <1>8, <1>9, <1>10, <1>11
     DEF EventProgress, EventRetrying

\* What is left of a turn in flight falls with every step (runTurn and
\* processMessagesWithEvents: attempt, quotaAttempt, the bounded drain loop), in an
\* order with no endless descent: no turn goes on for ever, not by retries nested in
\* retries nor by what the user does meanwhile, when the model makes at most MaxTools
\* calls in a turn.  That a turn is never stuck, and so ends, is TurnsEnd.
THEOREM TurnsCannotGoOnForEver ==
    /\ IsWellFoundedOn(Fewer, [1..6 -> Nat])
    /\ TurnSpec => [](phase # "idle" => Remaining \in [1..6 -> Nat]) /\ TurnsWindDown
<1>1. SessionInv => (phase # "idle" => Remaining \in [1..6 -> Nat])
  BY RemainingIsCounted DEF SessionInv, TextInv, EventInv, Remaining
<1>2. SessionInv /\ SessionInv' /\ [TurnNext]_allVars
        => [phase # "idle" /\ phase' # "idle" => <<Remaining', Remaining>> \in Fewer]_allVars
  <2> SUFFICES ASSUME SessionInv, SessionInv', TurnNext, allVars' # allVars,
                      phase # "idle", phase' # "idle"
               PROVE  <<Remaining', Remaining>> \in Fewer
    OBVIOUS
  <2>1. SeamsInv /\ SeamsInv'
    BY DEF SessionInv, TextInv, EventInv
  <2>2. Lowers
    BY <2>1, TextLowers, EventLowers DEF TurnNext
  <2>3. QED
    BY <2>1, <2>2, LowersIsFewer
<1>3. QED
  BY <1>1, <1>2, FewerIsWellFounded, SessionInvHolds, PTL DEF TurnSpec, TurnsWindDown
=============================================================================
