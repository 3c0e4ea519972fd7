------------------------- MODULE ApprovalGateProofs -------------------------
(***************************************************************************)
(* What the approval gate guarantees for every set of calls and entries,   *)
(* every rule list and every pair of bounds.                               *)
(*                                                                         *)
(* The invariants of ApprovalGate speak of the decision that was settled   *)
(* last.  They are inductive together with what each waiting stage may     *)
(* assume of the decision it waits for (Fits), and with the fact that the  *)
(* rejections a person has not heard of are among those counted (Heard).   *)
(***************************************************************************)
EXTENDS ApprovalGate, TLAPS

\* A call that passed the refusals and the hard floor.
Clear(c) == ~c.hardline /\ ~Matched(c, ConfigDeny \cup refused)

\* What is known of a decision while it waits at its stage.
Fits(d) ==
    /\ Clear(d.call)
    /\ d.stage \in {"tripwire", "rating"} => d.verdict = "none"
    /\ d.stage \in {"tripwire", "rating", "alignment"} => ~IsEscalated(d.call)
    /\ d.stage = "tripwire" => d.call.cwd # "outside"
    /\ d.stage = "alignment" => AlignmentIsAsked(d)
    /\ d.stage = "banner" => d.verdict = "attack"
    /\ d.stage = "prompt" =>
          /\ d.verdict # "attack"
          /\ d.offer # NoEntry =>
                d.offer = d.call.grant /\ d.verdict # "catastrophic" /\ rung # "bypass"

Machines == {"rater", "alignment"}

\* What is known of a settled decision.
Sound(l) ==
    /\ l.by # "none" /\ l.approve =>
          /\ l.call.hardline => l.by = "bypass"
          /\ l.by \notin {"ungated", "bypass", "person", "banner"} =>
                ~IsEscalated(l.call) /\ l.call.cwd # "outside"
          /\ l.by = "rater" => l.verdict = "safe" /\ l.floor = "none"
          /\ l.by = "alignment" => l.rung = "auto" /\ l.floor # "leak"
          /\ l.verdict = "catastrophic" => l.by = "person"
          /\ l.verdict = "attack" => l.by = "banner"
    /\ ~l.approve /\ l.by \in Machines => l.rung = "auto" /\ l.call.cwd # "outside"
    /\ l.by \in Machines /\ l.verdict = "failed" => l.by = "alignment" /\ l.floor = "host"

\* Every rejection no person has heard of is counted.
Heard ==
    turn = "running" =>
        unheard.row <= negotiation.row /\ unheard.total <= negotiation.total

IInv ==
    /\ TypeOK
    /\ decision # Idle => turn = "running" /\ Fits(decision)
    /\ Sound(last)
    /\ Heard
    /\ RejectionsReachAPerson

\* The record Settle leaves behind.
Settled(d, approve, by) ==
    [call |-> d.call, rung |-> d.rung, floor |-> d.floor,
     verdict |-> d.verdict, approve |-> approve, by |-> by]

-----------------------------------------------------------------------------
(* Types of the helpers. *)

LEMMA CallFields ==
    ASSUME NEW c \in Calls
    PROVE  /\ c.grant \in Entries \cup {NoEntry}
           /\ c.denial \in Entries \cup {NoEntry}
           /\ c.hardline \in BOOLEAN
           /\ c.floor \in Floors
           /\ c.kind \in {"shell", "malformed", "tool"}
           /\ c.cwd \in {"project", "outside", "refused"}
BY CallsAssumption DEF CallRecords, Floors

LEMMA BoundsArePositive ==
    /\ MaxConsecutiveRejections \in Nat /\ MaxConsecutiveRejections > 0
    /\ MaxRejectionsBeforeHuman \in Nat /\ MaxRejectionsBeforeHuman > 0
BY BoundsAssumption

LEMMA ResetIsCounters == Reset \in Counters
BY BoundsArePositive DEF Reset, Counters

LEMMA DecisionFields ==
    ASSUME NEW d \in Decisions
    PROVE  /\ d.stage \in Waiting
           /\ d.call \in Calls
           /\ d.rung \in Rungs
           /\ d.floor \in Floors
           /\ d.verdict \in Answers \cup {"none"}
           /\ d.offer \in Entries \cup {NoEntry}
           /\ d # Idle
BY DEF Decisions, Idle, Waiting

LEMMA ConsideredIsDecision ==
    ASSUME TypeOK, NEW c \in Calls
    PROVE  /\ Considered(c) \in Decisions
           /\ Considered(c).call = c
           /\ Considered(c).verdict = "none"
           /\ Considered(c).stage = "rating"
           /\ Considered(c).offer = NoEntry
<1>1. EffectiveFloor(c) \in Floors
  BY CallFields DEF EffectiveFloor, Floors
<1>2. QED
  BY <1>1 DEF TypeOK, Considered, Decisions, Waiting

LEMMA StagedIsDecision ==
    ASSUME NEW d \in Decisions, NEW s \in Waiting
    PROVE  LET e == [d EXCEPT !.stage = s]
           IN  /\ e \in Decisions
               /\ e.stage = s
               /\ e.call = d.call /\ e.rung = d.rung /\ e.floor = d.floor
               /\ e.verdict = d.verdict /\ e.offer = d.offer
BY DEF Decisions

LEMMA RatedIsDecision ==
    ASSUME NEW d \in Decisions, NEW a \in Answers
    PROVE  LET e == [d EXCEPT !.verdict = a]
           IN  /\ e \in Decisions
               /\ e.stage = d.stage
               /\ e.call = d.call /\ e.rung = d.rung /\ e.floor = d.floor
               /\ e.verdict = a /\ e.offer = d.offer
BY DEF Decisions

LEMMA OfferedIsDecision ==
    ASSUME NEW d \in Decisions
    PROVE  LET e == [d EXCEPT !.offer = Offer(d)]
           IN  /\ e \in Decisions
               /\ e.stage = d.stage
               /\ e.call = d.call /\ e.rung = d.rung /\ e.floor = d.floor
               /\ e.verdict = d.verdict /\ e.offer = Offer(d)
<1>1. Offer(d) \in Entries \cup {NoEntry}
  BY DecisionFields, CallFields DEF Offer
<1>2. QED
  BY <1>1 DEF Decisions

LEMMA SettledIsSettlement ==
    ASSUME NEW d \in Decisions, NEW approve \in BOOLEAN, NEW by \in Authorities
    PROVE  LET l == Settled(d, approve, by)
           IN  /\ l \in Settlements
               /\ l.call = d.call /\ l.rung = d.rung /\ l.floor = d.floor
               /\ l.verdict = d.verdict /\ l.approve = approve /\ l.by = by
BY DecisionFields DEF Settled, Settlements

-----------------------------------------------------------------------------
(* The ways a step ends, each keeping the invariant. *)

LEMMA SettleStep ==
    ASSUME IInv, turn = "running",
           NEW d \in Decisions, NEW approve \in BOOLEAN, NEW by \in Authorities,
           NEW counters \in Counters, NEW pushed \in [row : Nat, total : Nat],
           pushed.row <= counters.row, pushed.total <= counters.total,
           Settle(d, approve, by, counters, pushed),
           Sound(Settled(d, approve, by)),
           allowed' \subseteq Entries, refused' \subseteq Entries
    PROVE  IInv'
<1> USE BoundsArePositive
<1>1. /\ decision' = Idle
      /\ last' = Settled(d, approve, by)
      /\ rung' = rung /\ named' = named /\ turn' = turn
  BY DEF Settle, Settled
<1>2. negotiation' \in Counters /\ unheard' \in [row : Nat, total : Nat]
  BY DEF Settle, Counters
<1>3. Heard' /\ RejectionsReachAPerson'
  BY DEF Settle, Counters, Heard, RejectionsReachAPerson
<1>4. TypeOK'
  BY <1>1, <1>2, SettledIsSettlement DEF IInv, TypeOK
<1>5. Sound(last)'
  BY <1>1 DEF Sound, IsEscalated, Matched
<1>6. QED
  BY <1>1, <1>3, <1>4, <1>5 DEF IInv

LEMMA DecideStep ==
    ASSUME IInv, turn = "running",
           NEW d \in Decisions, NEW approve \in BOOLEAN, NEW by \in Authorities,
           Decide(d, approve, by), Sound(Settled(d, approve, by)),
           allowed' \subseteq Entries, refused' \subseteq Entries
    PROVE  IInv'
<1>1. /\ negotiation \in Counters
      /\ unheard \in [row : Nat, total : Nat]
      /\ unheard.row <= negotiation.row /\ unheard.total <= negotiation.total
  BY DEF IInv, TypeOK, Heard
<1>2. QED
  BY <1>1, SettleStep DEF Decide

LEMMA WaitStep ==
    ASSUME IInv, turn = "running", NEW d \in Decisions, NEW s \in Waiting,
           Wait(s, d), Fits([d EXCEPT !.stage = s])',
           allowed' \subseteq Entries, refused' \subseteq Entries
    PROVE  IInv'
<1>1. /\ decision' = [d EXCEPT !.stage = s]
      /\ UNCHANGED <<rung, named, negotiation, turn, last, unheard>>
  BY DEF Wait
<1>2. TypeOK'
  BY <1>1, StagedIsDecision DEF IInv, TypeOK
<1>3. Fits(decision)'
  BY <1>1
<1>4. Sound(last)'
  BY <1>1 DEF IInv, Sound, IsEscalated, Matched
<1>5. Heard' /\ RejectionsReachAPerson'
  BY <1>1 DEF IInv, Heard, RejectionsReachAPerson
<1>6. QED
  BY <1>1, <1>2, <1>3, <1>4, <1>5 DEF IInv

LEMMA StopRunStep ==
    ASSUME IInv, NEW counters \in Counters, StopRun(counters),
           allowed' \subseteq Entries, refused' \subseteq Entries
    PROVE  IInv'
<1> USE BoundsArePositive
<1>1. TypeOK'
  BY DEF IInv, TypeOK, StopRun, Reset
<1>2. Sound(last)'
  BY DEF IInv, StopRun, Sound, IsEscalated, Matched
<1>3. Heard' /\ RejectionsReachAPerson'
  BY DEF StopRun, Heard, RejectionsReachAPerson, Reset
<1>4. decision' = Idle
  BY DEF StopRun
<1>5. QED
  BY <1>1, <1>2, <1>3, <1>4 DEF IInv

LEMMA PresentStep ==
    ASSUME IInv, turn = "running", NEW d \in Decisions, NEW s \in Waiting,
           NEW counters \in Counters,
           Present(s, d, counters), Fits([d EXCEPT !.stage = s])',
           allowed' \subseteq Entries, refused' \subseteq Entries
    PROVE  IInv'
<1> USE BoundsArePositive
<1>1. /\ decision' = [d EXCEPT !.stage = s]
      /\ UNCHANGED <<rung, named, turn, last>>
      /\ negotiation' = counters
      /\ unheard' = Reset
  BY DEF Present
<1>2. TypeOK'
  BY <1>1, StagedIsDecision DEF IInv, TypeOK, Reset
<1>3. Fits(decision)'
  BY <1>1
<1>4. Sound(last)'
  BY <1>1 DEF IInv, Sound, IsEscalated, Matched
<1>5. Heard' /\ RejectionsReachAPerson'
  BY <1>1 DEF Heard, RejectionsReachAPerson, Reset, Counters
<1>6. QED
  BY <1>1, <1>2, <1>3, <1>4, <1>5 DEF IInv

LEMMA ClearStays ==
    ASSUME NEW c, Clear(c), refused' \subseteq refused
    PROVE  Clear(c)'
BY DEF Clear, Matched

LEMMA AskPersonStep ==
    ASSUME IInv, turn = "running", NEW d \in Decisions,
           Clear(d.call), d.verdict # "attack", AskPerson(d),
           allowed' \subseteq Entries, refused' = refused
    PROVE  IInv'
<1>1. refused' \subseteq Entries
  BY DEF IInv, TypeOK
<1>2. CASE Interactive
  <2>1. PICK e \in Decisions :
          /\ e.call = d.call /\ e.verdict = d.verdict /\ e.offer = Offer(d)
          /\ Present("prompt", e, Reset)
    BY <1>2, OfferedIsDecision DEF AskPerson
  <2>2. LET f == [e EXCEPT !.stage = "prompt"]
        IN  /\ f.stage = "prompt" /\ f.call = d.call
            /\ f.verdict = d.verdict /\ f.offer = Offer(d)
    BY <2>1, StagedIsDecision DEF Waiting
  <2>3. rung' = rung
    BY <2>1 DEF Present
  <2>4. Offer(d) # NoEntry =>
          Offer(d) = d.call.grant /\ d.verdict # "catastrophic" /\ rung # "bypass"
    BY DEF Offer, Verdict, Raised, OutcomeOf
  <2>5. Clear(d.call)'
    BY ClearStays
  <2>6. PICK offer : offer = Offer(d)
    OBVIOUS
  <2>7. LET f == [e EXCEPT !.stage = "prompt"]
        IN  /\ f.stage = "prompt" /\ f.call = d.call
            /\ f.verdict = d.verdict /\ f.offer = offer
    BY <2>2, <2>6
  <2>8. Fits([e EXCEPT !.stage = "prompt"])'
    BY <2>3, <2>4, <2>5, <2>6, <2>7 DEF Fits
  <2>9. QED
    BY <1>1, <2>1, <2>8, PresentStep, ResetIsCounters DEF Waiting
<1>3. CASE ~Interactive
  BY <1>1, <1>3, StopRunStep, ResetIsCounters DEF AskPerson
<1>4. QED
  BY <1>2, <1>3

LEMMA HaltStep ==
    ASSUME IInv, turn = "running", NEW d \in Decisions,
           NEW counters \in Counters,
           Clear(d.call), d.verdict = "attack", Halt(d, counters),
           allowed' \subseteq Entries, refused' = refused
    PROVE  IInv'
<1>1. refused' \subseteq Entries
  BY DEF IInv, TypeOK
<1>2. CASE Interactive
  <2>1. Present("banner", d, counters)
    BY <1>2 DEF Halt
  <2>2. LET f == [d EXCEPT !.stage = "banner"]
        IN  f.stage = "banner" /\ f.call = d.call /\ f.verdict = d.verdict
    BY StagedIsDecision DEF Waiting
  <2>3. Clear(d.call)'
    BY ClearStays
  <2>4. Fits([d EXCEPT !.stage = "banner"])'
    BY <2>2, <2>3 DEF Fits
  <2>5. QED
    BY <1>1, <2>1, <2>4, PresentStep DEF Waiting
<1>3. CASE ~Interactive
  BY <1>1, <1>3, StopRunStep DEF Halt
<1>4. QED
  BY <1>2, <1>3

LEMMA RejectStep ==
    ASSUME IInv, turn = "running", NEW d \in Decisions, NEW by \in Authorities,
           Clear(d.call), d.verdict # "attack", Reject(d, by),
           Sound(Settled(d, FALSE, by)),
           allowed' \subseteq Entries, refused' = refused
    PROVE  IInv'
<1> DEFINE counted == [row |-> negotiation.row + 1,
                       total |-> negotiation.total + 1]
           pushed  == [row |-> unheard.row + 1, total |-> unheard.total + 1]
           atBound == \/ counted.row >= MaxConsecutiveRejections
                      \/ counted.total >= MaxRejectionsBeforeHuman
<1>1. CASE atBound
  BY <1>1, AskPersonStep DEF Reject
<1>2. CASE ~atBound
  <2>1. Settle(d, FALSE, by, counted, pushed)
    BY <1>2 DEF Reject
  <2>2. counted \in Counters
    BY <1>2, BoundsArePositive DEF IInv, TypeOK, Counters
  <2>3. /\ pushed \in [row : Nat, total : Nat]
        /\ pushed.row <= counted.row /\ pushed.total <= counted.total
    BY DEF IInv, TypeOK, Heard, Counters
  <2> HIDE DEF counted, pushed
  <2>4. QED
    BY <2>1, <2>2, <2>3, SettleStep DEF IInv, TypeOK
<1>3. QED
  BY <1>1, <1>2

LEMMA ActStep ==
    ASSUME IInv, turn = "running", NEW d \in Decisions, NEW by \in Authorities,
           NEW action \in {"approve", "halt", "escalate", "reject"},
           Clear(d.call),
           action = "halt" <=> d.verdict = "attack",
           action = "approve" /\ d.call.cwd # "outside" =>
               Sound(Settled(d, TRUE, by)),
           action = "reject" /\ d.call.cwd # "outside" =>
               Sound(Settled(d, FALSE, by)),
           Act(d, action, by),
           allowed' \subseteq Entries, refused' = refused
    PROVE  IInv'
<1>1. refused' \subseteq Entries
  BY DEF IInv, TypeOK
<1>2. CASE AskPerson(d) /\ action # "halt"
  BY <1>2, AskPersonStep
<1>3. CASE action = "approve" /\ d.call.cwd # "outside" /\ Decide(d, TRUE, by)
  BY <1>1, <1>3, DecideStep
<1>4. CASE action = "halt" /\ Halt(d, Reset)
  BY <1>4, HaltStep, ResetIsCounters
<1>5. CASE action = "reject" /\ d.call.cwd # "outside" /\ Reject(d, by)
  BY <1>5, RejectStep
<1>6. QED
  BY <1>2, <1>3, <1>4, <1>5 DEF Act

LEMMA ProposeStep ==
    ASSUME IInv, NEW c \in Calls, Propose(c)
    PROVE  IInv'
<1>1. PICK remembered \in StandingApprovals(c) :
        /\ allowed' = remembered
        /\ Route(c, remembered)
  BY DEF Propose
<1>2. /\ turn = "running" /\ decision = Idle
      /\ refused' = refused /\ refused' \subseteq Entries
      /\ allowed' \subseteq Entries
  BY <1>1 DEF Propose, StandingApprovals, IInv, TypeOK
<1>3. PICK d \in Decisions :
        /\ d = Considered(c)
        /\ d.call = c /\ d.verdict = "none" /\ d.offer = NoEntry
        /\ d.stage = "rating"
  BY ConsideredIsDecision DEF IInv
<1>4. ASSUME NEW approve \in BOOLEAN, NEW by \in Authorities,
             Decide(d, approve, by),
             approve /\ c.hardline => by = "bypass",
             approve => by \in {"ungated", "bypass", "listed"},
             by \notin Machines,
             by = "listed" => ~IsEscalated(c) /\ c.cwd # "outside"
      PROVE  IInv'
  <2>1. Sound(Settled(d, approve, by))
    BY <1>3, <1>4, SettledIsSettlement DEF Sound
  <2>2. QED
    BY <1>2, <1>4, <2>1, DecideStep
<1>5. Weighed(c) => Clear(c)
  BY DEF Weighed, Admissible, IsDenied, Clear
<1>6. CASE ~IsGated(c) /\ Decide(d, TRUE, "ungated")
  <2>1. ~c.hardline
    BY <1>6, CallsAssumption DEF IsGated
  <2>2. QED
    BY <1>4, <1>6, <2>1 DEF Authorities, Machines
<1>7. CASE \/ Decide(d, FALSE, "cwd")
           \/ Decide(d, FALSE, "denied")
           \/ Decide(d, FALSE, "hardline")
  BY <1>4, <1>7 DEF Authorities, Machines
<1>8. CASE Decide(d, TRUE, "bypass")
  BY <1>4, <1>8 DEF Authorities, Machines
<1>9. CASE /\ Weighed(c)
           /\ \E e \in AllowedBy(c, remembered) :
                 IF e \in RatedEntries /\ IsRated(rung) /\ c.kind = "shell"
                 THEN Wait("tripwire", d)
                 ELSE Decide(d, TRUE, "listed")
  <2>1. ~IsEscalated(c) /\ c.cwd # "outside"
    BY <1>9 DEF AllowedBy
  <2>2. CASE Decide(d, TRUE, "listed")
    BY <1>4, <1>5, <1>9, <2>1, <2>2 DEF Authorities, Machines, Clear
  <2>3. CASE Wait("tripwire", d)
    <3>1. LET f == [d EXCEPT !.stage = "tripwire"]
          IN  f.stage = "tripwire" /\ f.call = c /\ f.verdict = "none"
      BY <1>3, StagedIsDecision DEF Waiting
    <3>2. Clear(c)' /\ ~IsEscalated(c)'
      BY <1>2, <1>5, <1>9, <2>1, ClearStays DEF IsEscalated, Matched
    <3>3. Fits([d EXCEPT !.stage = "tripwire"])'
      BY <2>1, <3>1, <3>2 DEF Fits
    <3>4. QED
      BY <1>2, <2>3, <3>3, WaitStep DEF Waiting
  <2>4. QED
    BY <1>9, <2>2, <2>3
<1>10. CASE Weighed(c) /\ ~IsEscalated(c) /\ Wait("rating", d)
  <2>1. LET f == [d EXCEPT !.stage = "rating"]
        IN  f.stage = "rating" /\ f.call = c /\ f.verdict = "none"
    BY <1>3, StagedIsDecision DEF Waiting
  <2>2. Clear(c)' /\ ~IsEscalated(c)'
    BY <1>2, <1>5, <1>10, ClearStays DEF IsEscalated, Matched
  <2>3. Fits([d EXCEPT !.stage = "rating"])'
    BY <2>1, <2>2 DEF Fits
  <2>4. QED
    BY <1>2, <1>10, <2>3, WaitStep DEF Waiting
<1>11. CASE Weighed(c) /\ AskPerson(d)
  BY <1>2, <1>3, <1>5, <1>11, AskPersonStep
<1>12. QED
  <2>1. Route(c, remembered)
    BY <1>1
  <2> HIDE DEF Decide, Weighed, Admissible
  <2>2. QED
    BY <1>3, <1>6, <1>7, <1>8, <1>9, <1>10, <1>11, <2>1 DEF Route

LEMMA SettledIsSound ==
    ASSUME NEW d \in Decisions, NEW approve \in BOOLEAN, NEW by \in Authorities,
           ~d.call.hardline,
           approve /\ by \notin {"person", "banner"} =>
               /\ ~IsEscalated(d.call) /\ d.call.cwd # "outside"
               /\ d.verdict \notin {"catastrophic", "attack"},
           by = "rater" /\ approve => d.verdict = "safe" /\ d.floor = "none",
           by = "alignment" /\ approve => d.rung = "auto" /\ d.floor # "leak",
           by = "person" => d.verdict # "attack",
           by = "banner" => d.verdict = "attack",
           ~approve /\ by \in Machines => d.rung = "auto" /\ d.call.cwd # "outside",
           by \in Machines /\ d.verdict = "failed" => by = "alignment" /\ d.floor = "host"
    PROVE  Sound(Settled(d, approve, by))
BY SettledIsSettlement DEF Sound

\* A waiting decision, as the constant the lemmas about steps speak of.
LEMMA WaitingFits ==
    ASSUME IInv, decision.stage \in Waiting
    PROVE  /\ decision \in Decisions
           /\ turn = "running"
           /\ Fits(decision)
BY DEF IInv, TypeOK, Idle, Waiting

LEMMA RaterActionFacts ==
    ASSUME NEW d \in Decisions, d.verdict \in Answers
    PROVE  /\ RaterAction(d) \in {"approve", "halt", "escalate", "reject"}
           /\ RaterAction(d) = "halt" <=> d.verdict = "attack"
           /\ RaterAction(d) = "approve" => d.verdict = "safe" /\ d.floor = "none"
           /\ RaterAction(d) = "reject" => d.verdict # "failed" /\ d.rung = "auto"
           /\ AlignmentIsAsked(d) =>
                 /\ d.rung = "auto" /\ d.floor # "leak"
                 /\ d.verdict \notin {"attack", "catastrophic"}
                 /\ d.verdict = "failed" => d.floor = "host"
<1>1. d.floor \in Floors
  BY DecisionFields
<1>2. QED
  BY <1>1 DEF RaterAction, Verdict, Raised, OutcomeOf, AlignmentIsAsked,
              IsNegotiating, Answers, Outcomes, Floors

LEMMA TripwireStep ==
    ASSUME IInv, NEW answer \in Answers, TripwireAnswers(answer)
    PROVE  IInv'
<1>1. /\ decision \in Decisions /\ turn = "running"
      /\ Clear(decision.call) /\ ~IsEscalated(decision.call)
      /\ decision.call.cwd # "outside"
  BY WaitingFits DEF TripwireAnswers, Fits, Waiting
<1>2. PICK d \in Decisions :
        /\ d = [decision EXCEPT !.verdict = answer]
        /\ d.call = decision.call /\ d.verdict = answer
  BY <1>1, RatedIsDecision
<1>3. refused' = refused /\ allowed' \subseteq Entries /\ refused' \subseteq Entries
  BY DEF TripwireAnswers, IInv, TypeOK
<1>4. CASE answer = "attack" /\ Halt(d, negotiation)
  <2>1. PICK counters \in Counters : counters = negotiation
    BY DEF IInv, TypeOK
  <2>2. Halt(d, counters)
    BY <1>4, <2>1
  <2>3. QED
    BY <1>1, <1>2, <1>3, <1>4, <2>2, HaltStep
<1>5. CASE answer = "catastrophic" /\ AskPerson(d)
  BY <1>1, <1>2, <1>3, <1>5, AskPersonStep
<1>6. CASE /\ answer \notin {"attack", "catastrophic"}
           /\ Decide(d, TRUE, "tripwire")
  <2>1. Sound(Settled(d, TRUE, "tripwire"))
    BY <1>1, <1>2, <1>6, SettledIsSound DEF Clear, Authorities, Machines
  <2>2. QED
    BY <1>1, <1>3, <1>6, <2>1, DecideStep DEF Authorities
<1>7. QED
  BY <1>2, <1>4, <1>5, <1>6 DEF TripwireAnswers

LEMMA RaterStep ==
    ASSUME IInv, NEW answer \in Answers, RaterAnswers(answer)
    PROVE  IInv'
<1>1. /\ decision \in Decisions /\ turn = "running"
      /\ Clear(decision.call) /\ ~IsEscalated(decision.call)
  BY WaitingFits DEF RaterAnswers, Fits, Waiting
<1>2. PICK d \in Decisions :
        /\ d = [decision EXCEPT !.verdict = answer]
        /\ d.call = decision.call /\ d.verdict = answer
  BY <1>1, RatedIsDecision
<1>3. refused' = refused /\ allowed' \subseteq Entries /\ refused' \subseteq Entries
  BY DEF RaterAnswers, IInv, TypeOK
<1>4. Clear(d.call)' /\ ~IsEscalated(d.call)'
  BY <1>1, <1>2, <1>3, ClearStays DEF IsEscalated, Matched
<1>5. CASE AlignmentIsAsked(d) /\ Wait("alignment", d)
  <2>1. PICK f : f = [d EXCEPT !.stage = "alignment"]
    OBVIOUS
  <2>2. /\ f.stage = "alignment" /\ f.call = d.call /\ f.rung = d.rung
        /\ f.floor = d.floor /\ f.verdict = d.verdict
    BY <2>1, StagedIsDecision DEF Waiting
  <2>3. AlignmentIsAsked(f)
    BY <1>5, <2>2 DEF AlignmentIsAsked, RaterAction, Verdict
  <2>4. AlignmentIsAsked(f)'
    BY <2>3 DEF AlignmentIsAsked, RaterAction, Verdict, Raised, OutcomeOf,
                IsNegotiating
  <2>5. Fits(f)'
    BY <1>4, <2>2, <2>4 DEF Fits
  <2>6. QED
    BY <1>1, <1>3, <1>5, <2>1, <2>5, WaitStep DEF Waiting
<1>6. CASE Act(d, RaterAction(d), "rater")
  <2>1. PICK action \in {"approve", "halt", "escalate", "reject"} :
          action = RaterAction(d)
    BY <1>2, RaterActionFacts
  <2>2. action = "approve" /\ d.call.cwd # "outside" =>
          Sound(Settled(d, TRUE, "rater"))
    BY <1>1, <1>2, <2>1, RaterActionFacts, SettledIsSound
       DEF Clear, Authorities, Machines
  <2>3. action = "reject" /\ d.call.cwd # "outside" =>
          Sound(Settled(d, FALSE, "rater"))
    BY <1>1, <1>2, <2>1, RaterActionFacts, SettledIsSound
       DEF Clear, Authorities, Machines
  <2>4. action = "halt" <=> d.verdict = "attack"
    BY <1>2, <2>1, RaterActionFacts
  <2>5. Act(d, action, "rater")
    BY <1>6, <2>1
  <2>6. QED
    BY <1>1, <1>2, <1>3, <2>2, <2>3, <2>4, <2>5, ActStep DEF Authorities
<1>7. QED
  BY <1>2, <1>5, <1>6 DEF RaterAnswers

LEMMA AlignmentStep ==
    ASSUME IInv, NEW kind \in {"approve", "suggest", "escalate", "failed"},
           AlignmentAnswers(kind)
    PROVE  IInv'
<1>1. PICK d \in Decisions :
        /\ d = decision
        /\ turn = "running"
        /\ Clear(d.call) /\ ~IsEscalated(d.call)
        /\ AlignmentIsAsked(d)
  BY WaitingFits DEF AlignmentAnswers, Fits, Waiting
<1>2. refused' = refused /\ allowed' \subseteq Entries
  BY DEF AlignmentAnswers, IInv, TypeOK
<1>3. d.verdict \in Answers \/ d.verdict = "none"
  BY DecisionFields
<1>4. /\ d.verdict \in Answers => d.verdict \notin {"attack", "catastrophic"}
      /\ d.rung = "auto" /\ d.floor # "leak"
      /\ d.verdict = "failed" => d.floor = "host"
  <2>1. CASE d.verdict \in Answers
    BY <1>1, <2>1, RaterActionFacts
  <2>2. CASE d.verdict = "none"
    BY <1>1, <2>2 DEF AlignmentIsAsked, Verdict, Raised, OutcomeOf
  <2>3. QED
    BY <1>3, <2>1, <2>2
<1>5. d.verdict \in Answers
  BY <1>1, <1>3 DEF AlignmentIsAsked, Verdict, Raised, OutcomeOf
<1>6. ASSUME NEW action \in {"approve", "escalate", "reject"},
             Act(d, action, "alignment")
      PROVE  IInv'
  <2>1. action = "approve" /\ d.call.cwd # "outside" =>
          Sound(Settled(d, TRUE, "alignment"))
    BY <1>1, <1>4, <1>5, SettledIsSound DEF Clear, Authorities, Machines
  <2>2. action = "reject" /\ d.call.cwd # "outside" =>
          Sound(Settled(d, FALSE, "alignment"))
    BY <1>1, <1>4, <1>5, SettledIsSound DEF Clear, Authorities, Machines
  <2>3. action = "halt" <=> d.verdict = "attack"
    BY <1>4, <1>5
  <2>4. QED
    BY <1>1, <1>2, <1>6, <2>1, <2>2, <2>3, ActStep DEF Authorities
<1>7. CASE Act(d, RaterAction(d), "rater")
  <2>1. PICK action \in {"approve", "halt", "escalate", "reject"} :
          action = RaterAction(d)
    BY <1>5, RaterActionFacts
  <2>2. action = "approve" /\ d.call.cwd # "outside" =>
          Sound(Settled(d, TRUE, "rater"))
    BY <1>1, <1>5, <2>1, RaterActionFacts, SettledIsSound
       DEF Clear, Authorities, Machines
  <2>3. action = "reject" /\ d.call.cwd # "outside" =>
          Sound(Settled(d, FALSE, "rater"))
    BY <1>1, <1>5, <2>1, RaterActionFacts, SettledIsSound
       DEF Clear, Authorities, Machines
  <2>4. action = "halt" <=> d.verdict = "attack"
    BY <1>5, <2>1, RaterActionFacts
  <2>5. Act(d, action, "rater")
    BY <1>7, <2>1
  <2>6. QED
    BY <1>1, <1>2, <2>2, <2>3, <2>4, <2>5, ActStep DEF Authorities
<1>8. QED
  BY <1>1, <1>6, <1>7 DEF AlignmentAnswers

LEMMA PersonStep ==
    ASSUME IInv, NEW approve \in BOOLEAN, NEW by \in {"person", "teardown"},
           decision.stage = "prompt", Decide(decision, approve, by),
           approve => by = "person",
           allowed' \subseteq Entries, refused' \subseteq Entries
    PROVE  IInv'
<1>1. PICK d \in Decisions :
        /\ d = decision
        /\ turn = "running"
        /\ Clear(d.call) /\ d.verdict # "attack"
  BY WaitingFits DEF Fits, Waiting
<1>2. Sound(Settled(d, approve, by))
  BY <1>1, SettledIsSound DEF Clear, Authorities, Machines
<1>3. QED
  BY <1>1, <1>2, DecideStep DEF Authorities

LEMMA BannerStep ==
    ASSUME IInv, NEW runAnyway \in BOOLEAN, BannerAnswered(runAnyway)
    PROVE  IInv'
<1>1. PICK d \in Decisions :
        /\ d = decision
        /\ turn = "running"
        /\ Clear(d.call) /\ d.verdict = "attack"
  BY WaitingFits DEF BannerAnswered, Fits, Waiting
<1>2. allowed' \subseteq Entries /\ refused' \subseteq Entries
  BY DEF BannerAnswered, IInv, TypeOK
<1>3. CASE Decide(d, TRUE, "banner")
  <2>1. Sound(Settled(d, TRUE, "banner"))
    BY <1>1, SettledIsSound DEF Clear, Authorities, Machines
  <2>2. QED
    BY <1>1, <1>2, <1>3, <2>1, DecideStep DEF Authorities
<1>4. CASE StopRun(negotiation)
  <2>1. PICK counters \in Counters : counters = negotiation
    BY DEF IInv, TypeOK
  <2>2. QED
    BY <1>2, <1>4, <2>1, StopRunStep
<1>5. QED
  BY <1>1, <1>3, <1>4 DEF BannerAnswered

LEMMA SessionSteps ==
    ASSUME IInv,
           \/ \E r \in Rungs : SetRung(r)
           \/ \E e \in Entries : Undeny(e)
           \/ \E hosts \in SUBSET {c \in Calls : c.floor = "host"} :
                 StartTurn(hosts)
           \/ EndTurn
           \/ ClearConversation
    PROVE  IInv'
<1> USE BoundsArePositive DEF IInv
<1>1. CASE \E r \in Rungs : SetRung(r)
  <2>1. PICK r \in Rungs : SetRung(r)
    BY <1>1
  <2>2. TypeOK' /\ Heard' /\ RejectionsReachAPerson' /\ Sound(last)'
    BY <2>1 DEF SetRung, TypeOK, Heard, RejectionsReachAPerson, Sound,
                IsEscalated, Matched
  <2>3. ASSUME decision # Idle PROVE (turn = "running" /\ Fits(decision))'
    <3>1. turn = "running" /\ Fits(decision) /\ decision.stage # "prompt"
      BY <2>1, <2>3 DEF SetRung, KeyboardIsFree
    <3>2. /\ Clear(decision.call)'
          /\ AlignmentIsAsked(decision)' = AlignmentIsAsked(decision)
          /\ IsEscalated(decision.call)' = IsEscalated(decision.call)
      BY <2>1, <3>1 DEF SetRung, Fits, Clear, Matched, IsEscalated,
           AlignmentIsAsked, RaterAction, Verdict, Raised, OutcomeOf,
           IsNegotiating
    <3>3. QED
      BY <2>1, <3>1, <3>2 DEF SetRung, Fits
  <2>4. QED
    BY <2>1, <2>2, <2>3 DEF SetRung
<1>2. CASE \E e \in Entries : Undeny(e)
  <2>1. PICK e \in Entries : Undeny(e)
    BY <1>2
  <2>2. TypeOK' /\ Heard' /\ RejectionsReachAPerson' /\ Sound(last)'
    BY <2>1 DEF Undeny, TypeOK, Heard, RejectionsReachAPerson, Sound,
                IsEscalated, Matched
  <2>3. ASSUME decision # Idle PROVE (turn = "running" /\ Fits(decision))'
    <3>1. turn = "running" /\ Fits(decision)
      BY <2>3
    <3>2. /\ Clear(decision.call)'
          /\ AlignmentIsAsked(decision)' = AlignmentIsAsked(decision)
          /\ IsEscalated(decision.call)' = IsEscalated(decision.call)
      BY <2>1, <3>1 DEF Undeny, Fits, Clear, Matched, IsEscalated,
           AlignmentIsAsked, RaterAction, Verdict, Raised, OutcomeOf,
           IsNegotiating
    <3>3. QED
      BY <2>1, <3>1, <3>2 DEF Undeny, Fits
  <2>4. QED
    BY <2>1, <2>2, <2>3 DEF Undeny
<1>3. CASE \E hosts \in SUBSET {c \in Calls : c.floor = "host"} :
             StartTurn(hosts)
  <2>1. PICK hosts \in SUBSET {c \in Calls : c.floor = "host"} :
          StartTurn(hosts)
    BY <1>3
  <2>2. decision = Idle
    BY <2>1 DEF StartTurn
  <2>3. QED
    BY <2>1, <2>2 DEF StartTurn, TypeOK, Heard, RejectionsReachAPerson,
         Sound, IsEscalated, Matched, Reset, Counters
<1>4. CASE EndTurn
  BY <1>4 DEF EndTurn, TypeOK, Heard, RejectionsReachAPerson, Sound,
       IsEscalated, Matched
<1>5. CASE ClearConversation
  <2>1. decision = Idle
    BY <1>5 DEF ClearConversation
  <2>2. QED
    BY <1>5, <2>1, ResetIsCounters DEF ClearConversation, TypeOK, Heard,
         RejectionsReachAPerson, Sound, IsEscalated, Matched
<1>6. QED
  BY <1>1, <1>2, <1>3, <1>4, <1>5

LEMMA InitIInv == Init => IInv
BY BoundsArePositive
   DEF Init, IInv, TypeOK, Reset, Counters, Sound, Heard, Idle,
       NothingSettled, Machines, RejectionsReachAPerson

LEMMA IInvIsInductive ==
    ASSUME IInv, [Next]_vars
    PROVE  IInv'
<1>1. CASE UNCHANGED vars
  <2>1. TypeOK' /\ Heard' /\ RejectionsReachAPerson' /\ Sound(last)'
    BY <1>1 DEF vars, IInv, TypeOK, Heard, RejectionsReachAPerson, Sound,
                IsEscalated, Matched
  <2>2. Fits(decision)' = Fits(decision)
    BY <1>1 DEF vars, Fits, Clear, Matched, IsEscalated, AlignmentIsAsked,
         RaterAction, Verdict, Raised, OutcomeOf, IsNegotiating
  <2>3. QED
    BY <1>1, <2>1, <2>2 DEF vars, IInv
<1>2. ASSUME NEW c \in Calls, Propose(c) PROVE IInv'
  BY <1>2, ProposeStep
<1>3. ASSUME NEW a \in Answers, TripwireAnswers(a) PROVE IInv'
  BY <1>3, TripwireStep
<1>4. ASSUME NEW a \in Answers, RaterAnswers(a) PROVE IInv'
  BY <1>4, RaterStep
<1>5. ASSUME NEW k \in {"approve", "suggest", "escalate", "failed"},
             AlignmentAnswers(k)
      PROVE  IInv'
  BY <1>5, AlignmentStep
<1>6. ASSUME NEW scope \in {"once", "session", "always"}, PersonApproves(scope)
      PROVE  IInv'
  <2>1. decision.offer \in Entries \cup {NoEntry}
    BY <1>6, WaitingFits, DecisionFields DEF PersonApproves, Waiting
  <2>2. allowed' \subseteq Entries /\ refused' \subseteq Entries
    BY <1>6, <2>1 DEF PersonApproves, IInv, TypeOK
  <2>3. QED
    BY <1>6, <2>2, PersonStep DEF PersonApproves
<1>7. ASSUME NEW scope \in {"once", "session", "always"}, PersonRejects(scope)
      PROVE  IInv'
  <2>1. decision.call.denial \in Entries \cup {NoEntry}
    BY <1>7, WaitingFits, DecisionFields, CallFields DEF PersonRejects, Waiting
  <2>2. allowed' \subseteq Entries /\ refused' \subseteq Entries
    BY <1>7, <2>1 DEF PersonRejects, IInv, TypeOK
  <2>3. QED
    BY <1>7, <2>2, PersonStep DEF PersonRejects
<1>8. CASE PromptGoesAway
  <2>1. allowed' \subseteq Entries /\ refused' \subseteq Entries
    BY <1>8 DEF PromptGoesAway, IInv, TypeOK
  <2>2. QED
    BY <1>8, <2>1, PersonStep DEF PromptGoesAway
<1>9. ASSUME NEW b \in BOOLEAN, BannerAnswered(b) PROVE IInv'
  BY <1>9, BannerStep
<1>10. QED
  BY <1>1, <1>2, <1>3, <1>4, <1>5, <1>6, <1>7, <1>8, <1>9, SessionSteps
     DEF Next

LEMMA Invariance == Spec => []IInv
BY InitIInv, IInvIsInductive, PTL DEF Spec

-----------------------------------------------------------------------------
(* The state of a decision, the counters and the remembered entries stay in *)
(* their types: in particular a counter never reaches its bound.           *)
THEOREM TypeCorrect == Spec => []TypeOK
<1>1. IInv => TypeOK
  BY DEF IInv
<1>2. QED
  BY <1>1, Invariance, PTL

(* However the rater and the alignment check answer, and however approvals  *)
(* come in between, the agent is never sent back as often as either bound   *)
(* without a person being reached or the run being stopped.                *)
THEOREM RejectionsAreBounded == Spec => []RejectionsReachAPerson
<1>1. IInv => RejectionsReachAPerson
  BY DEF IInv
<1>2. QED
  BY <1>1, Invariance, PTL

LEMMA SettledLast ==
    ASSUME IInv, last # NothingSettled
    PROVE  last \in Settlements /\ last.by # "none"
BY DEF IInv, TypeOK, Settlements, Authorities

(* A command on the hard floor is approved at the bypass rung only, and     *)
(* whatever escalates or is outside the project only by a person,      *)
(* for all rule lists and answers of the models.                           *)
THEOREM PersonsAreAsked == Spec => [](HardFloorHolds /\ EscalationsReachAPerson)
<1>1. IInv => HardFloorHolds /\ EscalationsReachAPerson
  BY SettledLast DEF IInv, Sound, HardFloorHolds, EscalationsReachAPerson
<1>2. QED
  BY <1>1, Invariance, PTL

(* A command on the hard floor is approved at the bypass rung only: no      *)
(* remembered entry, rating, alignment check or person approves it.        *)
THEOREM TheHardFloorHolds == Spec => []HardFloorHolds
BY PersonsAreAsked, PTL

(* The rater approves only what it called safe and no floor raised, the     *)
(* alignment check only at the auto rung and never past the leak floor;     *)
(* neither sends the agent back at another rung or outside the project, and *)
(* a rating that failed is left to a person, or to the alignment check that *)
(* the host floor asks for.                                                *)
THEOREM MachinesAreBounded == Spec => []MachineDecisionsAreBounded
<1>1. IInv => MachineDecisionsAreBounded
  BY SettledLast DEF IInv, Sound, Machines, MachineDecisionsAreBounded
<1>2. QED
  BY <1>1, Invariance, PTL

-----------------------------------------------------------------------------
(* The action properties, from the same invariant. *)

LEMMA OnlyAPersonGrants ==
    ASSUME IInv, [Next]_vars
    PROVE  \A e \in allowed' \ allowed :
             /\ last'.by = "person" /\ last'.approve
             /\ e = last'.call.grant
             /\ last'.verdict # "catastrophic"
             /\ rung # "bypass"
<1>1. CASE \E scope \in {"once", "session", "always"} : PersonApproves(scope)
  <2>1. PICK scope \in {"once", "session", "always"} : PersonApproves(scope)
    BY <1>1
  <2>2. PICK d \in Decisions :
          d = decision /\ d.stage = "prompt" /\ Fits(d)
    BY <2>1, WaitingFits DEF PersonApproves, Waiting
  <2>3. last' = Settled(d, TRUE, "person")
    BY <2>1, <2>2 DEF PersonApproves, Decide, Settle, Settled
  <2>4. /\ last'.by = "person" /\ last'.approve
        /\ last'.call = d.call /\ last'.verdict = d.verdict
    BY <2>3, SettledIsSettlement DEF Authorities
  <2>5. \A e \in allowed' \ allowed : e = d.offer /\ d.offer # NoEntry
    BY <2>1, <2>2 DEF PersonApproves
  <2>6. QED
    BY <2>2, <2>4, <2>5 DEF Fits
<1>2. CASE ~\E scope \in {"once", "session", "always"} : PersonApproves(scope)
  <2>1. allowed' \subseteq allowed
    BY <1>2 DEF Next, vars, Propose, StandingApprovals, TripwireAnswers,
         RaterAnswers, AlignmentAnswers, PersonRejects, PromptGoesAway,
         BannerAnswered, SetRung, Undeny, StartTurn, EndTurn,
         ClearConversation
  <2>2. QED
    BY <2>1
<1>3. QED
  BY <1>1, <1>2

(* Nothing enters the remembered approvals but the entry a person was       *)
(* offered for the call on screen, whatever the rung was when that call     *)
(* was proposed and however it was rated, short of catastrophic.           *)
THEOREM OnlyAnswersAreRemembered == Spec => GrantsAreAnswers
BY Invariance, OnlyAPersonGrants, PTL DEF Spec, GrantsAreAnswers

\* A step that settles an approval settles it for a call no refusal matches.
Answered ==
    last' # last /\ last'.approve /\ last'.by # "ungated"
      => ~Matched(last'.call, ConfigDeny \cup refused')

LEMMA SettleAnswers ==
    ASSUME NEW d \in Decisions, NEW approve \in BOOLEAN, NEW by \in Authorities,
           NEW counters, NEW pushed, Settle(d, approve, by, counters, pushed),
           approve /\ by # "ungated" => ~Matched(d.call, ConfigDeny \cup refused'),
           IInv
    PROVE  Answered
<1>1. last' = Settled(d, approve, by)
  BY DEF Settle, Settled
<1>2. /\ last'.call = d.call /\ last'.approve = approve /\ last'.by = by
  BY <1>1, SettledIsSettlement
<1>3. QED
  BY <1>2 DEF Answered

LEMMA AskPersonAnswers == ASSUME NEW d, AskPerson(d) PROVE Answered
BY DEF AskPerson, Present, StopRun, Answered

LEMMA HaltAnswers == ASSUME NEW d, NEW c, Halt(d, c) PROVE Answered
BY DEF Halt, Present, StopRun, Answered

LEMMA ActAnswers ==
    ASSUME IInv, NEW d \in Decisions, NEW by \in Authorities, NEW action,
           Clear(d.call), Act(d, action, by), refused' = refused
    PROVE  Answered
<1>1. CASE AskPerson(d)
  BY <1>1, AskPersonAnswers
<1>2. CASE Decide(d, TRUE, by)
  BY <1>2, SettleAnswers DEF Decide, Clear
<1>3. CASE Halt(d, Reset)
  BY <1>3, HaltAnswers
<1>4. CASE Reject(d, by)
  BY <1>1, <1>4, SettleAnswers DEF Reject
<1>5. QED
  BY <1>1, <1>2, <1>3, <1>4 DEF Act

LEMMA ProposeAnswers ==
    ASSUME IInv, NEW c \in Calls, Propose(c)
    PROVE  Answered
<1>1. PICK d \in Decisions : d = Considered(c) /\ d.call = c
  BY ConsideredIsDecision DEF IInv
<1>2. refused' = refused
  BY DEF Propose
<1>3. ASSUME NEW approve \in BOOLEAN, NEW by \in Authorities,
             Decide(d, approve, by),
             approve /\ by # "ungated" => ~Matched(c, ConfigDeny \cup refused)
      PROVE  Answered
  BY <1>1, <1>2, <1>3, SettleAnswers DEF Decide
<1>4. Admissible(c) => ~Matched(c, ConfigDeny \cup refused)
  BY DEF Admissible, IsDenied
<1>5. CASE Decide(d, TRUE, "ungated")
  BY <1>3, <1>5 DEF Authorities
<1>6. CASE \/ Decide(d, FALSE, "cwd")
           \/ Decide(d, FALSE, "denied")
           \/ Decide(d, FALSE, "hardline")
  BY <1>3, <1>6 DEF Authorities
<1>7. CASE /\ Admissible(c)
           /\ Decide(d, TRUE, "bypass") \/ Decide(d, TRUE, "listed")
  BY <1>3, <1>4, <1>7 DEF Authorities
<1>8. CASE Wait("tripwire", d) \/ Wait("rating", d)
  BY <1>8 DEF Wait, Answered
<1>9. CASE AskPerson(d)
  BY <1>9, AskPersonAnswers
<1>10. QED
  <2>1. PICK remembered \in StandingApprovals(c) : Route(c, remembered)
    BY DEF Propose
  <2>2. Weighed(c) => Admissible(c)
    BY DEF Weighed
  <2> HIDE DEF Decide, Weighed, Admissible
  <2>3. QED
    BY <1>1, <1>5, <1>6, <1>7, <1>8, <1>9, <2>1, <2>2 DEF Route

LEMMA EveryStepAnswers ==
    ASSUME IInv, [Next]_vars
    PROVE  Answered
<1>1. CASE last' = last
  BY <1>1 DEF Answered
<1>2. ASSUME NEW c \in Calls, Propose(c) PROVE Answered
  BY <1>2, ProposeAnswers
<1>3. ASSUME NEW a \in Answers, TripwireAnswers(a) PROVE Answered
  <2>1. /\ decision \in Decisions /\ Clear(decision.call)
        /\ refused' = refused
    BY <1>3, WaitingFits DEF TripwireAnswers, Fits, Waiting
  <2>2. PICK d \in Decisions :
          d = [decision EXCEPT !.verdict = a] /\ d.call = decision.call
    BY <2>1, RatedIsDecision
  <2>3. CASE Halt(d, negotiation) \/ AskPerson(d)
    BY <2>3, HaltAnswers, AskPersonAnswers
  <2>4. CASE Decide(d, TRUE, "tripwire")
    BY <2>1, <2>2, <2>4, SettleAnswers DEF Decide, Clear, Authorities
  <2>5. QED
    BY <1>3, <2>2, <2>3, <2>4 DEF TripwireAnswers
<1>4. ASSUME NEW a \in Answers, RaterAnswers(a) PROVE Answered
  <2>1. /\ decision \in Decisions /\ Clear(decision.call)
        /\ refused' = refused
    BY <1>4, WaitingFits DEF RaterAnswers, Fits, Waiting
  <2>2. PICK d \in Decisions :
          d = [decision EXCEPT !.verdict = a] /\ d.call = decision.call
    BY <2>1, RatedIsDecision
  <2>3. CASE Wait("alignment", d)
    BY <2>3 DEF Wait, Answered
  <2>4. CASE Act(d, RaterAction(d), "rater")
    BY <2>1, <2>2, <2>4, ActAnswers DEF Authorities
  <2>5. QED
    BY <1>4, <2>2, <2>3, <2>4 DEF RaterAnswers
<1>5. ASSUME NEW k \in {"approve", "suggest", "escalate", "failed"},
             AlignmentAnswers(k)
      PROVE  Answered
  <2>1. PICK d \in Decisions :
          d = decision /\ Clear(d.call) /\ refused' = refused
    BY <1>5, WaitingFits DEF AlignmentAnswers, Fits, Waiting
  <2>2. QED
    BY <1>5, <2>1, ActAnswers DEF AlignmentAnswers, Authorities
<1>6. CASE \/ \E scope \in {"once", "session", "always"} : PersonApproves(scope)
           \/ \E b \in BOOLEAN : BannerAnswered(b)
  <2>1. PICK d \in Decisions : d = decision /\ Clear(d.call)
    BY <1>6, WaitingFits DEF PersonApproves, BannerAnswered, Fits, Waiting
  <2>2. refused' = refused
    BY <1>6 DEF PersonApproves, BannerAnswered
  <2>3. CASE Decide(d, TRUE, "person") \/ Decide(d, TRUE, "banner")
    BY <2>1, <2>2, <2>3, SettleAnswers DEF Decide, Clear, Authorities
  <2>4. CASE StopRun(negotiation)
    BY <2>4 DEF StopRun, Answered
  <2>5. QED
    BY <1>6, <2>1, <2>3, <2>4 DEF PersonApproves, BannerAnswered
<1>7. CASE \/ \E scope \in {"once", "session", "always"} : PersonRejects(scope)
           \/ PromptGoesAway
  <2>1. PICK d \in Decisions : d = decision
    BY <1>7, WaitingFits DEF PersonRejects, PromptGoesAway, Waiting
  <2>2. Decide(d, FALSE, "person") \/ Decide(d, FALSE, "teardown")
    BY <1>7, <2>1 DEF PersonRejects, PromptGoesAway
  <2>3. QED
    BY <2>2, SettleAnswers DEF Decide, Authorities
<1>8. CASE \/ UNCHANGED vars
           \/ \E r \in Rungs : SetRung(r)
           \/ \E e \in Entries : Undeny(e)
           \/ \E hosts \in SUBSET {c \in Calls : c.floor = "host"} :
                 StartTurn(hosts)
           \/ EndTurn
           \/ ClearConversation
  BY <1>1, <1>8 DEF vars, SetRung, Undeny, StartTurn, EndTurn,
       ClearConversation
<1>9. QED
  BY <1>2, <1>3, <1>4, <1>5, <1>6, <1>7, <1>8 DEF Next

(* No call that a deny entry in force matches, declared or remembered, is   *)
(* approved by anyone, also when the decision began before other answers    *)
(* and mode changes came in.                                               *)
THEOREM RefusalsAreFinal == Spec => RefusalsHold
<1>1. IInv /\ [Next]_vars => Answered
  BY EveryStepAnswers
<1>2. QED
  BY <1>1, Invariance, PTL DEF Spec, RefusalsHold, Answered
=============================================================================
