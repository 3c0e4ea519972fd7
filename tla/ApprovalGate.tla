---------------------------- MODULE ApprovalGate ----------------------------
(***************************************************************************)
(* The approval gate of GthAgentRunner: what happens to one tool call the  *)
(* agent proposes, from the interrupt to the answer it is resumed with.    *)
(*                                                                         *)
(* A call is decided by a chain of stages (rules, hard floor, rater,       *)
(* alignment check, person), each of which may settle it, stop the run, or *)
(* pass it on.  Three of them wait for an answer, and while they wait the  *)
(* user may change the approval mode ("rung").  A rejection by the rater   *)
(* goes back to the agent, which may propose again: the negotiation, bound *)
(* by two counters that end it in front of a person.                       *)
(*                                                                         *)
(* Calls are decided one after the other, so the model holds one decision; *)
(* what an answer leaves behind is kept as two sets of entries, whose      *)
(* storage is the subject of ApprovalGrants.                               *)
(***************************************************************************)
EXTENDS Naturals

CONSTANTS
    Calls,             \* tool calls the agent may propose
    Entries,           \* approval entries: config rules and remembered answers
    NoEntry,           \* no entry can be offered for a call
    Covers,            \* [Entries -> SUBSET Calls]: matches as an allow entry
    Forbids,           \* [Entries -> SUBSET Calls]: matches, or cannot be
                       \*   decided, as a deny or escalate entry
    ConfigAllow, ConfigDeny, ConfigEscalate,   \* the declared lists
    RatedEntries,      \* allow entries that still have the call rated
    Interactive,       \* TRUE: there is a person to ask
    MaxConsecutiveRejections,   \* 3 in the code
    MaxRejectionsBeforeHuman    \* 9 in the code

Rungs == {"manual", "write", "assisted", "auto", "bypass"}

\* "malformed": the shell tool called without a command string.
CallRecords == [kind     : {"shell", "malformed", "tool"},
                cwd      : {"project", "outside", "refused"},
                floor    : {"none", "host", "leak"},
                hardline : BOOLEAN,
                freeAt   : SUBSET {"manual", "write"},
                grant    : Entries \cup {NoEntry},
                denial   : Entries \cup {NoEntry}]

ASSUME CallsAssumption ==
    /\ Calls \subseteq CallRecords
    /\ \A c \in Calls : c.kind # "shell" =>
          c.cwd = "project" /\ c.floor = "none" /\ ~c.hardline
    /\ \A c \in Calls : c.kind # "tool" => c.freeAt = {}
    /\ NoEntry \notin Entries

ASSUME RulesAssumption ==
    /\ Covers \in [Entries -> SUBSET Calls]
    /\ Forbids \in [Entries -> SUBSET Calls]
    /\ {ConfigAllow, ConfigDeny, ConfigEscalate, RatedEntries}
          \subseteq SUBSET Entries

ASSUME BoundsAssumption ==
    /\ Interactive \in BOOLEAN
    /\ MaxConsecutiveRejections \in Nat \ {0}
    /\ MaxRejectionsBeforeHuman \in Nat \ {0}

VARIABLES
    rung,         \* sessionApprovals.rung: live, /approvals changes it
    allowed,      \* entries the user approved for later calls
    refused,      \* entries the user refused for later calls
    named,        \* calls whose hosts the user's retained messages name
    negotiation,  \* ShellNegotiationState: the two counters
    turn,         \* "idle", "running", "stopped" (the run ended in an error)
    decision,     \* the call being decided and what it was decided from
    last,         \* history: the latest settled decision
    unheard       \* history: rejections handed to the agent and not yet
                  \*   followed by a person (total) or an approval (row)

vars == <<rung, allowed, refused, named, negotiation, turn, decision, last,
          unheard>>

Waiting == {"tripwire", "rating", "alignment", "banner", "prompt"}

Idle == [stage |-> "none"]

Floors == {"none", "host", "leak"}

Outcomes == {"safe", "destructive", "catastrophic", "attack"}

\* What the rater call comes back with; "failed" is every fail-closed cause.
Answers == Outcomes \cup {"failed"}

Decisions ==
    [stage : Waiting, call : Calls, rung : Rungs, floor : Floors,
     verdict : Answers \cup {"none"}, offer : Entries \cup {NoEntry}]

Authorities == {"ungated", "cwd", "denied", "bypass", "hardline", "listed",
                "tripwire", "rater", "alignment", "person", "banner",
                "teardown"}

Settlements ==
    [call : Calls, rung : Rungs, floor : Floors,
     verdict : Answers \cup {"none"}, approve : BOOLEAN, by : Authorities]

NothingSettled == [by |-> "none"]

Counters == [row : 0..MaxConsecutiveRejections - 1,
             total : 0..MaxRejectionsBeforeHuman - 1]

Reset == [row |-> 0, total |-> 0]

TypeOK ==
    /\ rung \in Rungs
    /\ allowed \subseteq Entries
    /\ refused \subseteq Entries
    /\ named \subseteq Calls
    /\ negotiation \in Counters
    /\ turn \in {"idle", "running", "stopped"}
    /\ decision \in Decisions \cup {Idle}
    /\ last \in Settlements \cup {NothingSettled}
    /\ unheard \in [row : Nat, total : Nat]

Init ==
    /\ rung \in Rungs
    /\ allowed = {}
    /\ refused = {}
    /\ named = {}
    /\ negotiation = Reset
    /\ turn = "idle"
    /\ decision = Idle
    /\ last = NothingSettled
    /\ unheard = Reset

-----------------------------------------------------------------------------
(* The rung and the rule lists. *)

IsRated(r)       == r \in {"assisted", "auto"}
IsNegotiating(r) == r = "auto"

\* isToolGatedAtRung: the shell always, other tools at the two deterministic
\* rungs unless the rung grants their access class.
IsGated(c) ==
    \/ c.kind # "tool"
    \/ rung \in {"manual", "write"} \ c.freeAt

\* firstMatch over a restrictive list.
Matched(c, list) == \E e \in list : c \in Forbids[e]

\* Mutant: only the declared list refuses.
IsDeniedByConfig(c) == Matched(c, ConfigDeny)

IsDenied(c)    == Matched(c, ConfigDeny \cup refused)
IsEscalated(c) == Matched(c, ConfigEscalate)

\* firstMatch over the allow lists: the declared ones come first.
AllowMatches(c, remembered) ==
    LET declared == {e \in ConfigAllow : c \in Covers[e]}
    IN  IF declared # {} THEN declared
                         ELSE {e \in remembered : c \in Covers[e]}

\* Mutant: an allow entry is taken before an escalate entry.
AllowedFirst(c, remembered) ==
    IF rung = "bypass" \/ c.cwd = "outside" THEN {}
                                          ELSE AllowMatches(c, remembered)

\* The allow lists do not apply at bypass, to an escalated call, or outside
\* the project.
AllowedBy(c, remembered) ==
    IF rung = "bypass" \/ IsEscalated(c) \/ c.cwd = "outside"
    THEN {}
    ELSE AllowMatches(c, remembered)

\* effectivePreflightFloorFinding: naming the host lifts the host floor, at
\* the auto rung only.
EffectiveFloor(c) ==
    IF c.floor = "host" /\ rung = "auto" /\ c \in named THEN "none" ELSE c.floor

\* Mutant: the floor speaks only for a call nothing has rated.
RaisedUnrated(outcome, floor) ==
    IF outcome = "none" /\ floor # "none" THEN "destructive" ELSE outcome

\* applyDestructiveFloor: a floor only ever raises an outcome.
Raised(outcome, floor) ==
    IF outcome = "safe" /\ floor # "none" THEN "destructive" ELSE outcome

\* FAIL_CLOSED_VERDICT: no assessment counts as destructive.
OutcomeOf(answer) == IF answer = "failed" THEN "destructive" ELSE answer

\* mapVerdictToAction, at a rated rung.
Verdict(d) == Raised(OutcomeOf(d.verdict), d.floor)

\* Mutant: a rating that failed is argued with the agent like any other.
NegotiatesFailures(d) ==
    CASE Verdict(d) = "attack" -> "halt"
      [] Verdict(d) = "safe"   -> "approve"
      [] OTHER ->
            IF /\ Verdict(d) = "destructive" /\ d.floor = "none"
               /\ IsNegotiating(d.rung)
            THEN "reject"
            ELSE "escalate"

RaterAction(d) ==
    CASE Verdict(d) = "attack"       -> "halt"
      [] Verdict(d) = "catastrophic" -> "escalate"
      [] Verdict(d) = "safe"         -> "approve"
      [] Verdict(d) = "destructive"  ->
            IF /\ d.verdict # "failed"
               /\ IsNegotiating(d.rung)
               /\ d.floor = "none"
            THEN "reject"
            ELSE "escalate"

\* The alignment check is asked at the auto rung, about what the rater would
\* reject and about what only the host floor escalates.
AlignmentIsAsked(d) ==
    /\ IsNegotiating(d.rung)
    /\ Verdict(d) = "destructive"
    /\ RaterAction(d) = "reject" \/ d.floor = "host"

-----------------------------------------------------------------------------
(* How a decision moves. *)

Considered(c) ==
    [stage |-> "rating", call |-> c, rung |-> rung,
     floor |-> EffectiveFloor(c), verdict |-> "none", offer |-> NoEntry]

Wait(stage, d) ==
    /\ decision' = [d EXCEPT !.stage = stage]
    /\ UNCHANGED <<rung, named, negotiation, turn, last, unheard>>

\* Mutant: an approval clears the whole negotiation.
SettleClearing(d, approve, by, counters, pushed) ==
    /\ decision' = Idle
    /\ last' = [call |-> d.call, rung |-> d.rung, floor |-> d.floor,
                verdict |-> d.verdict, approve |-> approve, by |-> by]
    /\ negotiation' = IF approve THEN Reset ELSE counters
    /\ unheard' = IF approve THEN [pushed EXCEPT !.row = 0] ELSE pushed
    /\ UNCHANGED <<rung, named, turn>>

\* noteProgress follows every approval, whoever made it.
Settle(d, approve, by, counters, pushed) ==
    /\ decision' = Idle
    /\ last' = [call |-> d.call, rung |-> d.rung, floor |-> d.floor,
                verdict |-> d.verdict, approve |-> approve, by |-> by]
    /\ negotiation' = IF approve THEN [counters EXCEPT !.row = 0] ELSE counters
    /\ unheard' = IF approve THEN [pushed EXCEPT !.row = 0] ELSE pushed
    /\ UNCHANGED <<rung, named, turn>>

Decide(d, approve, by) == Settle(d, approve, by, negotiation, unheard)

\* NonInteractiveEscalationError or AttackHaltError ends the run.
StopRun(counters) ==
    /\ decision' = Idle
    /\ turn' = "stopped"
    /\ negotiation' = counters
    /\ unheard' = Reset
    /\ UNCHANGED <<rung, named, last>>

\* A person is shown the call; endNegotiation may have come first.
Present(stage, d, counters) ==
    /\ decision' = [d EXCEPT !.stage = stage]
    /\ negotiation' = counters
    /\ unheard' = Reset
    /\ UNCHANGED <<rung, named, turn, last>>

\* Mutant: the offer goes by the rung the decision began at.
OfferAtFirstRung(d) ==
    IF Verdict(d) = "catastrophic" \/ d.rung = "bypass" THEN NoEntry
                                                        ELSE d.call.grant

\* stickyGrantFor reads the live rung; a catastrophic call is never on offer.
Offer(d) ==
    IF Verdict(d) = "catastrophic" \/ rung = "bypass" THEN NoEntry
                                                      ELSE d.call.grant

AskPerson(d) ==
    IF Interactive
    THEN Present("prompt", [d EXCEPT !.offer = Offer(d)], Reset)
    ELSE StopRun(Reset)

\* haltOrRunAnyway
Halt(d, counters) ==
    IF Interactive THEN Present("banner", d, counters) ELSE StopRun(counters)

\* recordRejection: the rejection that reaches a bound goes to a person.
Reject(d, by) ==
    LET counted == [row |-> negotiation.row + 1, total |-> negotiation.total + 1]
        atBound == \/ counted.row >= MaxConsecutiveRejections
                   \/ counted.total >= MaxRejectionsBeforeHuman
    IN  IF atBound
        THEN AskPerson(d)
        ELSE Settle(d, FALSE, by, counted,
                    [row |-> unheard.row + 1, total |-> unheard.total + 1])

\* What follows the rater, or the alignment check that overrides it.  Outside
\* the project nothing but a halt is decided without a person.
Act(d, action, by) ==
    IF d.call.cwd = "outside" /\ action # "halt"
    THEN AskPerson(d)
    ELSE \/ action = "approve"  /\ Decide(d, TRUE, by)
         \/ action = "halt"     /\ Halt(d, Reset)
         \/ action = "escalate" /\ AskPerson(d)
         \/ action = "reject"   /\ Reject(d, by)

-----------------------------------------------------------------------------
(* One decision. *)

\* The approvals left once invalidateWeakenedGrants has dropped the one whose
\* tool now describes itself as more dangerous.
StandingApprovals(c) ==
    IF c.kind = "tool" /\ IsGated(c) THEN {allowed, allowed \ {c.grant}}
                                     ELSE {allowed}

Admissible(c) == IsGated(c) /\ c.cwd # "refused" /\ ~IsDenied(c)

Bypassed(c) == c.kind = "shell" /\ rung = "bypass"

\* Mutant: the hard floor is left to the rater.
WeighedWithoutFloor(c) == Admissible(c) /\ ~Bypassed(c)

Weighed(c) == Admissible(c) /\ ~Bypassed(c) /\ ~c.hardline

\* The stages before the first wait, in their order.
Route(c, remembered) ==
    LET d       == Considered(c)
        matches == AllowedBy(c, remembered)
        rated   == IsRated(rung) /\ c.kind = "shell"
    IN  \/ ~IsGated(c) /\ Decide(d, TRUE, "ungated")
        \/ IsGated(c) /\ c.cwd = "refused" /\ Decide(d, FALSE, "cwd")
        \/ /\ IsGated(c) /\ c.cwd # "refused" /\ IsDenied(c)
           /\ Decide(d, FALSE, "denied")
        \/ Admissible(c) /\ Bypassed(c) /\ Decide(d, TRUE, "bypass")
        \/ /\ Admissible(c) /\ ~Bypassed(c) /\ c.hardline
           /\ Decide(d, FALSE, "hardline")
        \/ /\ Weighed(c)
           /\ \E e \in matches :
                 IF e \in RatedEntries /\ rated
                 THEN Wait("tripwire", d)
                 ELSE Decide(d, TRUE, "listed")
        \/ /\ Weighed(c)
           /\ matches = {}
           /\ IF rated /\ ~IsEscalated(c) THEN Wait("rating", d)
                                          ELSE AskPerson(d)

\* An interrupt brings the next call to decideToolApproval.
Propose(c) ==
    /\ turn = "running"
    /\ decision = Idle
    /\ \E remembered \in StandingApprovals(c) :
          /\ allowed' = remembered
          /\ Route(c, remembered)
    /\ UNCHANGED refused

\* mapAllowMatchedVerdictToAction: the entry approves unless the rating of it
\* is one of the two worst.
TripwireAnswers(answer) ==
    LET d == [decision EXCEPT !.verdict = answer]
    IN  /\ decision.stage = "tripwire"
        /\ \/ answer = "attack" /\ Halt(d, negotiation)
           \/ answer = "catastrophic" /\ AskPerson(d)
           \/ /\ answer \notin {"attack", "catastrophic"}
              /\ Decide(d, TRUE, "tripwire")
        /\ UNCHANGED <<allowed, refused>>

RaterAnswers(answer) ==
    LET d == [decision EXCEPT !.verdict = answer]
    IN  /\ decision.stage = "rating"
        /\ IF AlignmentIsAsked(d) THEN Wait("alignment", d)
                                  ELSE Act(d, RaterAction(d), "rater")
        /\ UNCHANGED <<allowed, refused>>

\* A check that failed leaves the rater's own action standing.
AlignmentAnswers(kind) ==
    /\ decision.stage = "alignment"
    /\ \/ kind = "approve"  /\ Act(decision, "approve", "alignment")
       \/ kind = "suggest"  /\ Act(decision, "reject", "alignment")
       \/ kind = "escalate" /\ Act(decision, "escalate", "alignment")
       \/ kind = "failed"   /\ Act(decision, RaterAction(decision), "rater")
    /\ UNCHANGED <<allowed, refused>>

\* The reply of toolApprovalCallback, and what it leaves behind.
PersonApproves(scope) ==
    /\ decision.stage = "prompt"
    /\ allowed' = IF scope # "once" /\ decision.offer # NoEntry
                  THEN allowed \cup {decision.offer}
                  ELSE allowed
    /\ Decide(decision, TRUE, "person")
    /\ UNCHANGED refused

PersonRejects(scope) ==
    /\ decision.stage = "prompt"
    /\ refused' = IF scope # "once" /\ decision.call.denial # NoEntry
                  THEN refused \cup {decision.call.denial}
                  ELSE refused
    /\ Decide(decision, FALSE, "person")
    /\ UNCHANGED allowed

\* "teardown" and "unrecognised" replies refuse the call and record nothing.
PromptGoesAway ==
    /\ decision.stage = "prompt"
    /\ Decide(decision, FALSE, "teardown")
    /\ UNCHANGED <<allowed, refused>>

BannerAnswered(runAnyway) ==
    /\ decision.stage = "banner"
    /\ IF runAnyway THEN Decide(decision, TRUE, "banner") ELSE StopRun(negotiation)
    /\ UNCHANGED <<allowed, refused>>

-----------------------------------------------------------------------------
(* The session around it. *)

\* The prompt and the banner own the keyboard while they are shown.
KeyboardIsFree == decision.stage \notin {"prompt", "banner"}

SetRung(r) ==
    /\ KeyboardIsFree
    /\ rung' = r
    /\ UNCHANGED <<allowed, refused, named, negotiation, turn, decision, last,
                   unheard>>

\* liftRefusal, for a remembered refusal.
Undeny(e) ==
    /\ KeyboardIsFree
    /\ e \in refused
    /\ refused' = refused \ {e}
    /\ UNCHANGED <<rung, allowed, named, negotiation, turn, decision, last,
                   unheard>>

\* processMessages: the user spoke, so a negotiation still standing is over;
\* the retained messages may now name any of the hosts.
StartTurn(hosts) ==
    /\ turn # "running"
    /\ turn' = "running"
    /\ named' = hosts
    /\ negotiation' = Reset
    /\ unheard' = Reset
    /\ UNCHANGED <<rung, allowed, refused, decision, last>>

EndTurn ==
    /\ turn = "running"
    /\ decision = Idle
    /\ turn' = "idle"
    /\ UNCHANGED <<rung, allowed, refused, named, negotiation, decision, last,
                   unheard>>

\* rotateThread, between turns.
ClearConversation ==
    /\ turn # "running"
    /\ named' = {}
    /\ negotiation' = Reset
    /\ UNCHANGED <<rung, allowed, refused, turn, decision, last, unheard>>

Next ==
    \/ \E c \in Calls : Propose(c)
    \/ \E answer \in Answers : TripwireAnswers(answer) \/ RaterAnswers(answer)
    \/ \E kind \in {"approve", "suggest", "escalate", "failed"} :
          AlignmentAnswers(kind)
    \/ \E scope \in {"once", "session", "always"} :
          PersonApproves(scope) \/ PersonRejects(scope)
    \/ PromptGoesAway
    \/ \E runAnyway \in BOOLEAN : BannerAnswered(runAnyway)
    \/ \E r \in Rungs : SetRung(r)
    \/ \E e \in Entries : Undeny(e)
    \/ \E hosts \in SUBSET {c \in Calls : c.floor = "host"} : StartTurn(hosts)
    \/ EndTurn
    \/ ClearConversation

Spec == Init /\ [][Next]_vars

-----------------------------------------------------------------------------
(* A gated call that a deny entry in force matches, from the config, this   *)
(* session or the project, is not approved by anyone, at any rung.  (Tools  *)
(* the rung does not gate never reach the rules.)                          *)
RefusalsHold ==
    [][last' # last /\ last'.approve /\ last'.by # "ungated"
         => ~Matched(last'.call, ConfigDeny \cup refused')]_vars

(* Below bypass, a gated call matched by an escalate entry or run outside   *)
(* the project is approved by a person and by nothing else: no allow entry, *)
(* rating or alignment check stands in for them.                           *)
EscalationsReachAPerson ==
    last # NothingSettled /\ last.approve
      /\ last.by \notin {"ungated", "bypass", "person", "banner"}
    => ~IsEscalated(last.call) /\ last.call.cwd # "outside"

(* A command on the hard floor runs at bypass only: not on an allow entry,  *)
(* not after a rating, not by a person's approval.                         *)
HardFloorHolds ==
    last # NothingSettled /\ last.approve /\ last.call.hardline
      => last.by = "bypass"

(* What a machine may decide on its own: the rater approves only what it    *)
(* called safe and no floor raised, the alignment check only at auto and    *)
(* never past the leak floor, and nothing but a person a command the rater  *)
(* called catastrophic or an attack.  Both send the agent back only at auto *)
(* and inside the project, and neither decides on a rating that failed, but *)
(* for the alignment check that the host floor asks for.                    *)
MachineDecisionsAreBounded ==
    last # NothingSettled =>
        /\ last.approve =>
              /\ last.by = "rater" => last.verdict = "safe" /\ last.floor = "none"
              /\ last.by = "alignment" => last.rung = "auto" /\ last.floor # "leak"
              /\ last.verdict = "catastrophic" => last.by = "person"
              /\ last.verdict = "attack" => last.by = "banner"
        /\ ~last.approve /\ last.by \in {"rater", "alignment"}
              => last.rung = "auto" /\ last.call.cwd # "outside"
        /\ last.by \in {"rater", "alignment"} /\ last.verdict = "failed"
              => last.by = "alignment" /\ last.floor = "host"

(* An approval is remembered only as the entry a person was offered for     *)
(* that very call, and never for a call rated catastrophic or answered at   *)
(* bypass, though the rung may have changed since the call was proposed.    *)
GrantsAreAnswers ==
    [][\A e \in allowed' \ allowed :
         /\ last'.by = "person" /\ last'.approve
         /\ e = last'.call.grant
         /\ last'.verdict # "catastrophic"
         /\ rung # "bypass"]_vars

(* The agent is never sent back MaxConsecutiveRejections times in a row, nor *)
(* MaxRejectionsBeforeHuman times in all, without a person being reached:   *)
(* approvals in between stretch the first bound but not the second, and     *)
(* neither depends on how the rater and the alignment check alternate.     *)
RejectionsReachAPerson ==
    /\ unheard.row < MaxConsecutiveRejections
    /\ unheard.total < MaxRejectionsBeforeHuman
=============================================================================
