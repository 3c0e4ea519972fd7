--------------------------- MODULE AcpServerProofs ---------------------------
(* The safety of the agent's sessions, for any number of sessions, prompts   *)
(* and workspaces.                                                           *)
EXTENDS AcpServer, TLAPS

\* A turn that has not let go of its session.
Live(p) == phase[p] \in {"accepted", "unstarted", "answering", "greeting",
                         "running", "asking", "failing"}

\* The session's controller, turn and callbacks are those of its live turn.
Owned ==
    /\ \A p \in Prompts :
        /\ Live(p) => busy[home[p]] = p
        /\ phase[p] \in {"running", "asking"} => callback[home[p]] = p
        /\ phase[p] = "greeting" => ~command[p]
    /\ \A s \in Sessions : busy[s] # NoPrompt =>
        Live(busy[s]) /\ home[busy[s]] = s /\ turn[s] = busy[s]
    /\ \A s \in Sessions : callback[s] # NoPrompt =>
        /\ callback[s] = busy[s]
        /\ phase[callback[s]] \in {"running", "asking", "failing"}
        /\ ~command[callback[s]]

\* A mark on the session means that its live turn is aborted; a close leaves
\* one for good.
Marked ==
    /\ \A s \in Sessions :
        /\ cancelled[s] /\ busy[s] # NoPrompt => aborted[busy[s]]
        /\ Closed(s) => cancelled[s]
    /\ \A p \in Prompts :
        /\ phase[p] = "unstarted" => aborted[p]
        /\ phase[p] = "answering" => command[p]

\* The binding, and that what depends on it has a workspace.
Bound ==
    /\ WorkspaceIsBoundWhileNeeded
    /\ \A s \in Sessions : stage[s] # "none" => cwd[s] \in Workspaces

IInv == TypeOK /\ Owned /\ Marked /\ Bound /\ CloseFollowsTheTurns

LEMMA InitInv == Init => IInv
  BY AcpAssumption DEF Init, IInv, TypeOK, Owned, Marked, Bound, Live, Closed,
     WorkspaceIsBoundWhileNeeded, CloseFollowsTheTurns, TurnIsOver, Stages,
     Phases, StopReasons

LEMMA TypeStep == IInv /\ [Next]_vars => TypeOK'
  <1> SUFFICES ASSUME IInv, [Next]_vars PROVE TypeOK'
    OBVIOUS
  <1> USE AcpAssumption DEF IInv, TypeOK, Owned, Stages, Phases, StopReasons, Live
  <1>1. ASSUME NEW s \in Sessions, NEW w \in Workspaces, NewSession(s, w) PROVE TypeOK'
    BY <1>1 DEF session_, turn_, NewSession
  <1>2. ASSUME NEW s \in Sessions, SessionReady(s) PROVE TypeOK'
    BY <1>2 DEF session_, turn_, SessionReady, Releases
  <1>3. ASSUME NEW s \in Sessions, SessionFails(s) PROVE TypeOK'
    BY <1>3 DEF session_, turn_, SessionFails, Releases
  <1>4. ASSUME NEW p \in Prompts, Prompt(p) PROVE TypeOK'
    BY <1>4 DEF session_, turn_, Prompt
  <1>5. ASSUME NEW p \in Prompts, BeginTurn(p) PROVE TypeOK'
    BY <1>5 DEF session_, turn_, BeginTurn, Moves
  <1>6. ASSUME NEW p \in Prompts, StartRun(p) PROVE TypeOK'
    BY <1>6 DEF session_, turn_, StartRun
  <1>7. ASSUME NEW p \in Prompts, Ask(p) PROVE TypeOK'
    BY <1>7 DEF session_, turn_, Ask, Moves
  <1>8. ASSUME NEW p \in Prompts, Answered(p) PROVE TypeOK'
    BY <1>8 DEF session_, turn_, Answered, Moves
  <1>9. ASSUME NEW p \in Prompts, TurnEnds(p) PROVE TypeOK'
    BY <1>9 DEF session_, turn_, TurnEnds, Leaves
  <1>10. ASSUME NEW p \in Prompts, TurnFails(p) PROVE TypeOK'
    BY <1>10 DEF session_, turn_, TurnFails, Leaves
  <1>11. ASSUME NEW p \in Prompts, FailureTold(p) PROVE TypeOK'
    BY <1>11 DEF session_, turn_, FailureTold, Leaves
  <1>12. ASSUME NEW p \in Prompts, SendIdle(p) PROVE TypeOK'
    BY <1>12 DEF session_, turn_, SendIdle, Moves
  <1>13. ASSUME NEW s \in Sessions, Cancel(s) PROVE TypeOK'
    BY <1>13 DEF session_, turn_, Cancel, Aborts
  <1>14. ASSUME NEW s \in Sessions, Close(s) PROVE TypeOK'
    BY <1>14 DEF session_, turn_, Close, Aborts
  <1>15. ASSUME NEW s \in Sessions, Drains(s) PROVE TypeOK'
    BY <1>15 DEF session_, turn_, Drains
  <1>16. ASSUME NEW s \in Sessions, CloseEnds(s) PROVE TypeOK'
    BY <1>16 DEF session_, turn_, CloseEnds, Releases
  <1>17. CASE UNCHANGED vars
    BY <1>17 DEF vars, session_, turn_
  <1>18. QED
    BY <1>1, <1>2, <1>3, <1>4, <1>5, <1>6, <1>7, <1>8, <1>9, <1>10, <1>11, <1>12, <1>13, <1>14, <1>15, <1>16, <1>17 DEF Next, TurnStep

LEMMA OwnedStep == IInv /\ [Next]_vars => Owned'
  <1> SUFFICES ASSUME IInv, [Next]_vars PROVE Owned'
    OBVIOUS
  <1> USE AcpAssumption DEF IInv, TypeOK, Owned, Live
  <1>1. ASSUME NEW s \in Sessions, NEW w \in Workspaces, NewSession(s, w) PROVE Owned'
    BY <1>1 DEF session_, turn_, NewSession
  <1>2. ASSUME NEW s \in Sessions, SessionReady(s) PROVE Owned'
    BY <1>2 DEF session_, turn_, SessionReady, Releases
  <1>3. ASSUME NEW s \in Sessions, SessionFails(s) PROVE Owned'
    BY <1>3 DEF session_, turn_, SessionFails, Releases
  <1>4. ASSUME NEW p \in Prompts, Prompt(p) PROVE Owned'
    BY <1>4 DEF session_, turn_, Prompt
  <1>5. ASSUME NEW p \in Prompts, BeginTurn(p) PROVE Owned'
    BY <1>5 DEF session_, turn_, BeginTurn, Moves
  <1>6. ASSUME NEW p \in Prompts, StartRun(p) PROVE Owned'
    BY <1>6 DEF session_, turn_, StartRun
  <1>7. ASSUME NEW p \in Prompts, Ask(p) PROVE Owned'
    BY <1>7 DEF session_, turn_, Ask, Moves
  <1>8. ASSUME NEW p \in Prompts, Answered(p) PROVE Owned'
    BY <1>8 DEF session_, turn_, Answered, Moves
  <1>9. ASSUME NEW p \in Prompts, TurnEnds(p) PROVE Owned'
    BY <1>9 DEF session_, turn_, TurnEnds, Leaves
  <1>10. ASSUME NEW p \in Prompts, TurnFails(p) PROVE Owned'
    BY <1>10 DEF session_, turn_, TurnFails, Leaves
  <1>11. ASSUME NEW p \in Prompts, FailureTold(p) PROVE Owned'
    BY <1>11 DEF session_, turn_, FailureTold, Leaves
  <1>12. ASSUME NEW p \in Prompts, SendIdle(p) PROVE Owned'
    BY <1>12 DEF session_, turn_, SendIdle, Moves
  <1>13. ASSUME NEW s \in Sessions, Cancel(s) PROVE Owned'
    BY <1>13 DEF session_, turn_, Cancel, Aborts
  <1>14. ASSUME NEW s \in Sessions, Close(s) PROVE Owned'
    BY <1>14 DEF session_, turn_, Close, Aborts
  <1>15. ASSUME NEW s \in Sessions, Drains(s) PROVE Owned'
    BY <1>15 DEF session_, turn_, Drains
  <1>16. ASSUME NEW s \in Sessions, CloseEnds(s) PROVE Owned'
    BY <1>16 DEF session_, turn_, CloseEnds, Releases
  <1>17. CASE UNCHANGED vars
    BY <1>17 DEF vars, session_, turn_
  <1>18. QED
    BY <1>1, <1>2, <1>3, <1>4, <1>5, <1>6, <1>7, <1>8, <1>9, <1>10, <1>11, <1>12, <1>13, <1>14, <1>15, <1>16, <1>17 DEF Next, TurnStep

LEMMA MarkedStep == IInv /\ [Next]_vars => Marked'
  <1> SUFFICES ASSUME IInv, [Next]_vars PROVE Marked'
    OBVIOUS
  <1> USE AcpAssumption DEF IInv, TypeOK, Owned, Marked, Live, Closed, Stopped
  <1>1. ASSUME NEW s \in Sessions, NEW w \in Workspaces, NewSession(s, w) PROVE Marked'
    BY <1>1 DEF session_, turn_, NewSession
  <1>2. ASSUME NEW s \in Sessions, SessionReady(s) PROVE Marked'
    BY <1>2 DEF session_, turn_, SessionReady, Releases
  <1>3. ASSUME NEW s \in Sessions, SessionFails(s) PROVE Marked'
    BY <1>3 DEF session_, turn_, SessionFails, Releases
  <1>4. ASSUME NEW p \in Prompts, Prompt(p) PROVE Marked'
    BY <1>4 DEF session_, turn_, Prompt
  <1>5. ASSUME NEW p \in Prompts, BeginTurn(p) PROVE Marked'
    BY <1>5 DEF session_, turn_, BeginTurn, Moves
  <1>6. ASSUME NEW p \in Prompts, StartRun(p) PROVE Marked'
    BY <1>6 DEF session_, turn_, StartRun
  <1>7. ASSUME NEW p \in Prompts, Ask(p) PROVE Marked'
    BY <1>7 DEF session_, turn_, Ask, Moves
  <1>8. ASSUME NEW p \in Prompts, Answered(p) PROVE Marked'
    BY <1>8 DEF session_, turn_, Answered, Moves
  <1>9. ASSUME NEW p \in Prompts, TurnEnds(p) PROVE Marked'
    BY <1>9 DEF session_, turn_, TurnEnds, Leaves
  <1>10. ASSUME NEW p \in Prompts, TurnFails(p) PROVE Marked'
    BY <1>10 DEF session_, turn_, TurnFails, Leaves
  <1>11. ASSUME NEW p \in Prompts, FailureTold(p) PROVE Marked'
    BY <1>11 DEF session_, turn_, FailureTold, Leaves
  <1>12. ASSUME NEW p \in Prompts, SendIdle(p) PROVE Marked'
    BY <1>12 DEF session_, turn_, SendIdle, Moves
  <1>13. ASSUME NEW s \in Sessions, Cancel(s) PROVE Marked'
    <2>1. \A p \in Prompts : (aborted[p] => aborted'[p]) /\ (p = busy[s] => aborted'[p])
      BY <1>13, ZenonT(20) DEF Cancel, Aborts
    <2>2. UNCHANGED <<busy, phase, command>> /\ cancelled'[s]
      BY <1>13 DEF Cancel, Aborts
    <2>3. \A t \in Sessions : cancelled'[t] /\ busy'[t] # NoPrompt => aborted'[busy'[t]]
      BY <1>13, <2>1, <2>2 DEF Cancel, Aborts
    <2>4. \A t \in Sessions : Closed(t)' => cancelled'[t]
      BY <1>13, <2>2 DEF session_, Cancel, Aborts
    <2>5. QED
      BY <2>1, <2>2, <2>3, <2>4
  <1>14. ASSUME NEW s \in Sessions, Close(s) PROVE Marked'
    <2>1. \A p \in Prompts : (aborted[p] => aborted'[p]) /\ (p = busy[s] => aborted'[p])
      BY <1>14, ZenonT(20) DEF Close, Aborts
    <2>2. UNCHANGED <<busy, phase, command>> /\ cancelled'[s]
      BY <1>14 DEF Close, Aborts
    <2>3. \A t \in Sessions : cancelled'[t] /\ busy'[t] # NoPrompt => aborted'[busy'[t]]
      BY <1>14, <2>1, <2>2 DEF Close, Aborts
    <2>4. \A t \in Sessions : Closed(t)' => cancelled'[t]
      BY <1>14, <2>2 DEF session_, Close, Aborts
    <2>5. QED
      BY <2>1, <2>2, <2>3, <2>4
  <1>15. ASSUME NEW s \in Sessions, Drains(s) PROVE Marked'
    BY <1>15 DEF session_, turn_, Drains
  <1>16. ASSUME NEW s \in Sessions, CloseEnds(s) PROVE Marked'
    BY <1>16 DEF session_, turn_, CloseEnds, Releases
  <1>17. CASE UNCHANGED vars
    BY <1>17 DEF vars, session_, turn_
  <1>18. QED
    BY <1>1, <1>2, <1>3, <1>4, <1>5, <1>6, <1>7, <1>8, <1>9, <1>10, <1>11, <1>12, <1>13, <1>14, <1>15, <1>16, <1>17 DEF Next, TurnStep

LEMMA BoundStep == IInv /\ [Next]_vars => Bound'
  <1> SUFFICES ASSUME IInv, [Next]_vars PROVE Bound'
    OBVIOUS
  <1> USE AcpAssumption DEF IInv, TypeOK, Bound, WorkspaceIsBoundWhileNeeded
  <1>1. ASSUME NEW s \in Sessions, NEW w \in Workspaces, NewSession(s, w) PROVE Bound'
    BY <1>1 DEF session_, turn_, NewSession
  <1>2. ASSUME NEW s \in Sessions, SessionReady(s) PROVE Bound'
    BY <1>2 DEF session_, turn_, SessionReady, Releases
  <1>3. ASSUME NEW s \in Sessions, SessionFails(s) PROVE Bound'
    BY <1>3 DEF session_, turn_, SessionFails, Releases
  <1>4. ASSUME NEW p \in Prompts, Prompt(p) PROVE Bound'
    BY <1>4 DEF session_, turn_, Prompt
  <1>5. ASSUME NEW p \in Prompts, BeginTurn(p) PROVE Bound'
    BY <1>5 DEF session_, turn_, BeginTurn, Moves
  <1>6. ASSUME NEW p \in Prompts, StartRun(p) PROVE Bound'
    BY <1>6 DEF session_, turn_, StartRun
  <1>7. ASSUME NEW p \in Prompts, Ask(p) PROVE Bound'
    BY <1>7 DEF session_, turn_, Ask, Moves
  <1>8. ASSUME NEW p \in Prompts, Answered(p) PROVE Bound'
    BY <1>8 DEF session_, turn_, Answered, Moves
  <1>9. ASSUME NEW p \in Prompts, TurnEnds(p) PROVE Bound'
    BY <1>9 DEF session_, turn_, TurnEnds, Leaves
  <1>10. ASSUME NEW p \in Prompts, TurnFails(p) PROVE Bound'
    BY <1>10 DEF session_, turn_, TurnFails, Leaves
  <1>11. ASSUME NEW p \in Prompts, FailureTold(p) PROVE Bound'
    BY <1>11 DEF session_, turn_, FailureTold, Leaves
  <1>12. ASSUME NEW p \in Prompts, SendIdle(p) PROVE Bound'
    BY <1>12 DEF session_, turn_, SendIdle, Moves
  <1>13. ASSUME NEW s \in Sessions, Cancel(s) PROVE Bound'
    BY <1>13 DEF session_, turn_, Cancel, Aborts
  <1>14. ASSUME NEW s \in Sessions, Close(s) PROVE Bound'
    BY <1>14 DEF session_, turn_, Close, Aborts
  <1>15. ASSUME NEW s \in Sessions, Drains(s) PROVE Bound'
    BY <1>15 DEF session_, turn_, Drains
  <1>16. ASSUME NEW s \in Sessions, CloseEnds(s) PROVE Bound'
    BY <1>16 DEF session_, turn_, CloseEnds, Releases
  <1>17. CASE UNCHANGED vars
    BY <1>17 DEF vars, session_, turn_
  <1>18. QED
    BY <1>1, <1>2, <1>3, <1>4, <1>5, <1>6, <1>7, <1>8, <1>9, <1>10, <1>11, <1>12, <1>13, <1>14, <1>15, <1>16, <1>17 DEF Next, TurnStep

LEMMA CloseStep == IInv /\ [Next]_vars => CloseFollowsTheTurns'
  <1> SUFFICES ASSUME IInv, [Next]_vars PROVE CloseFollowsTheTurns'
    OBVIOUS
  <1> USE AcpAssumption DEF IInv, TypeOK, Owned, CloseFollowsTheTurns, Live, TurnIsOver, Closed
  <1>1. ASSUME NEW s \in Sessions, NEW w \in Workspaces, NewSession(s, w) PROVE CloseFollowsTheTurns'
    BY <1>1 DEF session_, turn_, NewSession
  <1>2. ASSUME NEW s \in Sessions, SessionReady(s) PROVE CloseFollowsTheTurns'
    BY <1>2 DEF session_, turn_, SessionReady, Releases
  <1>3. ASSUME NEW s \in Sessions, SessionFails(s) PROVE CloseFollowsTheTurns'
    BY <1>3 DEF session_, turn_, SessionFails, Releases
  <1>4. ASSUME NEW p \in Prompts, Prompt(p) PROVE CloseFollowsTheTurns'
    BY <1>4 DEF session_, turn_, Prompt
  <1>5. ASSUME NEW p \in Prompts, BeginTurn(p) PROVE CloseFollowsTheTurns'
    BY <1>5 DEF session_, turn_, BeginTurn, Moves
  <1>6. ASSUME NEW p \in Prompts, StartRun(p) PROVE CloseFollowsTheTurns'
    BY <1>6 DEF session_, turn_, StartRun
  <1>7. ASSUME NEW p \in Prompts, Ask(p) PROVE CloseFollowsTheTurns'
    BY <1>7 DEF session_, turn_, Ask, Moves
  <1>8. ASSUME NEW p \in Prompts, Answered(p) PROVE CloseFollowsTheTurns'
    BY <1>8 DEF session_, turn_, Answered, Moves
  <1>9. ASSUME NEW p \in Prompts, TurnEnds(p) PROVE CloseFollowsTheTurns'
    BY <1>9 DEF session_, turn_, TurnEnds, Leaves
  <1>10. ASSUME NEW p \in Prompts, TurnFails(p) PROVE CloseFollowsTheTurns'
    BY <1>10 DEF session_, turn_, TurnFails, Leaves
  <1>11. ASSUME NEW p \in Prompts, FailureTold(p) PROVE CloseFollowsTheTurns'
    BY <1>11 DEF session_, turn_, FailureTold, Leaves
  <1>12. ASSUME NEW p \in Prompts, SendIdle(p) PROVE CloseFollowsTheTurns'
    BY <1>12 DEF session_, turn_, SendIdle, Moves
  <1>13. ASSUME NEW s \in Sessions, Cancel(s) PROVE CloseFollowsTheTurns'
    BY <1>13 DEF session_, turn_, Cancel, Aborts
  <1>14. ASSUME NEW s \in Sessions, Close(s) PROVE CloseFollowsTheTurns'
    BY <1>14 DEF session_, turn_, Close, Aborts
  <1>15. ASSUME NEW s \in Sessions, Drains(s) PROVE CloseFollowsTheTurns'
    <2>1. UNCHANGED turn_
      BY <1>15 DEF Drains
    <2>2. CASE TurnIsOver(s)
      <3>1. \A p \in Prompts : home[p] = s => ~Live(p)
        BY <2>2
      <3>2. \A p \in Prompts : home[p] = s => phase[p] \in {"none", "ending", "ended"}
        BY <3>1 DEF Phases
      <3>3. QED
        BY <1>15, <2>1, <2>2, <3>2 DEF turn_, Drains
    <2>3. CASE ~TurnIsOver(s)
      BY <1>15, <2>1, <2>3 DEF turn_, Drains
    <2>4. QED
      BY <2>2, <2>3
  <1>16. ASSUME NEW s \in Sessions, CloseEnds(s) PROVE CloseFollowsTheTurns'
    BY <1>16 DEF session_, turn_, CloseEnds, Releases
  <1>17. CASE UNCHANGED vars
    BY <1>17 DEF vars, session_, turn_
  <1>18. QED
    BY <1>1, <1>2, <1>3, <1>4, <1>5, <1>6, <1>7, <1>8, <1>9, <1>10, <1>11, <1>12, <1>13, <1>14, <1>15, <1>16, <1>17 DEF Next, TurnStep

LEMMA NextInv == IInv /\ [Next]_vars => IInv'
  BY TypeStep, OwnedStep, MarkedStep, BoundStep, CloseStep DEF IInv

LEMMA Inductive == Spec => []IInv
  BY InitInv, NextInv, PTL DEF Spec

\* Types, and that the turn a session aborts and asks for is its last one.
THEOREM AcpTypeCorrect == Spec => []TypeOK
  BY Inductive, PTL DEF IInv

\* However the turns of a session overlap at their ends, its runner has one,
\* and that one gets the cancels and the answers.
THEOREM TurnsDoNotOverlap == Spec => []OneTurnAtATime
  <1>1. IInv => OneTurnAtATime
    BY DEF IInv, TypeOK, Owned, Live, OneTurnAtATime
  <1>2. QED
    BY <1>1, Inductive, PTL

\* No session loses the workspace to another one's failure or close.
THEOREM WorkspaceStaysBound == Spec => []WorkspaceIsBoundWhileNeeded
  BY Inductive, PTL DEF IInv, Bound

\* A close that did not run out of time is answered after its turns.
THEOREM ClosesWaitForTurns == Spec => []CloseFollowsTheTurns
  BY Inductive, PTL DEF IInv

\* A turn says `cancelled` exactly when it was aborted.
THEOREM StopsAreReported == Spec => TurnsSayWhetherTheyWereStopped
  <1> DEFINE Says == \A p \in Prompts :
        outcome[p] = "none" /\ outcome'[p] # "none" /\ ~command[p]
          => (outcome'[p] = "cancelled" <=> aborted[p])
  <1>1. ASSUME IInv, Next PROVE Says
    <2> SUFFICES ASSUME NEW p \in Prompts, outcome[p] = "none", outcome'[p] # "none",
                        ~command[p]
                 PROVE outcome'[p] = "cancelled" <=> aborted[p]
      OBVIOUS
    <2> USE DEF IInv, TypeOK
    <2>1. TurnEnds(p) \/ TurnFails(p)
      BY <1>1 DEF Next, TurnStep, NewSession, SessionReady, SessionFails, Cancel,
         Close, Drains, CloseEnds, Aborts, Prompt, Ask, Answered, BeginTurn, Moves,
         StartRun, TurnEnds, TurnFails, FailureTold, Leaves, SendIdle, turn_
    <2>2. Stopped(p) /\ phase[p] \in {"greeting", "running"} => aborted[p]
      BY <1>1, AcpAssumption DEF Stopped, Owned, Marked, Live
    <2>3. CASE TurnEnds(p)
      BY <1>1, <2>2, <2>3 DEF TurnEnds, Leaves, Stopped, Marked
    <2>4. CASE TurnFails(p)
      BY <1>1, <2>2, <2>4 DEF TurnFails, Leaves, Stopped, Marked
    <2>5. QED
      BY <2>1, <2>3, <2>4
  <1>2. IInv /\ [Next]_vars => [Says]_vars
    BY <1>1
  <1>3. QED
    BY Inductive, <1>2, PTL DEF Spec, TurnsSayWhetherTheyWereStopped
=============================================================================
