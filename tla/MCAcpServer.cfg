\* Two sessions, two prompts, two workspaces.
SPECIFICATION Spec
CONSTANTS
    Sessions = {s1, s2}
    Prompts = {p1, p2}
    Workspaces = {w1, w2}
    NoPrompt = NoPrompt
    Unbound = Unbound
INVARIANTS OneTurnAtATime WorkspaceIsBoundWhileNeeded CloseFollowsTheTurns
PROPERTIES TurnsSayWhetherTheyWereStopped ClosesAreAnswered PromptsEnd
CHECK_DEADLOCK FALSE
