\* Three sessions of two workspaces, one prompt.
SPECIFICATION Spec
CONSTANTS
    Sessions = {s1, s2, s3}
    Prompts = {p1}
    Workspaces = {w1, w2}
    NoPrompt = NoPrompt
    Unbound = Unbound
INVARIANTS NoRerootingUnderATurn
CHECK_DEADLOCK FALSE
