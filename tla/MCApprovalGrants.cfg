\* One process at a time on the approvals file: loads, migration, answers,
\* failing and torn writes, and hand edits between the sessions.
CONSTANTS
    s1 = s1  s2 = s2
    e1 = e1  e2 = e2  e3 = e3
    Sessions = {s1, s2}
    Entries = {e1, e2, e3}
    Migrates = TRUE
    Exclusive = TRUE
    TornWrites = TRUE
    EditsWhileOpen = FALSE
SYMMETRY Symmetry
SPECIFICATION Spec
INVARIANTS PromiseKept
PROPERTIES NothingSavedUnasked UnusableFileIsKept StaysInForce
