\* Two processes on one file, each saving its own answers.
CONSTANTS
    s1 = s1  s2 = s2
    e1 = e1  e2 = e2  e3 = e3
    Sessions = {s1, s2}
    Entries = {e1, e2}
    Migrates = TRUE
    Exclusive = FALSE
    TornWrites = FALSE
    EditsWhileOpen = FALSE
SYMMETRY Symmetry
SPECIFICATION Spec
INVARIANTS PromiseKept
