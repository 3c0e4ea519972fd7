\* Two turns of up to two items each, two questions, two keys in a chunk.
SPECIFICATION Spec
CONSTANTS
    MaxTurns = 2
    MaxPrompts = 2
    MaxItems = 2
    MaxKeys = 2
    MaxClears = 1
    Decisions = {"once", "deny"}
INVARIANTS PromptsStayAnswerable OutputIsWhole TranscriptReadsInOrder
PROPERTIES EndedTurnsAreCommitted
CHECK_DEADLOCK FALSE
