\* Two processes, two conversations, three threads; nobody shares a living
\* conversation.
SPECIFICATION Spec
CONSTANTS
    s1 = s1
    s2 = s2
    c1 = c1
    c2 = c2
    t1 = t1
    t2 = t2
    t3 = t3
    Sessions = {s1, s2}
    Conversations = {c1, c2}
    Threads = {t1, t2, t3}
    Person = Person
    NoConversation = NoConversation
    NoRow = NoRow
    NoThread = NoThread
    MAX_OPEN_THREAD_FILES = 1
    MaxSteps = 3
    Sharing = "never"
    Attended = TRUE
SYMMETRY Interchangeable
INVARIANTS
    TypeOK
    ResumeIsWhole
    RunningConversationIsRemembered
    DegradedSessionsAreUnlinked
PROPERTIES
    SweepsTakeOnlyTheUnreachable
CHECK_DEADLOCK FALSE
