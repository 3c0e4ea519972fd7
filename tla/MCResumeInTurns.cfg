\* Two processes that resume one another's conversations, never two of them
\* on one conversation at a time.
SPECIFICATION Spec
CONSTANTS
    s1 = s1
    s2 = s2
    c1 = c1
    c2 = c2
    t1 = t1
    t2 = t2
    Sessions = {s1, s2}
    Conversations = {c1, c2}
    Threads = {t1, t2}
    Person = Person
    NoConversation = NoConversation
    NoRow = NoRow
    NoThread = NoThread
    MAX_OPEN_THREAD_FILES = 2
    MaxSteps = 4
    Sharing = "in turns"
    Attended = TRUE
SYMMETRY Interchangeable
INVARIANTS
    ResumeIsWhole
CHECK_DEADLOCK FALSE
