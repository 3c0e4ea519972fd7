\* Two conversations, three requests: ask, answer, ask again, with two calls.
SPECIFICATION Spec
CONSTANTS
    Clients = {anna, ben}
    MaxRuns = 3
    MaxCalls = 2
    MaxRestarts = 1
INVARIANTS ResultsAreUnique AnswersReachTheirCalls
CHECK_DEADLOCK FALSE
