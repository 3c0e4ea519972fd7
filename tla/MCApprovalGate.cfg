\* An interactive session over every kind of call, with a rated allow entry
\* and an escalate entry declared.
CONSTANTS
    exact = exact  glob = glob  ruled = ruled  stop = stop  NoEntry = NoEntry
    Entries = {exact, glob, ruled, stop}
    Calls <- MCCalls
    Covers <- MCCovers
    Forbids <- MCForbids
    ConfigAllow = {glob}
    ConfigDeny = {}
    ConfigEscalate = {stop}
    RatedEntries = {glob}
    Interactive = TRUE
    MaxConsecutiveRejections = 2
    MaxRejectionsBeforeHuman = 3
SPECIFICATION Spec
INVARIANTS HardFloorHolds MachineDecisionsAreBounded EscalationsReachAPerson RejectionsReachAPerson
PROPERTIES RefusalsHold GrantsAreAnswers
