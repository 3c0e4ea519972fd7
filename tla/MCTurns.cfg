\* Either driver: two turns, one drain round less than the calls of a turn, as
\* many cooldowns as nest a fold both ways.
CONSTANTS
    MaxQuotaCooldowns = 2
    MaxDrainRounds = 2
    MaxTurns = 2
    MaxTools = 3
SPECIFICATION TurnSpec
INVARIANTS ResultsFollowTheirCalls SummariesAreCurrent JudgedAfterTheDrain StoppedTurnsSaySo OrdinaryEndsCloseTheRows
PROPERTIES ImplementsTurn NeverAsksAfterTheModel TurnsEnd EscEndsTheTurn
