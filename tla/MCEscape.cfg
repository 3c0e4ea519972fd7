\* Esc in a turn of the string driver.
CONSTANTS
    MaxQuotaCooldowns = 2
    MaxDrainRounds = 1
    MaxTurns = 2
    MaxTools = 2
SPECIFICATION TextSpec
PROPERTY EscEndsTheText
