\* Two processes, two files, two crashes, and sleep.
SPECIFICATION Spec
CONSTANTS
    Procs = {p1, p2}
    Old = {t1, t2}
    MaxCrashes = 2
    Suspends = TRUE
INVARIANTS NothingIsLost IndexGoesLast ReadyMeansWhole
PROPERTIES SplitsEnd
CHECK_DEADLOCK FALSE
