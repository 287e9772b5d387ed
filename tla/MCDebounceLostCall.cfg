CONSTANTS
    Callers = {c1, c2}
    Goroutines = {g1, g2}
SPECIFICATION FairSpec
INVARIANT CallRunsRoutineAgain
