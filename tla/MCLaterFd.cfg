SPECIFICATION FairSpec
CONSTANTS
    Waits = {w1, w2}
    RWaits = {w1}
    Loops = {l1, l2}
    Orphans = {l2}
    Timeouts <- DefaultOrNever
    Infinity = 9
    MaxTime = 1
INVARIANTS FdWaitsCount
PROPERTIES OutcomeIsFinal WaitKeepsLoop ThreadsEnd
CHECK_DEADLOCK FALSE
