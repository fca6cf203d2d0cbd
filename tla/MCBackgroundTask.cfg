SPECIFICATION FairSpec
CONSTANTS
    Tasks = {t1, t2}
    Main = main
    Threads = {t1, t2, main}
    NoThread = none
    NoTask = none
    Platforms = {"posix", "win32"}
    MaxTime = 6
    NSec = 2
    MaxDepth = 1
    Timeouts = {0, 5}
    Interrupts = {FALSE}
INVARIANTS TypeOK OneOwner ArithmeticExact NoMissedWakeup
PROPERTIES SchedulingEnds TasksComplete
CHECK_DEADLOCK FALSE
