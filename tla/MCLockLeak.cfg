SPECIFICATION FairSpec
CONSTANTS
    Tasks = {t1}
    Main = main
    Threads = {t1, main}
    NoThread = none
    NoTask = none
    Platforms = {"posix", "win32"}
    MaxTime = 6
    NSec = 2
    MaxDepth = 1
    Timeouts = {0, 5}
    Interrupts = {TRUE, FALSE}
PROPERTIES SchedulingEnds
CHECK_DEADLOCK FALSE
