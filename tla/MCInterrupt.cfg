SPECIFICATION FairSpec
CONSTANTS
    Loops = {0}
    Driven = {0}
    MaxCallback = 2
    MaxTime = 2
    MaxCommands = 1
    MaxDepth = 3
    Delays = {0, 1, 2}
    Passes = 2
    Threads = FALSE
    Interrupts = TRUE
PROPERTIES WaitingCallbacksRun
CHECK_DEADLOCK FALSE
