SPECIFICATION FairSpec
CONSTANTS
    Loops = {0, 1, 2}
    Driven = {0, 1}
    MaxCallback = 2
    MaxTime = 2
    MaxCommands = 2
    MaxDepth = 4
    Delays = {0, 1, 2}
    Passes = 2
    Threads = TRUE
    Interrupts = TRUE
INVARIANTS TypeOK NotReentered NoLostWakeup
PROPERTIES WaitingCallbacksRunUnlessInterrupted
CHECK_DEADLOCK FALSE
