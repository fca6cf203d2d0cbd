SPECIFICATION Spec
CONSTANTS
    Loops = {0, 1}
    Driven = {0}
    MaxCallback = 2
    MaxTime = 2
    MaxCommands = 1
    MaxDepth = 3
    Delays = {0, 1, 2}
    Passes = 2
    Threads = FALSE
    Interrupts = FALSE
INVARIANTS TimerInTime
CHECK_DEADLOCK FALSE
