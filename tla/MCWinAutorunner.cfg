SPECIFICATION FairSpec
CONSTANTS
    Callbacks = {c1, c2, c3}
    Loops = {global, child, alone}
    GLOBAL_LOOP = global
    Driven = {global, child}
    Passes = 2
    MaxCommands = 1
    MaxDepth = 4
INVARIANTS TypeOK NoLostWakeup NotReentered
PROPERTIES WaitingCallbacksRun
CHECK_DEADLOCK FALSE
