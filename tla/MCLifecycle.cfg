SPECIFICATION FairSpec
CONSTANTS
    MaxLoop = 1
    MaxCallback = 2
    MaxFdWaits = 1
    MaxTime = 2
    MaxDepth = 2
    Delays = {0, 1}
    Timeouts <- WaitOrNot
    Natives = {FALSE}
INVARIANTS NothingLost
PROPERTIES LifecycleSpec WorkIsKept ControlReturns
