SPECIFICATION FairSpec
CONSTANTS
    MaxPromise = 3
    Loops = {other}
    GLOBAL_LOOP = global
    Functions = {"onRejected", "finally"}
    MaxDepth = 2
    Interrupts = TRUE
INVARIANTS TypeOK CalledOnce
PROPERTIES SettlesOnceUnlessLaterFails HandlersRun ResolvedSettles RejectionsSurface
CHECK_DEADLOCK FALSE
