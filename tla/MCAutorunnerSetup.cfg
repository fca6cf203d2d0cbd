SPECIFICATION FairSpec
CONSTANTS
    Procs = {root, c1, c2}
    Root = root
    MaxPipes = 4
    MaxQueue = 2
INVARIANTS TypeOK PipeIsPrivate ChildNeedsRunNow
PROPERTIES ParentRuns
CHECK_DEADLOCK FALSE
