SPECIFICATION Spec
CONSTANTS
    MaxLoop = 2
    MaxCallback = 2
    MaxFdWaits = 0
    MaxTime = 0
    MaxDepth = 4
    Delays = {0}
    Timeouts <- WaitOrNot
    Natives = {FALSE}
INVARIANTS EventLoopTypeOK GuardsMatchStack ForestOK PassDescends OncePerPass TrueMeansRanUnlessCollected
PROPERTIES PruneSettles PruneIsTheLoop
