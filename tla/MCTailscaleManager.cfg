SPECIFICATION FairSpec
CONSTANTS
    Handlers = {h1}
    Linkers = {l1}
    Starter = Starter
    Poller = Poller
    Stopper = Stopper
    Snapshots = {p1, p2}
    None = None
    MaxPuts = 2

CHECK_DEADLOCK FALSE
INVARIANTS
    OffIsClean
    StopIsFinal
    LaterTransitionWins
    ConnectedIsApplied
PROPERTIES
    StopReturns
