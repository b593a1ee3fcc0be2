SPECIFICATION Spec
CONSTANTS
    Threads = {t1, t2}
    GroupIDs = {kids}
    Clients = {lan}
    Addresses = {lan}
    None = None
    MaxDuration = 1
    Window = 2
    MaxHits = 1
    MaxKept = 1
    MaxGrants = 2
    MaxRequests = 2
    MaxOps = 3
    MaxTime = 3
SYMMETRY Symmetry
CHECK_DEADLOCK FALSE
INVARIANT RevocationTakesEffect
