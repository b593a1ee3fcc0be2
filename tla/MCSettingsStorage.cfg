SPECIFICATION Spec
CONSTANTS
    p1 = p1
    p2 = p2
    settings = settings
    web = web
    Procs = {p1, p2}
    Stores = {settings, web}
    Home <- MCHome
    Keys = {k1, k2}
    NoKey = NoKey
    MaxVer = 1
SYMMETRY KeySymmetry
INVARIANTS
    NoOrphanedStore
    SavedSurvives
    MemoryMatchesFile
PROPERTY WinnersKeyKept
