SPECIFICATION Spec
CONSTANTS
    Handlers = {h1, h2}
    MaxStarts = 2
    MaxPosts = 3

CHECK_DEADLOCK FALSE
INVARIANTS
    OneServer
    CleanStop
