SPECIFICATION FairSpec
CONSTANTS
    Handlers = {h1}
    MaxStarts = 1
    MaxPosts = 1

CHECK_DEADLOCK FALSE
PROPERTIES
    StopJoins
