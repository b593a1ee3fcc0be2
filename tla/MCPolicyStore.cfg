SPECIFICATION Spec
CONSTANTS
    kids = kids
    ann = ann
    tv = tv
    h1 = h1
    h2 = h2
    Threads = {h1, h2}
    Default = Default
    GroupIDs = {Default, kids}
    Users = {ann}
    Devices = {tv}
    Preset = Preset
    BlockList = BlockList
    Edits = {Preset, BlockList}
    Categories <- MCCategories
    None = None
    Bodies <- MCBodies
    Legacies <- MCLegacies
    NoCats <- MCNoCats
    Broken = Broken
    Archives <- MCArchives
    MaxOps = 3
SYMMETRY MCSymmetry
CHECK_DEADLOCK FALSE
INVARIANTS
    SettledIsCurrent
PROPERTIES
    DanglingOnlyByReplace
    BlockListMovedWhole
