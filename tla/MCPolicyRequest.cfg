SPECIFICATION MCSpec
CONSTANTS
    ann = ann
    bob = bob
    Users = {ann, bob}
    NoUser = NoUser
    Always = Always
    DayLen = 48
    Offsets = {0, 11, 40}
    Rules <- MCRules
    MaxRules = 3
    Devices = {1, 2}
    IPs = {ip}
    Logins = {ann}
    Groups = {1, 2}
    Default = 2
    None = None
    MaxMoves = 1
CHECK_DEADLOCK FALSE
INVARIANTS
    DecisionIsFirstMatch
    ConditionsAreAbove
    LayersAgree
    PauseOnlyLifts
    ActiveIsOpenWindow
    UserPolicyIsDeterminate
    QuietMeansOwnPolicy
