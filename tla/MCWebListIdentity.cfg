SPECIFICATION WebSpec
CONSTANTS
    None = None
    Unread = Unread
    oldText = oldText
    newText = newText
    Texts = {newText}
    Blank = Blank
    FirstList <- MCFirstList
    MaxUid = 3
    MaxSaves = 2
    ProxyUsers = {u1, u2}
    FirstUsers = {u1}
    MaxUserOps = 2
    Labels = {l1, l2}
    PolicyIds = {p1}
    DefaultPolicy = p0
    Peers = {n1, n2}
    MaxDeviceOps = 2
    DefaultGroup = g0
    Starter = g1
    OwnPolicy = g2
    NewPolicy = g3
    Contents = {c1, c2}
    PolicyDevices = {d1, d2}
    MaxPolicyOps = 2
    Targets = {t1, t2}
    Categories = {k1, k2}
    MaxToolOps = 3
    RuleUsers = {u1}
    Conditions = {x1}
    Hours = {h1, h2}
    BedtimeHours = h1
    MaxRules = 2
    v1 = v1
    v2 = v2
    v3 = v3
    SettingValues = {v1, v2, v3}
    NoValue = nv
    UrlOf <- MCUrlOf
    MaxFieldOps = 2
    Providers <- MCProviders
    MaxStatusOps = 2
    MaxGeneration = 2
    MaxCalls = 2
CHECK_DEADLOCK FALSE
PROPERTY EditsByIdentity
