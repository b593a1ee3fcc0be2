SPECIFICATION Spec
CONSTANTS
    MaxDevices = 3
    lan = lan
    vpn = vpn
    mac = mac
    host = host
    node = node
    IPs = {lan, vpn}
    MACs = {mac}
    Names = {host}
    Nodes = {node}
    None = None
    OldDocs <- MCOldDocs
    MaxOps = 4
CHECK_DEADLOCK FALSE
INVARIANTS
    DurableMatchesMemory
    NodeLinkedOnce
PROPERTIES
    SharedMACOnlyByDDNS
    PersistentStays
