SPECIFICATION NetSpec
CONSTANTS
    p1 = p1
    p2 = p2
    Cpus = {p1, p2}
    Threads = {}
    Packets <- MixedPackets
    ProxyIps = {}
    Enforce = TRUE
    Blocked <- SampleBlocked
    UDP_FLOW_TTL = 1
    NETWORK_DEDUP_TTL = 1
    FlowSize = 1
    DedupSize = 2
    ProxyMapSize = 1
    MaxTime = 2
SYMMETRY Symmetry
INVARIANT NetTypeOK
INVARIANT BlockedPassesOnlyInFlow
INVARIANT SuppressedWasReported
PROPERTY SpacedUnlessRaced
