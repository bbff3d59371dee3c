SPECIFICATION NetSpec
CONSTANTS
    p1 = p1
    p2 = p2
    Cpus = {p1, p2}
    Threads = {}
    Packets <- UdpPackets
    ProxyIps = {}
    Enforce = TRUE
    Blocked <- SampleBlocked
    UDP_FLOW_TTL = 1
    NETWORK_DEDUP_TTL = 1
    FlowSize = 1
    DedupSize = 1
    ProxyMapSize = 1
    MaxTime = 2
INVARIANT RepeatedBlockedIsDropped
SYMMETRY Symmetry
