SPECIFICATION ProxySpec
CONSTANTS
    t1 = t1
    t2 = t2
    Cpus = {p1, p2}
    Threads = {t1, t2}
    Packets = {}
    ProxyIps = {7}
    Enforce = FALSE
    Blocked = {}
    UDP_FLOW_TTL = 1
    NETWORK_DEDUP_TTL = 1
    FlowSize = 1
    DedupSize = 2
    ProxyMapSize = 1
    MaxTime = 2
    Clients = {1, 2}
    ClientIp = 4
    HostIp = 5
    GatewayIp = 7
    ContainerIp = 8
    ContainerPort = 80
SYMMETRY Symmetry
INVARIANT SourceWasAccepted OwnUnlessDisturbed
CHECK_DEADLOCK FALSE
