SPECIFICATION TrackingSpec
CONSTANTS
    NONE = NONE
    CgroupIds <- Starts
    Paths <- SamplePaths
    Hashes <- SampleHashes
    PathHash <- SamplePathHash
    Patterns <- SamplePatterns
    Classify <- SampleClassify
    StoredPrefixes <- SampleStoredPrefixes
    StartsWith <- SampleStartsWith
    Ips <- SampleIps
    Ports <- SamplePorts
    MAX_PREFIX_SLOTS = 1
    Prefixes <- SamplePrefixes
    Truncate <- SampleTruncate
    CategoryGroups <- SampleCategoryGroups
    RuleOrders <- TrackedOrder
    AuditOnly = FALSE
    AllowlistSize = 64
    MapSize <- Ample
    MaxStarts = 4
    MaxContainers = 2
    MaxInspectFaults = 1
    FilterSize = 32
INVARIANT NoRestartLost
INVARIANT FilterMatchesPolicy
PROPERTY EnforcementFollows
CHECK_DEADLOCK FALSE
