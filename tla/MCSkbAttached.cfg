SPECIFICATION TrackingSpec
CONSTANTS
    NONE = NONE
    CgroupIds <- Starts
    Paths <- SamplePaths
    Hashes <- SampleHashes
    PathHash <- SamplePathHash
    Patterns <- SamplePatterns
    Classify <- SampleClassify
    StoredPrefixes <- SampleStoredPrefixes
    StartsWith <- SampleStartsWith
    Ips <- SampleIps
    Ports <- SamplePorts
    MAX_PREFIX_SLOTS = 1
    Prefixes <- SamplePrefixes
    Truncate <- SampleTruncate
    CategoryGroups <- SampleCategoryGroups
    RuleOrders <- TrackedOrder
    AuditOnly = FALSE
    AllowlistSize = 64
    MapSize <- Ample
    MaxStarts = 2
    MaxContainers = 1
    MaxInspectFaults = 0
    FilterSize = 32
INVARIANT SkbGuardsAttachedCgroup
CHECK_DEADLOCK FALSE
