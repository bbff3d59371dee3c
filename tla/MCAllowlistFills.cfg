SPECIFICATION Spec
CONSTANTS
    c1 = c1
    c2 = c2
    c3 = c3
    NONE = NONE
    CgroupIds <- ThreeCgroups
    Paths <- SamplePaths
    Hashes <- SampleHashes
    PathHash <- SamplePathHash
    Patterns <- SamplePatterns
    Classify <- SampleClassify
    StoredPrefixes <- SampleStoredPrefixes
    StartsWith <- SampleStartsWith
    Ips <- SampleIps
    Ports <- SamplePorts
    MAX_PREFIX_SLOTS = 3
    Prefixes <- SamplePrefixes
    Truncate <- SampleTruncate
    CategoryGroups <- SampleCategoryGroups
    RuleOrders <- FullMapOrders
    AuditOnly = FALSE
    AllowlistSize = 64
    MapSize <- Scarce
INVARIANT RestartsDoNotFillAllowlist
CHECK_DEADLOCK FALSE
