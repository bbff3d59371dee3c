SPECIFICATION HookSpec
CONSTANTS
    c1 = c1
    c2 = c2
    c3 = c3
    NONE = NONE
    CgroupIds <- ThreeCgroups
    Paths <- SamplePaths
    Hashes <- SampleHashes
    PathHash <- SamplePathHash
    Patterns <- SamplePatterns
    Classify <- SampleClassify
    StoredPrefixes <- SampleStoredPrefixes
    StartsWith <- SampleStartsWith
    Ips <- SampleIps
    Ports <- SamplePorts
    MAX_PREFIX_SLOTS = 3
    Prefixes <- SamplePrefixes
    Truncate <- SampleTruncate
    CategoryGroups <- SampleCategoryGroups
    RuleOrders <- FullMapOrders
    AuditOnly = FALSE
    AllowlistSize = 2
    MapSize <- Scarce
INVARIANT HookTypeOK
INVARIANT CallDecidesPolicy
INVARIANT BoundPolicyInForce
PROPERTY CoverageKept
CHECK_DEADLOCK FALSE
SYMMETRY Symmetry
