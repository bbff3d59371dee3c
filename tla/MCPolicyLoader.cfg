SPECIFICATION FairSpec
CONSTANTS
    c1 = c1
    c2 = c2
    c3 = c3
    NONE = NONE
    CgroupIds <- TwoCgroups
    Paths <- SamplePaths
    Hashes <- SampleHashes
    PathHash <- SamplePathHash
    Patterns <- SamplePatterns
    Classify <- SampleClassify
    StoredPrefixes <- SampleStoredPrefixes
    StartsWith <- SampleStartsWith
    Ips <- SampleIps
    Ports <- SamplePorts
    MAX_PREFIX_SLOTS = 1
    Prefixes <- SamplePrefixes
    Truncate <- SampleTruncate
    CategoryGroups <- SampleCategoryGroups
    RuleOrders <- SampleRuleOrders
    AuditOnly = FALSE
    AllowlistSize = 64
    MapSize <- Ample
INVARIANT TypeOK
INVARIANT BoundPolicyInForce
INVARIANT SkbMirrorsConnect
INVARIANT AuditRehearsesEnforcement
INVARIANT RestartsDoNotFillAllowlist
PROPERTY BindReturns
PROPERTY CoverageKept
