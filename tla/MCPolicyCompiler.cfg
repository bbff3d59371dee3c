CONSTANTS
    MAX_PATH_DEPTH = 128
    SHORT_COPY = 32
    PREFIX_MAX_LEN = 15
    MAX_PREFIX_SLOTS = 2
    NoAddr = NoAddr
    prefix_min_cluster = 2
    prefix_min_depth = 2
    prefix_min_affix = 3
    sensitive_roots <- SampleRoots
    Profiles <- SampleProfiles
    Imports <- SampleImports
    Paths <- SamplePaths
    Destinations <- SampleDestinations
SPECIFICATION Spec
CHECK_DEADLOCK FALSE
INVARIANTS
    RelationSound
    PermittedStaysPermitted
    DeniedStaysDenied
    WideningBounded
    FrictionHonest
