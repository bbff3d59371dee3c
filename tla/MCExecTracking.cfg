SPECIFICATION ExecSpec
CONSTANTS
    p1 = p1
    p2 = p2
    Procs = {p1, p2}
    Programs = {"/bin/a", "/bin/b"}
    Resolves <- Names
    ExecCalls <- SampleCalls
    MAX_ARGS = 20
    MAX_ARG_LEN = 16
    MAX_FILENAME_LEN = 7
    ExecStateSize = 2
    DedupSize = 2
    MaxCalls = 3
    NONE = NONE
SYMMETRY Symmetry
INVARIANTS
    ExecTypeOK
    ExecEventTrue
    TargetInProfile
    SecretsRedacted
CHECK_DEADLOCK FALSE
