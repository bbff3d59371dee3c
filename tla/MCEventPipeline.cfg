SPECIFICATION PipeSpec
CONSTANTS
    p1 = p1
    p2 = p2
    NONE = NONE
    Cpus = {p1, p2}
    MAX_ALLOCS = 4
    Events <- SampleEvents
    BufferSize = 2
    ReadBuffers = 2
    ChannelSize = 1
    Enforcing = FALSE
    MaxPrograms = 3
    MaxNesting = 2
INVARIANT PipeTypeOK
INVARIANT NoRecordUnheard
INVARIANT EveryRecordAccounted
INVARIANT FrequenciesAddUp
INVARIANT RecordIsOwn
INVARIANT AllocatorSuffices
PROPERTY RecordsDelivered
CHECK_DEADLOCK FALSE
