\* one run, its SSE connection and a reconnection
SPECIFICATION Spec
CONSTANTS
    RunIds = {r1}
    Streams = {s1, s2}
    NoRun = NoRun
    Capacity = 2
    MaxEvents = 3
INVARIANTS
    OrderedAtMostOnce
    SoleReaderComplete
    NoUnreachableTask
PROPERTIES
    ImplementsEventStream
    CancelReturnsWithReader
    SoleReaderEnds
CHECK_DEADLOCK FALSE
