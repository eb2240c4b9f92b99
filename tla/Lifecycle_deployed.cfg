SPECIFICATION Spec
CONSTANTS
    MaxRuns = 2
    Streams = {s1, s2}
    MaxCrashes = 0
    AwareInNaive = FALSE
SYMMETRY Symmetry
INVARIANTS QuietThreadNotRunning SoleReaderRecordsOutcome 
CHECK_DEADLOCK FALSE
