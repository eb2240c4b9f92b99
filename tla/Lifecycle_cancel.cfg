\* a run with working cancels, two streams and a restart of the backend
SPECIFICATION Spec
CONSTANTS
    MaxRuns = 1
    Streams = {s1, s2}
    MaxCrashes = 1
    AwareInNaive = TRUE
PROPERTIES
    OnlyStaleReadClobbers
    EndedRunIsRecorded
    
CHECK_DEADLOCK FALSE
