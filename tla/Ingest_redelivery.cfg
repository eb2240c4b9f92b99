\* an upload or import, a manual retry and a delete; a worker is lost
SPECIFICATION Spec
CONSTANTS
    Submissions = {c1}
    Reparses = {p1}
    Deletes = {d1}
    Workers = {w1, w2}
    MaxRetries = 2
    MaxCrashes = 1
INVARIANTS
    StoredOnce
    NoOrphanContent
PROPERTIES
    QueueDrains
    
CHECK_DEADLOCK FALSE
