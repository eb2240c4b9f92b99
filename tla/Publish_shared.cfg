\* two threads that publish into one directory, with resumes by the user and by an ingestion
SPECIFICATION Spec
CONSTANTS
    Threads = {t1, t2}
    MaxTasks = 2
    MaxCallbacks = 2
INVARIANTS PublishedAsDecided OwnSlidesUnlessDisturbed
 
CHECK_DEADLOCK FALSE
