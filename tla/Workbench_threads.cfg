\* a page on two threads, one with an interrupt that waits, and two clicks under way
SPECIFICATION ChatSpec
CONSTANTS
    Threads = {t1, t2}
    Existing = {t1}
    Slots = {m1, m2}
    MAX_RETRIES = 1
    MaxRuns = 3
    MaxActs = 3
INVARIANTS AnsweredCardIsCached
  
CHECK_DEADLOCK FALSE
