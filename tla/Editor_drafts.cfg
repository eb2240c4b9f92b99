\* a page on two threads, one edit and one Mod-s, two requests under way
SPECIFICATION DraftSpec
CONSTANTS
    ThreadIds = {t1, t2}
    Drafted = {t2}
    MaxEdits = 1
    MaxPresses = 1
    MaxSwitches = 2
    MaxSaves = 2
PROPERTIES EditsAreStored 
CHECK_DEADLOCK FALSE
