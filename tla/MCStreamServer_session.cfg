CONSTANTS
    PageSize = 2
    PageFlash = 1
    NumPages = 2
    DataBytes = {0, 1, 32, 80, 81}
    MaxFaults = 2
SPECIFICATION FairSpec
INVARIANTS PlainIsStored 
 
CHECK_DEADLOCK FALSE
