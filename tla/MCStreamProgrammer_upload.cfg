CONSTANTS
    NumPages = 2
    MaxTries = 3
    MaxFaults = 3
    MaxPrinted = 2
    SDMayFail = TRUE
SPECIFICATION FairSpec
INVARIANTS BegunIsProgrammed ButFineIsProgrammed
PROPERTY UploadEnds
CHECK_DEADLOCK FALSE
