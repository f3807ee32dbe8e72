CONSTANTS
    NumSlots = 2
    FileIdMax = 2
    KeyMayWrap = FALSE
    HostSendsEmpty = TRUE
    HostRepeatsLeave = TRUE
    HostStraysPage = FALSE
    SDMayFail = FALSE
    PowerMayFail = FALSE
SPECIFICATION FairSpec
INVARIANT AtMostOneRunning
PROPERTY WaitingIsServed
CHECK_DEADLOCK FALSE
