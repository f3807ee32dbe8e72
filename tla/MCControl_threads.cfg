CONSTANTS
    NumSlots = 2
    FileIdMax = 4
    KeyMayWrap = FALSE
    HostSendsEmpty = FALSE
    HostRepeatsLeave = FALSE
    HostStraysPage = TRUE
    SDMayFail = FALSE
    PowerMayFail = FALSE
SPECIFICATION Spec
INVARIANTS TypeOK AtMostOneRunning UploadingIsHeld
PROPERTIES AcceptedWaits ServesQueue
CHECK_DEADLOCK FALSE
