CONSTANTS
    NumSlots = 2
    FileIdMax = 3
    KeyMayWrap = FALSE
    HostSendsEmpty = FALSE
    HostRepeatsLeave = FALSE
    HostStraysPage = FALSE
    SDMayFail = TRUE
    PowerMayFail = TRUE
SPECIFICATION Spec
INVARIANTS EndedStaysEnded RanIsNotRepeated
