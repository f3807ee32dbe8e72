CONSTANTS
    BufLen = 3
    MsgLen = 2
    Lengths = {1, 2, 3}
    MaxMessages = 4
    MaxPrograms = 2
    Paces = {TRUE, FALSE}
SPECIFICATION PortSpec
INVARIANTS PortTypeOK NeverBackwards PacedIsWhole PacedIsDelivered
CHECK_DEADLOCK FALSE
