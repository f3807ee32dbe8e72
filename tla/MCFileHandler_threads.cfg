CONSTANTS
    Keys <- MCKeys
    Pages <- MCPages
    Addresses <- MCAddresses
    FileMax = 3
    ClusterSize = 1
    SDMayFail = TRUE
SPECIFICATION Spec
INVARIANTS OwnFile NothingLeft
 
