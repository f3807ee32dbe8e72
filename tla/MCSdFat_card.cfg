SPECIFICATION Spec
CONSTANTS
    ClusterCount = 4
    BlocksPerCluster = 2
    BlockSize = 2
    FatEntries = 4
    FatCount = 2
    RootBlocks = 2
    fileA = fileA fileB = fileB dirD = dirD fileS = fileS fileT = fileT fileU = fileU
    Names <- MCNames
    Dir = dirD
    SubNames <- MCSubNames
    Kinds <- MCKinds
    Places = {0, 1}
    Writes <- MCWrites
    MaxSize = 5
    MaxOps = 4
    MaxFaults = 1
SYMMETRY Symmetry
INVARIANTS ContentIsSeen ChainsSound NoClusterIsLost PromisedIsOnCard
CHECK_DEADLOCK FALSE
