SPECIFICATION FairSpec
CONSTANTS
    c1 = c1
    Node <- ThreeNodes
    Sorted <- ByAddress
    Call <- MCCall
    Partition <- MCPartition
    retries = 0
    MaxRelaunches = 1
CHECK_DEADLOCK FALSE
INVARIANTS
    TypeOK
    
    MeshFull
PROPERTIES
    
    EveryStartEnds
