SPECIFICATION Spec
CONSTANTS
    c1 = c1
    Node <- TwoNodes
    Sorted <- ByAddress
    Call <- MCCall
    Partition <- MCPartition
    retries = 0
    MaxRelaunches = 0
CHECK_DEADLOCK FALSE
INVARIANTS
    RedirectsReachOwner
