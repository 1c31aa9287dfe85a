SPECIFICATION FairSpec
CONSTANTS
    c1 = c1
    c2 = c2
    NoValue = NoValue
    Nobody = Nobody
    Node <- TwoNodes
    Key <- TwoKeys
    Call <- Calls2
    Addr <- WildcardAddr
    Partition <- Partitions
    MaxFailures = 0
CHECK_DEADLOCK FALSE
PROPERTIES
    EveryCallReturns
