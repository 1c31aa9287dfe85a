SPECIFICATION FairSpec
CONSTANTS
    c1 = c1
    c2 = c2
    NoValue = NoValue
    Nobody = Nobody
    Node <- TwoNodes
    Key <- TwoKeys
    Call <- Calls2
    Addr <- SameAddr
    Partition <- Partitions
    MaxFailures = 2
INVARIANTS
    TypeOK
    OneRoundTrip
    ResponseMatches
    OneNodePerKey
PROPERTIES
    
    EveryCallReturns
