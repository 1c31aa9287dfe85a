SPECIFICATION FairSpec
CONSTANTS
    n1 = n1
    n2 = n2
    n3 = n3
    Torn = Torn
    Node <- MCNode
    Listed <- InOrder
    HTTPNode <- MCNode
    MaxFailures = 1
CHECK_DEADLOCK FALSE
INVARIANTS
    TypeOK
    NoErrorIsLost
    LastNodeListed
    OnlyLaterNodes

    
