SPECIFICATION Spec
CONSTANTS
    k1 = k1
    k2 = k2
    g1 = g1
    g2 = g2
    Key <- MCKey
    Deletable <- MCKey
    TTL <- MCTTL
    Run <- MCRun
    MaxTime = 2
    MaxHeap = 3
    MaxIndex = 2
PROPERTIES
    StoredRecordLives
