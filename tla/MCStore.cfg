SPECIFICATION FairSpec
CONSTANTS
    k1 = k1
    k2 = k2
    g1 = g1
    g2 = g2
    Key <- MCKey
    Deletable <- MCDeletable
    TTL <- MCTTL
    Run <- MCRun
    MaxTime = 3
    MaxHeap = 4
    MaxIndex = 2
INVARIANTS
    TypeOK
    KeysCoherent
    Scheduled
    TimerCoversHeap
    LingerBound
    HeapOrdered
PROPERTIES
    PushSiftsUp
    EvictsOnDeadline
    EventuallyPurged
