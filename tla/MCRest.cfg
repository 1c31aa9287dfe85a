SPECIFICATION RestSpec
CONSTANTS
    k1 = k1
    i1 = i1
    l1 = l1
    l2 = l2
    NotAName = NotAName
    Absent = Absent
    NoKey = NoKey
    NoCall = NoCall
    NotServed = NotServed
    Key <- MCKey
    Item <- MCItem
    Leaf <- MCLeaf
    MaxLen = 1
INVARIANTS
    TypeOK
    RestTypeOK
    LookupsAreExact
    
    ClientIsUnderstood
PROPERTIES
    OnlyNullIsFatal
    
