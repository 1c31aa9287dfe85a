SPECIFICATION Spec
CONSTANTS
    k1 = k1
    k2 = k2
    r1 = r1
    r2 = r2
    Unset = Unset
    Torn = Torn
    Key <- MCKey
    Reader <- MCReader
    MaxLen = 3
SYMMETRY Symmetry
INVARIANTS
    ListingIsSnapshot
