SPECIFICATION Spec
CONSTANTS
    k1 = k1
    k2 = k2
    k3 = k3
    Keys = {k1, k2, k3}
    HashOf <- Hashes
    MinBuckets = 2
    TakenEntries = {}
    Lists = {a}
    MaxNodes = 4
    SegmentCapacity = 2
    SearchFromTail = 2
    Null = Null
    Values = {v1, v2}
    Load <- ThreeQuarters
    ReadsAs <- ReadAsBefore
INVARIANT IndexMatchesList
INVARIANT KeepsOrder
