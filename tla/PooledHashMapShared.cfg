SPECIFICATION Spec
CONSTANTS
    k1 = k1
    k2 = k2
    k3 = k3
    Keys = {k1, k2, k3}
    HashOf <- Hashes
    MinBuckets = 2
    TakenEntries = {0, 1}
    Values = {v1, v2}
    Counts = {0, 3, 5}
    LoadFactors <- Loads
    DefaultLoad <- ThreeQuarters
    RehashBelowSize = FALSE
    NoCursor = NoCursor
INVARIANT AgreesWithMap
