SPECIFICATION Spec
CONSTANTS
    Lists = {a, b}
    MaxNodes = 4
    SegmentCapacity = 2
    SearchFromTail = 2
    Null = Null
    Elements = {x, y}
    CacheMax = 2
    Stride = 1
    DenseBelow = 3
    Sparse = 2
    FarFromEnds = 1
    CachePer = 1
    EdgeCalls = {"insert_list at the front"}
INVARIANT CacheExact
