SPECIFICATION AllSpec
CONSTANTS
    Lists = {a, b}
    MaxNodes = 4
    SegmentCapacity = 2
    SearchFromTail = 2
    Null = Null
    Elements = {x, y}
    Default = Default
    CacheMax = 2
    Stride = 1
    DenseBelow = 3
    Sparse = 2
    FarFromEnds = 1
    CachePer = 1
    EdgeCalls = {}
    MaxKey = 10
    MapValues = {x}
    MaxSize = 3
    ThrowsInMiddle = FALSE
    ThrowsInConstructor = FALSE
    AliasedArguments = FALSE
    SEGMENT_SIZE = 2
    AssignsToMoved = FALSE
    KeepsReferences = FALSE
INVARIANT ListsSound
INVARIANT CacheExact
INVARIANT HashListsAgree
INVARIANT RedBlackMap
INVARIANT VectorsHoldElements
INVARIANT VectorsAreValues
INVARIANT SegmentsOwnedOnce
