SPECIFICATION Spec
CONSTANTS
    Values = {x, y}
    Capacities = {0, 1, 3}
    SlotBytes = 3
    MinBlock = 4
    MaxBytes = 16
    GarbageFlags = {TRUE, FALSE}
    NoObject = NoObject
INVARIANT SlotsMatch
PROPERTY ImplementsFifo
