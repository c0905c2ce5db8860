\* Two calls of any endpoint for one file, two slots, faults and one restart.
SPECIFICATION Spec
CONSTANTS
    q1 = q1
    q2 = q2
    s1 = s1
    s2 = s2
    house = house
    empty = empty
    Nothing = Nothing
    Requests <- TwoRequests
    Keys <- OneKey
    Batches <- HouseBatches
    Kinds <- Everything
    Slots <- TwoSlots
    Units <- NoUnits
    Faults = {"disk", "serialize", "panic"}
    MaxCrashes = 1
    MaxLost = 1
SYMMETRY Symmetry
CHECK_DEADLOCK FALSE
INVARIANTS
    GuardsAccounted
    WorkWithinSlots
    CachedWhole
    FilledInOrder
    FreshIsFetchable
