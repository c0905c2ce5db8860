\* What the source says of a replayed stream, two streams, nothing fails.
SPECIFICATION Spec
CONSTANTS
    q1 = q1
    q2 = q2
    s1 = s1
    s2 = s2
    house = house
    empty = empty
    Nothing = Nothing
    Requests <- TwoRequests
    Keys <- OneKey
    Batches <- HouseBatches
    Kinds = {"parquetStream"}
    Slots <- OneSlot
    Units <- NoUnits
    Faults = {}
    MaxCrashes = 0
    MaxLost = 1
CHECK_DEADLOCK FALSE
INVARIANTS
    ReplayHasSymbols
