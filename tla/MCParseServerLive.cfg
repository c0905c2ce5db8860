\* Liveness: two calls of any endpoint, a model with and one without geometry.
SPECIFICATION FairSpec
CONSTANTS
    q1 = q1
    q2 = q2
    s1 = s1
    s2 = s2
    house = house
    empty = empty
    Nothing = Nothing
    Requests <- TwoRequests
    Keys <- TwoKeys
    Batches <- FewBatches
    Kinds <- Everything
    Slots <- OneSlot
    Units <- NoUnits
    Faults = {"panic"}
    MaxCrashes = 0
    MaxLost = 1
CHECK_DEADLOCK FALSE
PROPERTIES
    EveryoneLeaves
    FreshGetsCached
