\* What the source says of a session that turns the small cuts back on.
INIT Init
NEXT Next
CONSTANTS
    SymbolFiles <- Files
    MaxItemDepth = 3
    MaxRevisits = 2
    MaxElements = 3
    MaxBytes = 8
    Overhead = 1
    Product = Product
    NoNode = NoNode
    house = house
    annex = annex
    blank = blank
    LoadFiles <- ThreeFiles
    EmptyFiles = {blank}
    NoFile = NoFile
    Signature <- OneSignature
    Qualities = {"medium", "low"}
    Medium = "medium"
    MaxLoads = 2
    Jobs <- JobKinds
    MaxJobs = 4
    Plans = {{}, {"s"}, {"s", "t"}}
    MinOccurrences = 3
    NoRep = NoRep
    PoolWorkers = {w1, w2}
    Scenes <- AllScenes
    MaxMappedDepth = 2
SYMMETRY Alike
CHECK_DEADLOCK FALSE
INVARIANTS
    ItemAsAsked
