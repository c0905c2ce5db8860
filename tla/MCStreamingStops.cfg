\* What the source says of a client that hangs up, on jobs that make no mesh.
SPECIFICATION Spec
CONSTANTS
    Models <- SmallModels
    InitialBatchSize = 0
    MaxBatchSize = 1
CHECK_DEADLOCK FALSE
INVARIANTS
    StopsBetweenChunks
