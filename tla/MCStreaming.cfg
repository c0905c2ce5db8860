\* The first chunk is one job, later ones two; a batch is cut as its chunk is.
\* The client may stop reading, or read on, or hang up.
SPECIFICATION RunsSpec
CONSTANTS
    Models <- AllModels
    InitialBatchSize = 0
    MaxBatchSize = 2
CHECK_DEADLOCK FALSE
INVARIANTS
    TypeOK
    GuardCovers
    LittleWorkForNobody
PROPERTIES
    ContractKept
    HangUpFreesGuard
    ReaderIsServed
