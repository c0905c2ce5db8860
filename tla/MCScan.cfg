\* Every file of up to three fragments in up to four ranges.
SPECIFICATION FairSpec
CONSTANTS
    Contents <- Files
    NextRec <- Scan
    FirstByte <- Start
    NoRecord = NoRecord
    Threads = {0, 2, 3, 4}
    ParallelMin = 2
    MinChunk = 1
    HeaderLimit = 6
    IdSpan = 10
CHECK_DEADLOCK FALSE
INVARIANTS
    TypeOK
    SearchedSorted
    HandoffIsReal
PROPERTIES
    MatchesSerial
    ScanEnds
