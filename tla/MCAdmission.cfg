\* Two CPU slots, a budget of two permits (and a remainder), one queue place, four
\* requests.  An upload asks for one permit, or for more than the budget.
SPECIFICATION Spec
CONSTANTS
    r1 = r1
    r2 = r2
    r3 = r3
    r4 = r4
    c1 = c1
    c2 = c2
    m1 = m1
    m2 = m2
    Nobody = Nobody
    Tasks <- FourRequests
    CpuPermits <- TwoSlots
    MemPermits <- TwoUnits
    MaxConcurrentParses = 2
    MemBudgetBytes = 250
    QueueDepth = 1
    ShedPct = 80
    BytesPerPermit = 100
    ReserveSizes = {50, 1000}
    RssSamples = {0, 240}
SYMMETRY FourSymmetry
CHECK_DEADLOCK FALSE
INVARIANTS
    QueueBounded
    TypeOK
    SemaphoresSound
    InFlightBacked
    AdmittedBytesBound
    CpuBeforeMem
    RejectionsCounted
    NothingLeaks
PROPERTIES
    GateImplemented
