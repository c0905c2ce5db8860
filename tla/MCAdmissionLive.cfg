\* Every acquire returns: two slots and two permits for three requests, an upload
\* takes one or the whole budget.
SPECIFICATION FairSpec
CONSTANTS
    r1 = r1
    r2 = r2
    r3 = r3
    r4 = r4
    c1 = c1
    c2 = c2
    m1 = m1
    m2 = m2
    Nobody = Nobody
    Tasks <- ThreeRequests
    CpuPermits <- TwoSlots
    MemPermits <- TwoUnits
    MaxConcurrentParses = 2
    MemBudgetBytes = 200
    QueueDepth = 1
    ShedPct = 80
    BytesPerPermit = 100
    ReserveSizes = {50, 250}
    RssSamples = {0}
CHECK_DEADLOCK FALSE
PROPERTIES
    JobsEndingServes
    TimerBoundsWait
