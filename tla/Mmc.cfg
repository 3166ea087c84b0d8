SPECIFICATION Spec
CONSTANTS
    c1 = c1  c2 = c2
    k1 = k1  k2 = k2  k3 = k3
    m1 = m1  m2 = m2  m3 = m3
    a1 = a1  a2 = a2
    Conns <- TwoConns
    Keys <- ThreeFiles
    SizeOf <- Sizes
    Mix <- SameHash
    MapIds = {m1, m2, m3}
    Addrs = {a1, a2}
    NoMap = NoMap
    One = One
    InitialHashSize = 2
    DefaultExpireAge = 5
    DesiredMaxMappedFiles = 1
    DesiredMaxMappedBytes = 2
    DesiredFreeCount = 1
    MaxTime = 5
    Tick = 5
    MaxRefs = 2
SYMMETRY Interchangeable
VIEW Live
INVARIANTS TypeOK RefsExact NoDangling TableSound HasRoom MemoryExact Counts
CHECK_DEADLOCK FALSE
