SPECIFICATION FairSpec
CONSTANTS
    Events = {1, 2, 3}
    Group <- MCGroup
    Links <- MCLinks
    Web <- MCWeb
    Domain <- MCDomain
    Jobs = {j1, j2}
    Conns = {k1, k2}
    MaxAttempts = 2
    MaxPerSweep = 2
    MaxPerDomain = 1
    MaxConcurrent = 2
    MaxRedirects = 1
    MaxFaults = 1
INVARIANT NoDoubleFetch
INVARIANT DepthKeepsUpUnlessOverlapped
PROPERTY QueueDrains
CHECK_DEADLOCK FALSE
