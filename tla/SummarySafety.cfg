SPECIFICATION Spec
CONSTANTS
    Clusters = {c1}
    Fetchers = {f1, f2}
    Sweepers = {s1, s2}
    MaxAttempts = 2
    MaxPerSweep = 1
    MaxChanges = 2
    MaxUpgrades = 1
    MaxCrashes = 0
SYMMETRY MCSymmetry
INVARIANT TypeOK
INVARIANT NoChangeMissedUnlessRaced
CHECK_DEADLOCK FALSE
