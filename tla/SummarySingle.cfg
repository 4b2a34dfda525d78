SPECIFICATION FairSpec
CONSTANTS
    Clusters = {c1, c2}
    Fetchers = {}
    Sweepers = {s1}
    MaxAttempts = 2
    MaxPerSweep = 1
    MaxChanges = 1
    MaxUpgrades = 0
    MaxCrashes = 1
INVARIANT BudgetRespected
PROPERTY DueIsSettled
CHECK_DEADLOCK FALSE
