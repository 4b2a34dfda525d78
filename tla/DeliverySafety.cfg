SPECIFICATION FairSpec
CONSTANTS
    Schedules <- MCTwoCadences
    Horizon = 4
    Lag = 1
    MaxDelay = 2
    MaxAttempts = 3
    MaxFailures = 1
    MaxCrashes = 1
    MaxChanges = 1
INVARIANT TypeOK
INVARIANT SentOnceUnlessExposed
INVARIANT DeliveredWasSent
INVARIANT DeliveredNeverDueAgain
INVARIANT NoItemSkipped
PROPERTY KeepsPromise
PROPERTY DueIsServed
CHECK_DEADLOCK FALSE
